--------------------------- MODULE HostToolsProofs ---------------------------
(***************************************************************************)
(* What holds of the credential proxy, of generate and of the board, and   *)
(* of all the tools of HostTools, whose other proofs are in SourceProofs   *)
(* and ProbeProofs.                                                        *)
(***************************************************************************)
EXTENDS HostTools, SourceProofs, ProbeProofs

-----------------------------------------------------------------------------
(* Credentials: providers/github_credential_gh.py.                         *)

LEMMA CredentialTypeInit == CredentialInit => CredentialTypeOK
  BY CredentialAssumption DEF CredentialInit, CredentialTypeOK, Phases

(* What the ends of a call leave in the variables they all change.         *)
CallTyped ==
  /\ guard \in Calls \cup {None} /\ phase \in [Calls -> Phases]
  /\ authCheck \in [Calls -> BOOLEAN]
  /\ token \in [Calls -> Tokens \cup {None}] /\ clock \in [Calls -> (0..MaxClock) \cup {None}]
  /\ fact \in [Calls -> Facts \cup {None}]

LEMMA ForgetTyped ==
  ASSUME CredentialTypeOK, NEW c \in Calls, Forget(c), phase' \in [Calls -> Phases],
         fact' \in [Calls -> Facts \cup {None}]
  PROVE  CallTyped'
  BY DEF CredentialTypeOK, Forget, Release, CallTyped

LEMMA ReportTyped ==
  ASSUME CredentialTypeOK, NEW c \in Calls, NEW cause, Report(c, cause) PROVE CallTyped'
<1>1. PICK f \in {"unavailable", "unhealthy"} : fact' = [fact EXCEPT ![c] = f]
  BY DEF Report
<1>2. fact' \in [Calls -> Facts \cup {None}] /\ phase' \in [Calls -> Phases]
  BY <1>1 DEF Report, Enter, CredentialTypeOK, Facts, Phases
<1> QED BY <1>2, ForgetTyped DEF Report

LEMMA IssueTyped ==
  ASSUME CredentialTypeOK, NEW c \in Calls, Issue(c), token[c] \in Tokens
  PROVE  /\ guard' \in Calls \cup {None} /\ phase' \in [Calls -> Phases]
         /\ verifier' \in [Calls -> BOOLEAN]
         /\ verified' \in [Tokens \X Targets -> Stamps \cup {None}]
<1>1. <<token[c], target[c]>> \in Tokens \X Targets /\ [boot |-> boot, at |-> now] \in Stamps
  BY DEF CredentialTypeOK, Stamps
<1> QED BY <1>1 DEF CredentialTypeOK, Issue, Release, Enter, Phases

(* A call has read a token when it looks at attestations or verifies.      *)
Holding == {"clock", "lock", "second", "repositories", "login", "push", "passed", "issued"}
HoldsToken == \A c \in Calls : phase[c] \in Holding => token[c] \in Tokens

LEMMA CredentialTypeStep ==
  CredentialTypeOK /\ HoldsToken /\ [CredentialNext]_credentialVars => CredentialTypeOK'
<1> SUFFICES ASSUME CredentialTypeOK, HoldsToken, [CredentialNext]_credentialVars
             PROVE  CredentialTypeOK'
  OBVIOUS
<1> USE DEF CredentialTypeOK, github, given, history, call, On, Enter, Phases
<1>1. ASSUME NEW c \in Calls, StartCall(c) PROVE CredentialTypeOK'
  BY <1>1 DEF StartCall
<1>2. ASSUME NEW c \in Calls, Mint(c) PROVE CredentialTypeOK'
  <2>1. CASE \E cause : Report(c, cause)
    BY <1>2, <2>1, ReportTyped DEF Mint, Refuted, Troubled, CallTyped
  <2>2. CASE ~\E cause : Report(c, cause)
    BY <1>2, <2>2 DEF Mint
  <2> QED BY <2>1, <2>2
<1>3. ASSUME NEW c \in Calls, FirstLook(c) PROVE CredentialTypeOK'
  BY <1>3 DEF FirstLook, ReadClock
<1>4. ASSUME NEW c \in Calls, TakeLock(c) PROVE CredentialTypeOK'
  BY <1>4 DEF TakeLock
<1>5. ASSUME NEW c \in Calls, SecondLook(c) PROVE CredentialTypeOK'
  BY <1>5 DEF SecondLook, ReadClock, Release
<1>6. ASSUME NEW c \in Calls, Repositories(c) PROVE CredentialTypeOK'
  <2>1. ASSUME Issue(c), UNCHANGED <<authCheck, token, clock, fact, grounds>>
        PROVE  CredentialTypeOK'
    <3>1. token[c] \in Tokens
      BY <1>6 DEF Repositories, HoldsToken, Holding
    <3> QED BY <1>6, <2>1, <3>1, IssueTyped DEF Repositories
  <2>2. ASSUME Report(c, "declared-target-not-accessible"), Refuted(c),
               UNCHANGED <<verified, verifier>>
        PROVE  CredentialTypeOK'
    BY <1>6, <2>2, ReportTyped DEF Repositories, Refuted, CallTyped
  <2>3. ASSUME Report(c, "verification-unavailable"), UNCHANGED history PROVE CredentialTypeOK'
    BY <1>6, <2>3, ReportTyped DEF Repositories, CallTyped
  <2> QED BY <1>6, <2>1, <2>2, <2>3 DEF Repositories
<1>7. ASSUME NEW c \in Calls, Login(c) \/ CheckPush(c) PROVE CredentialTypeOK'
  <2>1. CASE \E cause : Report(c, cause)
    BY <1>7, <2>1, ReportTyped DEF Login, CheckPush, Unanswered, Refuted, Troubled, CallTyped
  <2>2. CASE ~\E cause : Report(c, cause)
    BY <1>7, <2>2 DEF Login, CheckPush, Unanswered
  <2> QED BY <2>1, <2>2
<1>8. ASSUME NEW c \in Calls, HelperTimeout(c) \/ HelperFails(c) PROVE CredentialTypeOK'
  BY <1>8, ReportTyped DEF HelperTimeout, HelperFails, GiveUp, Troubled, CallTyped
<1>9. ASSUME NEW c \in Calls, Passed(c) PROVE CredentialTypeOK'
  <2>1. token[c] \in Tokens
    BY <1>9 DEF Passed, HoldsToken, Holding
  <2> QED BY <1>9, <2>1, IssueTyped DEF Passed
<1>10. ASSUME NEW c \in Calls, Use(c) PROVE CredentialTypeOK'
  <2>1. phase' \in [Calls -> Phases] /\ fact' \in [Calls -> Facts \cup {None}]
    BY <1>10 DEF Use, Facts
  <2> QED BY <1>10, <2>1, ForgetTyped DEF Use, CallTyped
<1>11. ASSUME NEW c \in Calls, CallDies(c) PROVE CredentialTypeOK'
  BY <1>11, ForgetTyped DEF CallDies, CallTyped
<1>12. CASE ClockTick
  BY <1>12, CredentialAssumption DEF ClockTick
<1>15. CASE Reboot
  BY <1>15, CredentialAssumption DEF Reboot
<1>13. CASE Change
  <2>1. changes' \in 0..MaxChanges
    BY <1>13, CredentialAssumption DEF Change
  <2>2. accepted' \subseteq Tokens /\ writable' \subseteq Targets /\ stored' \in Tokens \cup {None}
    BY <1>13 DEF Change
  <2> QED BY <1>13, <2>1, <2>2 DEF Change
<1>14. CASE UNCHANGED credentialVars
  BY <1>14 DEF credentialVars
<1> QED
  BY <1>1, <1>2, <1>3, <1>4, <1>5, <1>6, <1>7, <1>8, <1>9, <1>10, <1>11, <1>12, <1>13, <1>14,
     <1>15
     DEF CredentialNext

LEMMA HoldsTokenStep ==
  CredentialTypeOK /\ HoldsToken /\ [CredentialNext]_credentialVars => HoldsToken'
<1> SUFFICES ASSUME CredentialTypeOK, HoldsToken, [CredentialNext]_credentialVars,
                    NEW d \in Calls, phase'[d] \in Holding
             PROVE  token'[d] \in Tokens
  BY DEF HoldsToken
<1> USE DEF CredentialTypeOK, HoldsToken, Holding, given, call, On, Enter
<1>1. ASSUME NEW c \in Calls, StartCall(c) \/ FirstLook(c) \/ TakeLock(c) \/ SecondLook(c)
      PROVE  token'[d] \in Tokens
  BY <1>1 DEF StartCall, FirstLook, TakeLock, SecondLook
<1>2. ASSUME NEW c \in Calls, NEW cause, Report(c, cause) PROVE token'[d] \in Tokens
  BY <1>2 DEF Report, Forget
<1>3. ASSUME NEW c \in Calls, Mint(c) PROVE token'[d] \in Tokens
  BY <1>2, <1>3 DEF Mint
<1>4. ASSUME NEW c \in Calls, Repositories(c) \/ Passed(c) PROVE token'[d] \in Tokens
  BY <1>2, <1>4 DEF Repositories, Passed, Issue
<1>5. ASSUME NEW c \in Calls, Login(c) \/ CheckPush(c) \/ HelperTimeout(c) \/ HelperFails(c)
      PROVE  token'[d] \in Tokens
  BY <1>2, <1>5 DEF Login, CheckPush, Unanswered, HelperTimeout, HelperFails, GiveUp
<1>6. ASSUME NEW c \in Calls, Use(c) \/ CallDies(c) PROVE token'[d] \in Tokens
  BY <1>6 DEF Use, CallDies, Forget
<1>7. CASE ClockTick \/ Change \/ UNCHANGED credentialVars
  BY <1>7 DEF ClockTick, Change, credentialVars
<1>8. CASE Reboot
  BY <1>8 DEF Reboot
<1> QED BY <1>1, <1>3, <1>4, <1>5, <1>6, <1>7, <1>8 DEF CredentialNext

(* A later time: of a later boot, or no earlier in the same.               *)
NoEarlier(s, r) == s.boot > r.boot \/ (s.boot = r.boot /\ s.at >= r.at)
(* Verifications are of the past, and an attestation is of a verification. *)
StampsPast ==
  \A k \in Tokens \X Targets : verified[k] # None => NoEarlier([boot |-> boot, at |-> now], verified[k])
AttestationVerified ==
  attestation # None =>
    LET v == verified[<<attestation.token, attestation.target>>] IN v # None /\ NoEarlier(v, attestation)

(* What a step does to the history of verifications: nothing, or a call    *)
(* that holds a token adds the present moment.                             *)
LEMMA VerifiedChanges ==
  ASSUME CredentialTypeOK, HoldsToken, [CredentialNext]_credentialVars
  PROVE  \/ verified' = verified
         \/ /\ now' = now /\ boot' = boot
            /\ \E c \in Calls : token[c] \in Tokens /\ Issue(c)
<1>1. ASSUME NEW c \in Calls, Repositories(c)
      PROVE  verified' = verified \/ (token[c] \in Tokens /\ Issue(c))
  <2>1. token[c] \in Tokens
    BY <1>1 DEF Repositories, On, HoldsToken, Holding
  <2> QED BY <1>1, <2>1 DEF Repositories, history
<1>2. ASSUME NEW c \in Calls, Passed(c) PROVE token[c] \in Tokens /\ Issue(c)
  BY <1>2 DEF Passed, On, HoldsToken, Holding
<1>3. CASE \E c \in Calls : Repositories(c) \/ Passed(c)
  BY <1>1, <1>2, <1>3 DEF Repositories, Passed
<1>4. CASE ~\E c \in Calls : Repositories(c) \/ Passed(c)
  BY <1>4 DEF CredentialNext, credentialVars, history, StartCall, Mint, FirstLook, TakeLock,
       SecondLook,
       Login, CheckPush, HelperTimeout, HelperFails, GiveUp, Use, CallDies, ClockTick, Reboot, Change
<1> QED BY <1>3, <1>4

LEMMA StampsPastStep ==
  CredentialTypeOK /\ CredentialTypeOK' /\ HoldsToken /\ StampsPast /\ [CredentialNext]_credentialVars
    => StampsPast'
<1> SUFFICES ASSUME CredentialTypeOK, CredentialTypeOK', HoldsToken, StampsPast,
                    [CredentialNext]_credentialVars,
                    NEW k \in Tokens \X Targets, verified'[k] # None
             PROVE  NoEarlier([boot |-> boot', at |-> now'], verified'[k])
  BY DEF StampsPast
<1>1. now \in Nat /\ boot \in Nat /\ now' \in Nat /\ boot' \in Nat
  BY CredentialAssumption DEF CredentialTypeOK
<1>2. verified'[k].boot \in Nat /\ verified'[k].at \in Nat
  BY CredentialAssumption DEF CredentialTypeOK, Stamps
<1>3. NoEarlier([boot |-> boot', at |-> now'], [boot |-> boot, at |-> now])
  <2>1. CASE ClockTick \/ Reboot
    BY <1>1, <2>1 DEF ClockTick, Reboot, NoEarlier
  <2>2. CASE ~(ClockTick \/ Reboot)
    <3>1. now' = now /\ boot' = boot
      BY <2>2 DEF CredentialNext, credentialVars, StartCall, Mint, FirstLook, TakeLock,
           SecondLook,
           Repositories, Login, CheckPush, HelperTimeout, HelperFails, GiveUp, Passed, Use, CallDies, Change
    <3> QED BY <1>1, <3>1 DEF NoEarlier
  <2> QED BY <2>1, <2>2
<1>4. CASE verified'[k] = verified[k]
  BY <1>1, <1>2, <1>3, <1>4 DEF StampsPast, NoEarlier
<1>5. CASE verified'[k] # verified[k]
  <2>1. PICK c \in Calls : token[c] \in Tokens /\ Issue(c) /\ now' = now /\ boot' = boot
    BY <1>5, VerifiedChanges
  <2>2. verified'[k] = [boot |-> boot, at |-> now]
    BY <1>5, <2>1 DEF Issue, CredentialTypeOK
  <2> QED BY <1>1, <2>1, <2>2 DEF NoEarlier
<1> QED BY <1>4, <1>5

(* Once verified, verified: a step only replaces a verification by the     *)
(* present moment.                                                         *)
LEMMA VerifiedLater ==
  ASSUME CredentialTypeOK, CredentialTypeOK', HoldsToken, StampsPast,
         [CredentialNext]_credentialVars,
         NEW k \in Tokens \X Targets, verified[k] # None
  PROVE  verified'[k] # None /\ NoEarlier(verified'[k], verified[k])
<1>1. verified[k].boot \in Nat /\ verified[k].at \in Nat
  BY CredentialAssumption DEF CredentialTypeOK, Stamps
<1>2. CASE verified' = verified
  BY <1>1, <1>2 DEF NoEarlier
<1>3. ASSUME NEW c \in Calls, token[c] \in Tokens, Issue(c)
      PROVE  verified'[k] # None /\ NoEarlier(verified'[k], verified[k])
  <2>1. [boot |-> boot, at |-> now] # None
    BY CredentialAssumption DEF CredentialTypeOK, Stamps
  <2>2. CASE k = <<token[c], target[c]>>
    <3>1. verified'[k] = [boot |-> boot, at |-> now]
      BY <1>3, <2>2 DEF Issue, CredentialTypeOK
    <3> QED BY <2>1, <3>1 DEF StampsPast
  <2>3. CASE k # <<token[c], target[c]>>
    <3>1. verified'[k] = verified[k]
      BY <1>3, <2>3 DEF Issue, CredentialTypeOK
    <3> QED BY <1>1, <3>1 DEF NoEarlier
  <2> QED BY <2>2, <2>3
<1> QED BY <1>2, <1>3, VerifiedChanges

LEMMA NoEarlierTransitive ==
  ASSUME NEW s, NEW r, NEW q, s.boot \in Nat, s.at \in Nat, r.boot \in Nat, r.at \in Nat,
         q.boot \in Nat, q.at \in Nat,
         NoEarlier(s, r), NoEarlier(r, q)
  PROVE  NoEarlier(s, q)
  BY DEF NoEarlier

LEMMA AttestationVerifiedStep ==
  CredentialTypeOK /\ CredentialTypeOK' /\ HoldsToken /\ StampsPast /\ AttestationVerified
    /\ [CredentialNext]_credentialVars => AttestationVerified'
<1> SUFFICES ASSUME CredentialTypeOK, CredentialTypeOK', HoldsToken, StampsPast,
                    AttestationVerified,
                    [CredentialNext]_credentialVars
             PROVE  AttestationVerified'
  OBVIOUS
<1>1. CASE attestation' = attestation
  <2> SUFFICES ASSUME attestation # None PROVE AttestationVerified'
    BY <1>1 DEF AttestationVerified
  <2> DEFINE k == <<attestation.token, attestation.target>>
  <2>1. k \in Tokens \X Targets /\ attestation.boot \in Nat /\ attestation.at \in Nat
    BY CredentialAssumption DEF CredentialTypeOK
  <2>2. verified[k] # None /\ NoEarlier(verified[k], attestation)
    BY DEF AttestationVerified
  <2>3. verified'[k] # None /\ NoEarlier(verified'[k], verified[k])
    BY <2>1, <2>2, VerifiedLater
  <2>4. /\ verified[k].boot \in Nat /\ verified[k].at \in Nat
        /\ verified'[k].boot \in Nat /\ verified'[k].at \in Nat
    BY <2>1, <2>2, <2>3, CredentialAssumption DEF CredentialTypeOK, Stamps
  <2>5. NoEarlier(verified'[k], attestation)
    BY <2>1, <2>2, <2>3, <2>4, NoEarlierTransitive
  <2> QED BY <1>1, <2>3, <2>5 DEF AttestationVerified
<1>2. CASE attestation' # attestation
  <2>1. PICK c \in Calls : Passed(c)
    BY <1>2 DEF CredentialNext, credentialVars, StartCall, Mint, FirstLook, TakeLock, SecondLook,
         Repositories, Login, CheckPush, HelperTimeout, HelperFails, GiveUp, Use, CallDies, ClockTick, Reboot, Change
  <2>2. attestation' = [token |-> token[c], target |-> target[c], boot |-> boot, at |-> now] /\ Issue(c)
    BY <1>2, <2>1 DEF Passed
  <2>3. token[c] \in Tokens /\ target[c] \in Targets /\ boot \in Nat /\ now \in Nat
    BY <2>1, CredentialAssumption DEF Passed, On, HoldsToken, Holding, CredentialTypeOK
  <2>4. verified'[<<token[c], target[c]>>] = [boot |-> boot, at |-> now]
    BY <2>2, <2>3 DEF Issue, CredentialTypeOK
  <2>5. [boot |-> boot, at |-> now] # None
    BY CredentialAssumption DEF CredentialTypeOK, Stamps
  <2> QED BY <2>2, <2>3, <2>4, <2>5 DEF AttestationVerified, NoEarlier
<1> QED BY <1>1, <1>2

(* An authorization check looks at no attestation.                         *)
Unchecked == \A c \in Calls : phase[c] \in {"clock", "lock", "second"} => ~authCheck[c]

LEMMA UncheckedStep ==
  CredentialTypeOK /\ Unchecked /\ [CredentialNext]_credentialVars => Unchecked'
<1> SUFFICES ASSUME CredentialTypeOK, Unchecked, [CredentialNext]_credentialVars,
                    NEW d \in Calls, phase'[d] \in {"clock", "lock", "second"}
             PROVE  ~authCheck'[d]
  BY DEF Unchecked
<1> USE DEF CredentialTypeOK, Unchecked, given, call, On, Enter
<1>1. ASSUME NEW c \in Calls, StartCall(c) \/ FirstLook(c) \/ TakeLock(c) \/ SecondLook(c)
      PROVE  ~authCheck'[d]
  BY <1>1 DEF StartCall, FirstLook, TakeLock, SecondLook
<1>2. ASSUME NEW c \in Calls, NEW cause, Report(c, cause) PROVE ~authCheck'[d]
  BY <1>2 DEF Report, Forget
<1>3. ASSUME NEW c \in Calls, Mint(c) PROVE ~authCheck'[d]
  BY <1>2, <1>3 DEF Mint
<1>4. ASSUME NEW c \in Calls, Repositories(c) \/ Passed(c) PROVE ~authCheck'[d]
  BY <1>2, <1>4 DEF Repositories, Passed, Issue
<1>5. ASSUME NEW c \in Calls, Login(c) \/ CheckPush(c) \/ HelperTimeout(c) \/ HelperFails(c)
      PROVE  ~authCheck'[d]
  BY <1>2, <1>5 DEF Login, CheckPush, Unanswered, HelperTimeout, HelperFails, GiveUp
<1>6. ASSUME NEW c \in Calls, Use(c) \/ CallDies(c) PROVE ~authCheck'[d]
  BY <1>6 DEF Use, CallDies, Forget
<1>7. CASE ClockTick \/ Change \/ UNCHANGED credentialVars
  BY <1>7 DEF ClockTick, Change, credentialVars
<1>8. CASE Reboot
  BY <1>8 DEF Reboot
<1> QED BY <1>1, <1>3, <1>4, <1>5, <1>6, <1>7, <1>8 DEF CredentialNext

(* What the second conjunct of IssuedIsVerified says of a call.            *)
Covered(c) ==
  /\ verified[<<token[c], target[c]>>] # None
  /\ verified[<<token[c], target[c]>>].boot = boot
  /\ clock[c] < verified[<<token[c], target[c]>>].at + TTL

(* An attestation that matches is of a verification that still covers.     *)
LEMMA MatchIsCovered ==
  ASSUME CredentialTypeOK, StampsPast, AttestationVerified,
         NEW c \in Calls, ReadClock(c), Matches(c), UNCHANGED <<boot, given, token, verified>>
  PROVE  Covered(c)'
<1> DEFINE v == verified[<<token[c], target[c]>>]
<1>1. /\ attestation \in [token : Tokens, target : Targets, boot : 0..MaxBoots, at : 0..MaxClock]
      /\ attestation.target = target[c] /\ attestation.token = token[c] /\ attestation.boot = boot
      /\ now < attestation.at + TTL /\ clock'[c] = now
  BY DEF CredentialTypeOK, Matches, ReadClock
<1>2. v # None /\ NoEarlier(v, attestation)
  BY <1>1, CredentialAssumption DEF AttestationVerified, Matches
<1>3. <<token[c], target[c]>> \in Tokens \X Targets
  BY <1>1
<1>4. v \in Stamps /\ NoEarlier([boot |-> boot, at |-> now], v)
  BY <1>2, <1>3 DEF CredentialTypeOK, StampsPast
<1>5. /\ v.boot \in Nat /\ v.at \in Nat /\ attestation.at \in Nat /\ boot \in Nat /\ now \in Nat
      /\ TTL \in Nat
  BY <1>1, <1>4, CredentialAssumption DEF CredentialTypeOK, Stamps
<1>6. v.boot = boot /\ v.at >= attestation.at
  BY <1>1, <1>2, <1>4, <1>5 DEF NoEarlier
<1> QED BY <1>1, <1>2, <1>5, <1>6 DEF Covered, given

(* Of a call that stays issued, what covered it covers it.                 *)
LEMMA CoveredStays ==
  ASSUME CredentialTypeOK, CredentialTypeOK', HoldsToken, StampsPast,
         [CredentialNext]_credentialVars,
         boot' = boot, NEW c \in Calls, token[c] \in Tokens, token'[c] = token[c], target'[c] = target[c],
         clock'[c] = clock[c], clock[c] \in Nat, Covered(c)
  PROVE  Covered(c)'
<1> DEFINE k == <<token[c], target[c]>>
<1>1. k \in Tokens \X Targets
  BY DEF CredentialTypeOK
<1>2. verified'[k] # None /\ NoEarlier(verified'[k], verified[k])
  BY <1>1, VerifiedLater DEF Covered
<1>3. verified[k] \in Stamps /\ verified'[k] \in Stamps
  BY <1>1, <1>2 DEF Covered, CredentialTypeOK
<1>4. NoEarlier([boot |-> boot', at |-> now'], verified'[k])
  BY <1>1, <1>2, StampsPastStep DEF StampsPast
<1>5. /\ verified[k].boot \in Nat /\ verified[k].at \in Nat /\ verified'[k].boot \in Nat
      /\ verified'[k].at \in Nat
      /\ boot \in Nat /\ now' \in Nat /\ TTL \in Nat
  BY <1>3, CredentialAssumption DEF CredentialTypeOK, Stamps
<1>6. verified'[k].boot = boot /\ verified'[k].at >= verified[k].at
  BY <1>2, <1>4, <1>5 DEF NoEarlier, Covered
<1> QED BY <1>2, <1>5, <1>6 DEF Covered

(* A call that did not verify has read the clock.                          *)
ClockRead == \A c \in Calls : phase[c] = "issued" /\ ~verifier[c] => clock[c] \in Nat

CredentialInv ==
  /\ CredentialTypeOK /\ HoldsToken /\ StampsPast /\ AttestationVerified
  /\ Unchecked /\ ClockRead /\ IssuedIsVerified

LEMMA IssuedIsVerifiedStep ==
  CredentialInv /\ CredentialTypeOK' /\ [CredentialNext]_credentialVars => ClockRead' /\ IssuedIsVerified'
<1> SUFFICES ASSUME CredentialInv, CredentialTypeOK', [CredentialNext]_credentialVars,
                    NEW d \in Calls, phase'[d] = "issued", ~verifier'[d]
             PROVE  clock'[d] \in Nat /\ ~authCheck'[d] /\ Covered(d)'
  BY DEF IssuedIsVerified, ClockRead, On, Covered
<1> USE DEF CredentialInv
<1>1. ASSUME phase[d] # "issued"
      PROVE  /\ phase[d] \in {"clock", "second"} /\ ReadClock(d) /\ Matches(d)
             /\ UNCHANGED <<boot, given, token, verified>>
  <2> USE DEF CredentialTypeOK, On, Enter
  <2>1. ~Reboot /\ ~ClockTick /\ ~Change /\ ~UNCHANGED credentialVars
    BY <1>1 DEF Reboot, ClockTick, Change, credentialVars, call
  <2>2. ASSUME NEW c \in Calls, NEW cause, Report(c, cause) PROVE FALSE
    BY <1>1, <2>2 DEF Report
  <2>3. ASSUME NEW c \in Calls, Mint(c) \/ Login(c) \/ CheckPush(c) \/ HelperTimeout(c) \/ HelperFails(c)
        PROVE  FALSE
    BY <1>1, <2>2, <2>3 DEF Mint, Login, CheckPush, Unanswered, HelperTimeout, HelperFails, GiveUp
  <2>4. ASSUME NEW c \in Calls, Repositories(c) \/ Passed(c) PROVE FALSE
    BY <1>1, <2>2, <2>4 DEF Repositories, Passed, Issue
  <2>5. ASSUME NEW c \in Calls, StartCall(c) \/ TakeLock(c) \/ Use(c) \/ CallDies(c) PROVE FALSE
    BY <1>1, <2>5 DEF StartCall, TakeLock, Use, CallDies
  <2>6. PICK c \in Calls : FirstLook(c) \/ SecondLook(c)
    BY <2>1, <2>3, <2>4, <2>5 DEF CredentialNext
  <2>7. c = d
    BY <1>1, <2>6 DEF FirstLook, SecondLook
  <2> QED BY <1>1, <2>6, <2>7 DEF FirstLook, SecondLook, history
<1>2. ASSUME phase[d] = "issued"
      PROVE  /\ ~verifier[d] /\ boot' = boot /\ token[d] \in Tokens
             /\ token'[d] = token[d] /\ target'[d] = target[d] /\ clock'[d] = clock[d]
             /\ authCheck'[d] = authCheck[d]
  <2> USE DEF CredentialTypeOK, On, Enter, given, history, call
  <2>1. token[d] \in Tokens
    BY <1>2 DEF HoldsToken, Holding
  <2>2. ~Reboot
    BY DEF Reboot
  <2>3. ASSUME ClockTick \/ Change \/ UNCHANGED credentialVars
        PROVE  UNCHANGED <<verifier, boot, token, target, clock, authCheck>>
    BY <2>3 DEF ClockTick, Change, credentialVars
  <2>4. ASSUME NEW c \in Calls, NEW cause, Report(c, cause), boot' = boot, target' = target,
               UNCHANGED verifier
        PROVE  /\ ~verifier[d] /\ boot' = boot /\ token'[d] = token[d] /\ target'[d] = target[d]
               /\ clock'[d] = clock[d] /\ authCheck'[d] = authCheck[d]
    BY <1>2, <2>4 DEF Report, Forget
  <2>5. ASSUME NEW c \in Calls, Mint(c) \/ Login(c) \/ CheckPush(c)
        PROVE  /\ ~verifier[d] /\ boot' = boot /\ token'[d] = token[d] /\ target'[d] = target[d]
               /\ clock'[d] = clock[d] /\ authCheck'[d] = authCheck[d]
    BY <1>2, <2>4, <2>5 DEF Mint, Login, CheckPush, Unanswered
  <2>9. ASSUME NEW c \in Calls, HelperTimeout(c) \/ HelperFails(c)
        PROVE  /\ ~verifier[d] /\ boot' = boot /\ token'[d] = token[d] /\ target'[d] = target[d]
               /\ clock'[d] = clock[d] /\ authCheck'[d] = authCheck[d]
    BY <1>2, <2>9 DEF HelperTimeout, HelperFails, GiveUp, Report, Forget
  <2>6. ASSUME NEW c \in Calls, Repositories(c) \/ Passed(c)
        PROVE  /\ ~verifier[d] /\ boot' = boot /\ token'[d] = token[d] /\ target'[d] = target[d]
               /\ clock'[d] = clock[d] /\ authCheck'[d] = authCheck[d]
    BY <1>2, <2>4, <2>6 DEF Repositories, Passed, Issue
  <2>7. ASSUME NEW c \in Calls, StartCall(c) \/ FirstLook(c) \/ TakeLock(c) \/ SecondLook(c)
        PROVE  /\ ~verifier[d] /\ boot' = boot /\ token'[d] = token[d] /\ target'[d] = target[d]
               /\ clock'[d] = clock[d] /\ authCheck'[d] = authCheck[d]
    BY <1>2, <2>7 DEF StartCall, FirstLook, TakeLock, SecondLook, ReadClock
  <2>8. ASSUME NEW c \in Calls, Use(c) \/ CallDies(c)
        PROVE  /\ ~verifier[d] /\ boot' = boot /\ token'[d] = token[d] /\ target'[d] = target[d]
               /\ clock'[d] = clock[d] /\ authCheck'[d] = authCheck[d]
    BY <1>2, <2>8 DEF Use, CallDies, Forget
  <2> QED BY <2>1, <2>2, <2>3, <2>5, <2>6, <2>7, <2>8, <2>9 DEF CredentialNext
<1>3. CASE phase[d] # "issued"
  <2>1. Covered(d)'
    BY <1>1, <1>3, MatchIsCovered
  <2>2. clock'[d] = now /\ now \in Nat
    BY <1>1, <1>3, CredentialAssumption DEF ReadClock, CredentialTypeOK
  <2> QED BY <1>1, <1>3, <2>1, <2>2 DEF Unchecked, given
<1>4. CASE phase[d] = "issued"
  <2>1. ~authCheck[d] /\ Covered(d)
    BY <1>2, <1>4 DEF IssuedIsVerified, On, Covered
  <2>2. clock[d] \in Nat
    BY <1>2, <1>4 DEF ClockRead
  <2> QED BY <1>2, <1>4, <2>1, <2>2, CoveredStays
<1> QED BY <1>3, <1>4

(* A fact against a credential follows from something learned against it,  *)
(* or from a trouble of that call.                                         *)
LEMMA UntroubledUnhealthyIsRefutedStep ==
  CredentialTypeOK /\ UntroubledUnhealthyIsRefuted /\ [CredentialNext]_credentialVars => UntroubledUnhealthyIsRefuted'
<1> SUFFICES ASSUME CredentialTypeOK, UntroubledUnhealthyIsRefuted, [CredentialNext]_credentialVars,
                    NEW d \in Calls, fact'[d] = "unhealthy"
             PROVE  grounds'[d] \in {"refuted", "trouble"}
  BY DEF UntroubledUnhealthyIsRefuted
<1> DEFINE Grounded == grounds'[d] \in {"refuted", "trouble"}
<1>1. fact[d] = "unhealthy" => grounds[d] \in {"refuted", "trouble"}
  BY DEF UntroubledUnhealthyIsRefuted
<1> USE <1>1 DEF CredentialTypeOK, On, Enter, Refuted, Troubled, given, history, call
<1>2. ASSUME NEW c \in Calls, StartCall(c) PROVE Grounded
  BY <1>2, CredentialAssumption DEF StartCall, Facts
<1>3. ASSUME NEW c \in Calls, Mint(c) PROVE Grounded
  BY <1>3 DEF Mint, Report
<1>4. ASSUME NEW c \in Calls, FirstLook(c) \/ TakeLock(c) \/ SecondLook(c) \/ CallDies(c)
      PROVE  Grounded
  BY <1>4 DEF FirstLook, TakeLock, SecondLook, CallDies
<1>5. ASSUME NEW c \in Calls, Repositories(c) PROVE Grounded
  BY <1>5 DEF Repositories, Report
<1>6. ASSUME NEW c \in Calls, Login(c) \/ CheckPush(c) PROVE Grounded
  BY <1>6 DEF Login, CheckPush, Unanswered, Report
<1>7. ASSUME NEW c \in Calls, HelperTimeout(c) \/ HelperFails(c) PROVE Grounded
  BY <1>7 DEF HelperTimeout, HelperFails, GiveUp, Report
<1>8. ASSUME NEW c \in Calls, Passed(c) \/ Use(c) PROVE Grounded
  BY <1>8 DEF Passed, Use
<1>9. CASE ClockTick \/ Reboot \/ Change \/ UNCHANGED credentialVars
  BY <1>9 DEF ClockTick, Reboot, Change, credentialVars
<1> QED BY <1>2, <1>3, <1>4, <1>5, <1>6, <1>7, <1>8, <1>9 DEF CredentialNext

LEMMA CredentialInvInit == CredentialInit => CredentialInv /\ UntroubledUnhealthyIsRefuted
<1> SUFFICES ASSUME CredentialInit PROVE CredentialInv /\ UntroubledUnhealthyIsRefuted
  OBVIOUS
<1>1. CredentialTypeOK
  BY CredentialTypeInit
<1>2. HoldsToken /\ Unchecked /\ ClockRead /\ IssuedIsVerified
  BY DEF CredentialInit, HoldsToken, Holding, Unchecked, ClockRead, IssuedIsVerified, On
<1>3. StampsPast /\ AttestationVerified
  BY DEF CredentialInit, StampsPast, AttestationVerified
<1>4. UntroubledUnhealthyIsRefuted
  BY CredentialAssumption DEF CredentialInit, UntroubledUnhealthyIsRefuted, Facts
<1> QED BY <1>1, <1>2, <1>3, <1>4 DEF CredentialInv

(* In every behaviour of the credential proxy and its helper the state has *)
(* its type, and verifications, attestations and issued credentials fit    *)
(* one another.                                                            *)
THEOREM CredentialInvariantHolds == CredentialSpec => [](CredentialInv /\ UntroubledUnhealthyIsRefuted)
<1>1. ASSUME CredentialInv, UntroubledUnhealthyIsRefuted, [CredentialNext]_credentialVars
      PROVE  CredentialInv' /\ UntroubledUnhealthyIsRefuted'
  <2>1. CredentialTypeOK'
    BY <1>1, CredentialTypeStep DEF CredentialInv
  <2>2. HoldsToken' /\ StampsPast' /\ AttestationVerified' /\ Unchecked' /\ ClockRead' /\ IssuedIsVerified'
    BY <1>1, <2>1, HoldsTokenStep, StampsPastStep, AttestationVerifiedStep, UncheckedStep,
       IssuedIsVerifiedStep
       DEF CredentialInv
  <2>3. UntroubledUnhealthyIsRefuted'
    BY <1>1, UntroubledUnhealthyIsRefutedStep DEF CredentialInv
  <2> QED BY <2>1, <2>2, <2>3 DEF CredentialInv
<1> QED BY <1>1, CredentialInvInit, PTL DEF CredentialSpec

(* Every variable of the proxy and the helper stays in its domain.         *)
THEOREM CredentialTypeCorrect == CredentialSpec => []CredentialTypeOK
<1>1. CredentialInv => CredentialTypeOK
  BY DEF CredentialInv
<1> QED BY <1>1, CredentialInvariantHolds, PTL

(* main, emit: a credential is issued only by a call that verified it or  *)
(* on a verification of that token for that target, of this boot, that     *)
(* ended less than TTL before the call read the clock.                     *)
THEOREM IssuedIsVerifiedHolds == CredentialSpec => []IssuedIsVerified
<1>1. CredentialInv => IssuedIsVerified
  BY DEF CredentialInv
<1> QED BY <1>1, CredentialInvariantHolds, PTL

(* fail, health_fact: only a call that learned something against its       *)
(* credential, or met a trouble (it ran out of time, a command of it       *)
(* failed, GitHub answered 401 or 403 to a token it accepts), reports a    *)
(* deployment unhealthy, however many of its requests fail.                *)
THEOREM UntroubledUnhealthyIsRefutedHolds == CredentialSpec => []UntroubledUnhealthyIsRefuted
  BY CredentialInvariantHolds, PTL

-----------------------------------------------------------------------------
(* Declaration: watch/generate_artifacts.py, schema/validator.py,          *)
(* watch/source_hydration.py.                                              *)

(* Every input is a sequence of files of declared deployments.             *)
LEMMA InputShape ==
  ASSUME NEW s \in Inputs
  PROVE  /\ s \in Seq(Range(s)) /\ Len(s) \in Nat \ {0} /\ DOMAIN s = 1..Len(s)
         /\ \A f \in Range(s) : f \in DeclaredFiles
         /\ \A d \in Deployed(s) : d \in DeclaredDeployments
  BY DeclarationAssumption DEF DeclaredFiles, DeclaredDeployments, Deployed

LEMMA DeploymentShape ==
  ASSUME NEW d \in DeclaredDeployments
  PROVE  /\ \A r \in Roles : d.roots[r] \in Roots
         /\ \A x \in Range(d.extra) : x.root \in Roots
<1>1. DOMAIN d.roots = Roles
  BY DeclarationAssumption
<1>2. \A r \in Roles : d.roots[r] \in Range(d.roots)
  BY <1>1 DEF Range
<1> QED BY <1>2 DEF Roots

(* What a declaration wants is wanted at a root and is a checkout that a   *)
(* hydration may make, if its sources are known.                           *)
LEMMA WantsTyped ==
  ASSUME NEW s \in Inputs, SourcesKnown(s)
  PROVE  Wants(s) \subseteq [root : Roots, spec : HydratedCheckouts]
<1> SUFFICES ASSUME NEW d \in Deployed(s), NEW b \in SourceBindings(d)
             PROVE  [root |-> b.root, spec |-> Wanted(b.lock, d.branch)]
                      \in [root : Roots, spec : HydratedCheckouts]
  BY DEF Wants, WantsOf
<1>1. d \in DeclaredDeployments
  BY InputShape
<1>2. Wanted(b.lock, d.branch) \in HydratedCheckouts
  <2>1. PICK e \in Range(Lock) : e = Entry(b.lock)
    BY DEF SourcesKnown, Locked, Entry
  <2> QED BY <1>1, <2>1 DEF Wanted, HydratedCheckouts
<1>3. b.root \in Roots
  BY <1>1, DeploymentShape DEF SourceBindings, Roles
<1> QED BY <1>2, <1>3

(* So is an engine that is derived, at the root of the deployment's engine. *)
LEMMA EngineTyped ==
  ASSUME parsed \in Inputs, NEW d \in Deployed(parsed), Locked(d.sources["engine"]), NEW b \in EnginesOf(d)
  PROVE  /\ b \in [root : Roots, binary : {x.binary : x \in DeclaredDeployments}, spec : HydratedCheckouts]
         /\ b.root = d.roots["engine"]
<1>1. d \in DeclaredDeployments
  BY InputShape
<1>2. PICK x \in Derives :
        b = [root |-> d.roots["engine"], binary |-> d.binary,
             spec |-> [git |-> Entry(d.sources["engine"]).git, ref |-> x.rev, attached |-> FALSE]]
  BY DEF EnginesOf
<1>3. PICK e \in Range(Lock) : e = Entry(d.sources["engine"])
  BY DEF Locked, Entry
<1>4. b.spec \in HydratedCheckouts
  BY <1>2, <1>3 DEF HydratedCheckouts
<1>5. b.root \in Roots
  BY <1>1, <1>2, DeploymentShape DEF Roles
<1> QED BY <1>1, <1>2, <1>4, <1>5

(* The engines are derived from the checkouts, or the generation refused.  *)
LEMMA DeriveStep ==
  ASSUME Derive
  PROVE  /\ progress = "hydrate" /\ wanted = {}
         /\ UNCHANGED <<files, root, published, edits, generations, failures>>
         /\ \/ Refuse
            \/ /\ progress' = "build" /\ UNCHANGED <<index, wanted, locked, touched, parsed, manifest>>
               /\ \A b \in builds' : \E d \in Deployed(parsed) :
                    Locked(d.sources["engine"]) /\ b \in EnginesOf(d)
<1>1. CASE ~EnginesKnown
  BY <1>1 DEF Derive, ProgressIs
<1>2. CASE EnginesKnown
  <2>1. PICK chosen \in [Deployed(parsed) -> UNION {EnginesOf(d) : d \in Deployed(parsed)}] :
          /\ \A d \in Deployed(parsed) : chosen[d] \in EnginesOf(d)
          /\ IF EnginesAccepted(chosen)
               THEN ProgressTo("build") /\ builds' = Range(chosen)
                    /\ UNCHANGED <<index, wanted, locked, touched, parsed, manifest>>
               ELSE Refuse
    BY <1>2 DEF Derive
  <2>2. \A b \in Range(chosen) : \E d \in Deployed(parsed) : Locked(d.sources["engine"]) /\ b \in EnginesOf(d)
    BY <1>2, <2>1 DEF EnginesKnown, Range
  <2> QED BY <2>1, <2>2 DEF Derive, ProgressIs, ProgressTo
<1> QED BY <1>1, <1>2

(* One validation of a declaration: the generation is refused, or goes on  *)
(* to the next declaration or, from the last, to what follows.             *)
Advances(then) ==
  /\ UNCHANGED <<hydration, touched, parsed, manifest>>
  /\ \/ index = Len(parsed) /\ progress' = then /\ index' = 0
     \/ index # Len(parsed) /\ index' = index + 1 /\ progress' = progress

LEMMA PreflightStep ==
  ASSUME Preflight
  PROVE  /\ progress = "preflight"
         /\ UNCHANGED <<files, root, published, edits, generations, failures>>
         /\ \/ Refuse
            \/ ValuesAccepted(files[index], Profile(parsed)) /\ Advances("merge")
  BY DEF Preflight, Each, Advances, ProgressIs, ProgressTo

LEMMA ValidateStep ==
  ASSUME Validate
  PROVE  /\ progress = "validate"
         /\ UNCHANGED <<files, root, published, edits, generations, failures>>
         /\ \/ Refuse
            \/ /\ ValuesAccepted(files[index], Profile(parsed)) /\ PathsAccepted(files[index], root)
               /\ Advances("publish")
  BY DEF Validate, Each, Advances, ProgressIs, ProgressTo

(* A generation is at a declaration while it validates them, and what it   *)
(* parsed is an input with as many files as there are.                     *)
Placed ==
  /\ progress # "idle" => parsed \in Inputs /\ Len(parsed) = Len(files)
  /\ IF progress \in {"preflight", "validate"} THEN index \in 1..Len(parsed) ELSE index = 0

LEMMA PlacedStep ==
  GenerateTypeOK /\ Placed /\ [GenerateNext]_generateVars => Placed'
<1> SUFFICES ASSUME GenerateTypeOK, Placed, [GenerateNext]_generateVars PROVE Placed'
  OBVIOUS
<1> USE DEF GenerateTypeOK, Placed, ProgressIs, ProgressTo
<1>1. CASE Load
  BY <1>1 DEF Load
<1>2. CASE HashInputs
  BY <1>2, InputShape DEF HashInputs
<1>3. CASE Preflight
  <2>1. index \in 1..Len(parsed) /\ Len(parsed) \in Nat /\ Len(parsed) = Len(files)
    BY <1>3, InputShape, PreflightStep
  <2>2. CASE Refuse
    BY <1>3, <2>1, <2>2, PreflightStep DEF Refuse
  <2>3. CASE Advances("merge")
    BY <1>3, <2>1, <2>3, PreflightStep DEF Advances
  <2> QED BY <1>3, <2>2, <2>3, PreflightStep
<1>4. CASE Merge \/ HydrationFails \/ Publish \/ EndGeneration
  BY <1>4 DEF Merge, HydrationFails, Publish, EndGeneration, Refuse
<1>5. ASSUME NEW w \in wanted, Hydrate(w) PROVE Placed'
  BY <1>5 DEF Hydrate, Refuse
<1>6. CASE Derive
  BY <1>6, DeriveStep DEF Refuse
<1>10. ASSUME NEW b \in builds, SkipBuild(b) \/ BuildEngine(b) PROVE Placed'
  BY <1>10 DEF SkipBuild, BuildEngine, Refuse
<1>11. CASE EndHydration
  BY <1>11, InputShape DEF EndHydration
<1>7. CASE Validate
  <2>1. index \in 1..Len(parsed) /\ Len(parsed) \in Nat /\ Len(parsed) = Len(files)
    BY <1>7, InputShape, ValidateStep
  <2>2. CASE Refuse
    BY <1>7, <2>1, <2>2, ValidateStep DEF Refuse
  <2>3. CASE Advances("publish")
    BY <1>7, <2>1, <2>3, ValidateStep DEF Advances
  <2> QED BY <1>7, <2>2, <2>3, ValidateStep
<1>8. CASE Edit
  BY <1>8 DEF Edit
<1>9. CASE UNCHANGED generateVars
  BY <1>9 DEF generateVars
<1> QED BY <1>1, <1>2, <1>3, <1>4, <1>5, <1>6, <1>7, <1>8, <1>9, <1>10, <1>11 DEF GenerateNext

LEMMA GenerateTypeStep ==
  GenerateTypeOK /\ Placed /\ [GenerateNext]_generateVars => GenerateTypeOK'
<1> SUFFICES ASSUME GenerateTypeOK, Placed, [GenerateNext]_generateVars PROVE GenerateTypeOK'
  OBVIOUS
<1> USE DEF GenerateTypeOK, Placed, ProgressIs, ProgressTo, hydration
<1>1. CASE Load
  <2>1. generations' \in 0..MaxGenerations
    BY <1>1, DeclarationAssumption DEF Load
  <2>2. parsed' \in Inputs \cup {<< >>} /\ progress' \in {"idle", "hash"}
    BY <1>1 DEF Load
  <2> QED BY <1>1, <2>1, <2>2 DEF Load
<1>2. CASE HashInputs
  BY <1>2, InputShape DEF HashInputs
<1>3. CASE Preflight
  <2>1. index \in 1..Len(parsed) /\ Len(parsed) \in Nat /\ Len(parsed) = Len(files)
    BY <1>3, InputShape, PreflightStep
  <2>2. CASE Refuse
    <3>1. UNCHANGED <<files, root, published, edits, generations, failures>>
      BY <1>3, PreflightStep
    <3>2. index' \in 0..Len(files')
      BY <2>1, <2>2, <3>1 DEF Refuse
    <3> QED BY <2>2, <3>1, <3>2 DEF Refuse
  <2>3. CASE Advances("merge")
    <3>1. index' \in 0..Len(files')
      <4>1. files' = files
        BY <1>3, PreflightStep
      <4> QED BY <2>1, <2>3, <4>1 DEF Advances
    <3>2. progress' \in {progress, "merge"}
      BY <2>3 DEF Advances
    <3> QED BY <1>3, <2>3, <3>1, <3>2, PreflightStep DEF Advances
  <2> QED BY <1>3, <2>2, <2>3, PreflightStep
<1>4. CASE Merge
  <2>1. CASE SourcesKnown(parsed) /\ ConflictFree(parsed)
    BY <1>4, <2>1, WantsTyped DEF Merge
  <2>2. CASE ~(SourcesKnown(parsed) /\ ConflictFree(parsed))
    BY <1>4, <2>2 DEF Merge, Refuse
  <2> QED BY <2>1, <2>2
<1>5. ASSUME NEW w \in wanted, Hydrate(w) PROVE GenerateTypeOK'
  <2>1. w.root \in Roots /\ w.spec \in HydratedCheckouts
    BY <1>5
  <2>2. root' \in [Roots -> HydratedCheckouts \cup {None}]
    BY <1>5, <2>1 DEF Hydrate
  <2> QED BY <1>5, <2>2 DEF Hydrate, Refuse
<1>6. CASE Derive
  <2>1. CASE Refuse
    BY <1>6, <2>1, DeriveStep DEF Refuse
  <2>2. CASE ~Refuse
    <3>1. progress = "hydrate" /\ progress' = "build" /\ parsed \in Inputs
      BY <1>6, <2>2, DeriveStep
    <3>2. builds' \subseteq [root : Roots, binary : {d.binary : d \in DeclaredDeployments}, spec : HydratedCheckouts]
      BY <1>6, <2>2, <3>1, DeriveStep, EngineTyped
    <3> QED BY <1>6, <2>2, <3>1, <3>2, DeriveStep
  <2> QED BY <2>1, <2>2
<1>11. ASSUME NEW b \in builds, SkipBuild(b) \/ BuildEngine(b) PROVE GenerateTypeOK'
  <2>1. b.root \in Roots /\ b.spec \in HydratedCheckouts
    BY <1>11
  <2>2. root' \in [Roots -> HydratedCheckouts \cup {None}]
    BY <1>11, <2>1 DEF SkipBuild, BuildEngine
  <2> QED BY <1>11, <2>1, <2>2 DEF SkipBuild, BuildEngine, Refuse
<1>12. CASE EndHydration
  BY <1>12, InputShape DEF EndHydration
<1>7. CASE Validate
  <2>1. index \in 1..Len(parsed) /\ Len(parsed) \in Nat /\ Len(parsed) = Len(files)
    BY <1>7, InputShape, ValidateStep
  <2>2. CASE Refuse
    <3>1. UNCHANGED <<files, root, published, edits, generations, failures>>
      BY <1>7, ValidateStep
    <3>2. index' \in 0..Len(files')
      BY <2>1, <2>2, <3>1 DEF Refuse
    <3> QED BY <2>2, <3>1, <3>2 DEF Refuse
  <2>3. CASE Advances("publish")
    <3>1. index' \in 0..Len(files')
      <4>1. files' = files
        BY <1>7, ValidateStep
      <4> QED BY <2>1, <2>3, <4>1 DEF Advances
    <3>2. progress' \in {progress, "publish"}
      BY <2>3 DEF Advances
    <3> QED BY <1>7, <2>3, <3>1, <3>2, ValidateStep DEF Advances
  <2> QED BY <1>7, <2>2, <2>3, ValidateStep
<1>8. CASE Edit
  <2>1. edits' \in 0..MaxEdits
    BY <1>8, DeclarationAssumption DEF Edit
  <2> QED BY <1>8, <2>1 DEF Edit
<1>9. CASE HydrationFails
  <2>1. failures' \in 0..MaxFailures
    BY <1>9, DeclarationAssumption DEF HydrationFails
  <2> QED BY <1>9, <2>1 DEF HydrationFails, Refuse
<1>10. CASE Publish \/ EndGeneration \/ UNCHANGED generateVars
  BY <1>10 DEF Publish, EndGeneration, Refuse, generateVars
<1> QED BY <1>1, <1>2, <1>3, <1>4, <1>5, <1>6, <1>7, <1>8, <1>9, <1>10, <1>11, <1>12
       DEF GenerateNext

LEMMA GenerateTypeInit == GenerateInit => GenerateTypeOK /\ Placed
<1> SUFFICES ASSUME GenerateInit PROVE GenerateTypeOK /\ Placed
  OBVIOUS
<1>1. 0 \in 0..Len(files)
  BY InputShape DEF GenerateInit
<1>2. 0 \in 0..MaxEdits /\ 0 \in 0..MaxGenerations /\ 0 \in 0..MaxFailures
  BY DeclarationAssumption
<1> QED BY <1>1, <1>2 DEF GenerateInit, GenerateTypeOK, Placed

(* Two wants at a root are one, and none is at the root of an engine.      *)
LEMMA WantsAgree ==
  ASSUME NEW s, ConflictFree(s), NEW v \in Wants(s)
  PROVE  /\ \A w \in Wants(s) : v.root = w.root => v = w
         /\ \A d \in Deployed(s) : v.root # d.roots["engine"]
<1>1. ASSUME NEW w \in Wants(s)
      PROVE  /\ w = [root |-> w.root, spec |-> w.spec]
             /\ \E k \in Keys(s) : k.root = w.root /\ k.specs = {w.spec}
  <2>1. PICK d \in Deployed(s) : \E b \in SourceBindings(d) : w = [root |-> b.root, spec |-> Wanted(b.lock, d.branch)]
    BY <1>1 DEF Wants, WantsOf
  <2>2. PICK b \in SourceBindings(d) : w = [root |-> b.root, spec |-> Wanted(b.lock, d.branch)]
    BY <2>1
  <2>3. [root |-> b.root, lock |-> b.lock, specs |-> {Wanted(b.lock, d.branch)}] \in Keys(s)
    <3>1. [root |-> b.root, lock |-> b.lock, specs |-> {Wanted(b.lock, d.branch)}] \in KeysOf(d)
      BY DEF KeysOf
    <3> QED BY <3>1 DEF Keys
  <2> QED BY <2>2, <2>3
<1>2. ASSUME NEW w \in Wants(s), v.root = w.root PROVE v = w
  <2>1. {v.spec} = {w.spec}
    BY <1>1, <1>2 DEF ConflictFree
  <2> QED BY <1>1, <1>2, <2>1
<1>3. ASSUME NEW d \in Deployed(s), v.root = d.roots["engine"] PROVE FALSE
  <2>1. [root |-> d.roots["engine"], lock |-> d.sources["engine"], specs |-> {}] \in Keys(s)
    <3>1. [root |-> d.roots["engine"], lock |-> d.sources["engine"], specs |-> {}] \in KeysOf(d)
      BY DEF KeysOf
    <3> QED BY <3>1 DEF Keys
  <2>2. {v.spec} = {}
    BY <1>1, <1>3, <2>1 DEF ConflictFree
  <2> QED BY <2>2
<1> QED BY <1>2, <1>3

(* While it hydrates, what a generation parsed is free of conflicts, and   *)
(* what is not left to hydrate is served; afterwards everything is, and    *)
(* what is left to build is at roots of engines.                           *)
Served(w) == root[w.root] = w.spec
Hydration ==
  /\ progress \in {"hydrate", "build"} => ConflictFree(parsed)
  /\ progress = "hydrate" =>
       wanted \subseteq Wants(parsed) /\ \A w \in Wants(parsed) : w \in wanted \/ Served(w)
  /\ progress = "build" => \A b \in builds : \E d \in Deployed(parsed) : b.root = d.roots["engine"]
  /\ progress \in {"build", "validate", "publish", "published"} => \A w \in Wants(parsed) : Served(w)

LEMMA HydrationStep ==
  GenerateTypeOK /\ Placed /\ Hydration /\ [GenerateNext]_generateVars => Hydration'
<1> SUFFICES ASSUME GenerateTypeOK, Placed, Hydration, [GenerateNext]_generateVars PROVE Hydration'
  OBVIOUS
<1> USE DEF Hydration, ProgressIs, ProgressTo
<1>1. CASE Refuse
  BY <1>1 DEF Refuse
<1>2. CASE Load \/ HashInputs
  BY <1>2 DEF Load, HashInputs
<1>3. CASE Preflight
  BY <1>1, <1>3, PreflightStep DEF Advances
<1>4. CASE Merge
  BY <1>1, <1>4 DEF Merge
<1>5. ASSUME NEW w \in wanted, Hydrate(w) PROVE Hydration'
  <2>1. CASE ~Refuse
    <3>1. /\ progress = "hydrate" /\ progress' = progress /\ parsed' = parsed
          /\ wanted' = wanted \ {w}
          /\ root' = [root EXCEPT ![w.root] = w.spec]
      BY <1>5, <2>1 DEF Hydrate
    <3>2. root'[w.root] = w.spec /\ \A r : r # w.root => root'[r] = root[r]
      <4>1. w.root \in Roots /\ DOMAIN root = Roots
        BY <1>5 DEF GenerateTypeOK
      <4> QED BY <3>1, <4>1 DEF GenerateTypeOK
    <3>3. ASSUME NEW v \in Wants(parsed) PROVE v \in wanted' \/ root'[v.root] = v.spec
      <4>1. CASE v.root = w.root
        <5>1. v = w
          BY <1>5, <3>1, <3>3, <4>1, WantsAgree
        <5> QED BY <3>2, <5>1
      <4>2. CASE v.root # w.root
        BY <3>1, <3>2, <3>3, <4>2 DEF Served
      <4> QED BY <4>1, <4>2
    <3> QED BY <3>1, <3>3 DEF Served
  <2> QED BY <1>1, <2>1
<1>6. CASE Derive
  <2>1. CASE ~Refuse
    <3>1. /\ progress = "hydrate" /\ wanted = {} /\ progress' = "build" /\ parsed' = parsed /\ root' = root
          /\ \A b \in builds' : \E d \in Deployed(parsed) : Locked(d.sources["engine"]) /\ b \in EnginesOf(d)
      BY <1>6, <2>1, DeriveStep
    <3>2. parsed \in Inputs
      BY <3>1 DEF Placed
    <3>3. \A b \in builds' : \E d \in Deployed(parsed) : b.root = d.roots["engine"]
      BY <3>1, <3>2, EngineTyped
    <3> QED BY <3>1, <3>3 DEF Served
  <2> QED BY <1>1, <2>1
<1>7. ASSUME NEW b \in builds, BuildEngine(b) PROVE Hydration'
  <2>1. CASE ~Refuse
    <3>1. /\ progress = "build" /\ progress' = progress /\ parsed' = parsed
          /\ builds' = builds \ {b}
          /\ root' = [root EXCEPT ![b.root] = b.spec]
      BY <1>7, <2>1 DEF BuildEngine
    <3>2. \A r : r # b.root => root'[r] = root[r]
      BY <3>1 DEF GenerateTypeOK
    <3>3. \A w \in Wants(parsed) : w.root # b.root
      BY <1>7, <3>1, WantsAgree
    <3> QED BY <3>1, <3>2, <3>3 DEF Served
  <2> QED BY <1>1, <2>1
<1>8. ASSUME NEW b \in builds, SkipBuild(b) PROVE Hydration'
  BY <1>8 DEF SkipBuild, Served
<1>9. CASE EndHydration
  BY <1>9 DEF EndHydration, Served
<1>10. CASE HydrationFails \/ EndGeneration
  BY <1>1, <1>10 DEF HydrationFails, EndGeneration
<1>11. CASE Validate
  BY <1>1, <1>11, ValidateStep DEF Advances, Served
<1>12. CASE Publish \/ Edit \/ UNCHANGED generateVars
  BY <1>12 DEF Publish, Edit, generateVars, hydration, Served
<1> QED BY <1>2, <1>3, <1>4, <1>5, <1>6, <1>7, <1>8, <1>9, <1>10, <1>11, <1>12 DEF GenerateNext

(* The files before a generation's place have passed the first gate, as    *)
(* they were parsed or as they are, unless a second edit replaced one, and *)
(* it touches roots only behind that gate.                                 *)
Passes(i) == \E f \in {parsed[i], files[i]} : ValuesAccepted(f, Profile(parsed))
PastGate == {"hydrate", "build", "validate", "publish", "published"}
Gate ==
  /\ touched => progress \in PastGate
  /\ edits = 0 /\ progress # "idle" => parsed = files
  /\ edits <= 1 =>
       /\ progress = "preflight" => \A i \in 1..(index - 1) : Passes(i)
       /\ progress \in PastGate \cup {"merge"} => \A i \in DOMAIN parsed : Passes(i)

LEMMA GateStep ==
  GenerateTypeOK /\ Placed /\ Gate /\ [GenerateNext]_generateVars => Gate'
<1> SUFFICES ASSUME GenerateTypeOK, Placed, Gate, [GenerateNext]_generateVars PROVE Gate'
  OBVIOUS
<1> USE DEF Gate, PastGate, ProgressIs, ProgressTo
<1>1. ASSUME Refuse PROVE Gate'
  BY <1>1 DEF Refuse
<1>2. CASE Load
  BY <1>2 DEF Load, GenerateTypeOK
<1>3. CASE HashInputs
  BY <1>3 DEF HashInputs
<1>4. CASE Preflight
  <2>1. index \in 1..Len(parsed) /\ parsed \in Inputs /\ DOMAIN parsed = 1..Len(parsed)
    BY <1>4, PreflightStep, InputShape DEF Placed, GenerateTypeOK
  <2>2. Len(parsed) \in Nat
    BY <2>1, InputShape
  <2>3. CASE Advances("merge") /\ ValuesAccepted(files[index], Profile(parsed))
    <3>1. /\ touched' = touched /\ files' = files /\ edits' = edits /\ parsed' = parsed
          /\ progress = "preflight"
      BY <1>4, <2>3, PreflightStep DEF Advances
    <3>2. CASE edits <= 1
      <4>1. \A i \in 1..index : Passes(i)
        <5>1. Passes(index)
          BY <2>3 DEF Passes
        <5>2. \A i \in 1..(index - 1) : Passes(i)
          BY <3>1, <3>2
        <5>3. \A i \in 1..index : i = index \/ i \in 1..(index - 1)
          BY <2>1, <2>2
        <5> QED BY <5>1, <5>2, <5>3
      <4>2. \/ index' = 0 /\ progress' = "merge" /\ index = Len(parsed)
            \/ index' = index + 1 /\ progress' = "preflight"
        BY <2>1, <2>3, <3>1 DEF Advances
      <4>3. CASE index' = 0 /\ progress' = "merge" /\ index = Len(parsed)
        BY <2>1, <3>1, <3>2, <4>1, <4>3 DEF Passes
      <4>4. CASE index' = index + 1 /\ progress' = "preflight"
        <5>1. index' - 1 = index
          BY <2>1, <2>2, <4>4
        <5> QED BY <3>1, <3>2, <4>1, <4>4, <5>1 DEF Passes
      <4> QED BY <4>2, <4>3, <4>4
    <3>3. progress' # "idle" /\ progress' \notin PastGate
      BY <2>3, <3>1 DEF Advances
    <3> QED BY <3>1, <3>2, <3>3
  <2> QED BY <1>1, <1>4, <2>3, PreflightStep
<1>5. CASE Merge
  BY <1>1, <1>5 DEF Merge, Passes
<1>6. ASSUME NEW w \in wanted, Hydrate(w) PROVE Gate'
  BY <1>1, <1>6 DEF Hydrate, Passes
<1>7. CASE Derive
  BY <1>1, <1>7, DeriveStep DEF Passes
<1>8. ASSUME NEW b \in builds, SkipBuild(b) \/ BuildEngine(b) PROVE Gate'
  BY <1>1, <1>8 DEF SkipBuild, BuildEngine, Passes
<1>9. CASE EndHydration
  BY <1>9 DEF EndHydration, Passes
<1>10. CASE HydrationFails \/ EndGeneration
  BY <1>1, <1>10 DEF HydrationFails, EndGeneration
<1>11. CASE Validate
  <2>1. CASE Advances("publish")
    BY <1>11, <2>1, ValidateStep DEF Advances, Passes
  <2> QED BY <1>1, <1>11, <2>1, ValidateStep
<1>12. CASE Publish
  BY <1>12 DEF Publish, Passes
<1>13. CASE Edit
  <2>1. edits \in Nat /\ edits' = edits + 1 /\ files' # files
    BY <1>13, DeclarationAssumption DEF Edit, GenerateTypeOK
  <2>2. UNCHANGED <<touched, progress, index, parsed>> /\ edits' # 0
    BY <1>13, <2>1 DEF Edit
  <2>3. CASE progress = "idle"
    BY <2>2, <2>3
  <2>4. CASE progress # "idle"
    <3>1. edits' <= 1 => edits <= 1 /\ parsed = files
      BY <2>1, <2>4
    <3>2. ASSUME NEW i, parsed = files, Passes(i) PROVE Passes(i)'
      BY <2>2, <3>2 DEF Passes
    <3> QED BY <2>2, <3>1, <3>2
  <2> QED BY <2>3, <2>4
<1>14. CASE UNCHANGED generateVars
  BY <1>14 DEF generateVars, Passes
<1> QED BY <1>2, <1>3, <1>4, <1>5, <1>6, <1>7, <1>8, <1>9, <1>10, <1>11, <1>12, <1>13, <1>14
       DEF GenerateNext

(* As many values as arguments: an injective function has.                 *)
LEMMA InjectiveRange ==
  ASSUME NEW S, IsFiniteSet(S), NEW F, F = [x \in S |-> F[x]], \A x,
         y \in S : F[x] = F[y] => x = y
  PROVE  IsFiniteSet(Range(F)) /\ Cardinality(Range(F)) = Cardinality(S)
<1>1. F \in [S -> Range(F)] /\ DOMAIN F = S
  BY DEF Range
<1>2. F \in Injection(S, Range(F))
  BY <1>1 DEF Injection, IsInjective
<1>3. F \in Surjection(S, Range(F))
  BY <1>1 DEF Surjection, Range
<1>4. ExistsBijection(S, Range(F))
  BY <1>2, <1>3 DEF ExistsBijection, Bijection
<1> QED BY <1>4, FS_Bijection

LEMMA FiniteRange ==
  ASSUME NEW S, IsFiniteSet(S), NEW F, F = [x \in S |-> F[x]] PROVE IsFiniteSet(Range(F))
<1>1. F \in Surjection(S, Range(F))
  BY DEF Surjection, Range
<1> QED BY <1>1, FS_Surjection

LEMMA LenIsCardinality ==
  ASSUME NEW n \in Nat PROVE IsFiniteSet(1..n) /\ Cardinality(1..n) = n
  BY FS_Interval

(* The distinct elements of a sequence, by what F makes of the element at  *)
(* each place.                                                             *)
LEMMA DistinctCount ==
  ASSUME NEW s, s \in Seq(Range(s)), NEW F, F = [i \in DOMAIN s |-> F[i]],
         \A i, j \in DOMAIN s : F[i] = F[j] => i = j
  PROVE  IsFiniteSet(Range(F)) /\ Cardinality(Range(F)) = Len(s)
<1>1. DOMAIN s = 1..Len(s) /\ Len(s) \in Nat
  OBVIOUS
<1>2. IsFiniteSet(DOMAIN s) /\ Cardinality(DOMAIN s) = Len(s)
  BY <1>1, LenIsCardinality
<1> QED BY <1>2, InjectiveRange

(* The pure gates of the validator, together, make a declaration sound.    *)
LEMMA SeparateIsSound ==
  ASSUME NEW d \in DeclaredDeployments, SeparateRoots(d)
  PROVE  /\ Cardinality({d.roots["engine"]} \cup {x.root : x \in Range(d.extra)}) = 1 + Len(d.extra)
         /\ {d.roots["target"], d.roots["platform"]}
              \cap ({d.roots["engine"]} \cup {x.root : x \in Range(d.extra)}) = {}
<1> DEFINE F == [i \in DOMAIN d.extra |-> d.extra[i].root]
           R == {x.root : x \in Range(d.extra)}
<1>1. Range(F) = R
  BY DEF Range
<1>2. d.extra \in Seq(Range(d.extra)) /\ DOMAIN d.roots = Roles
  BY DeclarationAssumption
<1>3. \A i, j \in DOMAIN d.extra : F[i] = F[j] => i = j
  BY DEF SeparateRoots, DistinctBy
<1>4. IsFiniteSet(R) /\ Cardinality(R) = Len(d.extra)
  <2>1. F = [i \in DOMAIN d.extra |-> F[i]]
    OBVIOUS
  <2>2. IsFiniteSet(Range(F)) /\ Cardinality(Range(F)) = Len(d.extra)
    <3> HIDE DEF F
    <3> QED BY <1>2, <1>3, <2>1, DistinctCount
  <2> QED BY <1>1, <2>2
<1>5. \A r \in Roles : d.roots[r] \notin R
  BY <1>2 DEF SeparateRoots, Range
<1>6. Cardinality(R \cup {d.roots["engine"]}) = Cardinality(R) + 1
  BY <1>4, <1>5, FS_AddElement DEF Roles
<1>7. Len(d.extra) \in Nat
  BY <1>2
<1>8. R \cup {d.roots["engine"]} = {d.roots["engine"]} \cup R
  OBVIOUS
<1>9. Cardinality({d.roots["engine"]} \cup R) = 1 + Len(d.extra)
  <2>1. Cardinality({d.roots["engine"]} \cup R) = Cardinality(R \cup {d.roots["engine"]})
    BY <1>8, Zenon
  <2> QED BY <1>4, <1>6, <1>7, <2>1
<1>10. {d.roots["target"], d.roots["platform"]} \cap ({d.roots["engine"]} \cup R) = {}
  BY <1>5 DEF SeparateRoots, Roles
<1> QED BY <1>9, <1>10

LEMMA PackagesAreSound ==
  ASSUME NEW d \in DeclaredDeployments, PackagesAccepted(d)
  PROVE  Cardinality(Range(Composed(d))) = Cardinality(DOMAIN Composed(d))
<1>1. /\ d.extra \in Seq(Range(d.extra)) /\ d.packages \in Seq(Range(d.packages))
      /\ \A i \in DOMAIN d.extra : d.extra[i].packages \in Seq(Range(d.extra[i].packages))
  BY DeclarationAssumption DEF Range
<1>2. IsFiniteSet(DOMAIN d.packages) /\ IsFiniteSet(DOMAIN d.extra)
  BY <1>1, LenIsCardinality
<1>3. \A i \in DOMAIN d.extra : IsFiniteSet(DOMAIN d.extra[i].packages)
  BY <1>1, LenIsCardinality
<1> DEFINE P == [i \in DOMAIN d.extra |-> {i} \X DOMAIN d.extra[i].packages]
<1>4. IsFiniteSet({0} \X DOMAIN d.packages)
  BY <1>2, FS_Singleton, FS_Product
<1>5. IsFiniteSet(Range(P))
  BY <1>2, FiniteRange
<1>6. ASSUME NEW i \in DOMAIN d.extra PROVE IsFiniteSet(P[i])
  <2>1. IsFiniteSet({i}) /\ IsFiniteSet(DOMAIN d.extra[i].packages)
    BY <1>3, FS_Singleton
  <2> QED BY <2>1, FS_Product
<1>7. IsFiniteSet(UNION Range(P))
  <2>1. \A e \in Range(P) : IsFiniteSet(e)
    BY <1>6 DEF Range
  <2> QED BY <1>5, <2>1, FS_UNION
<1>8. IsFiniteSet(DOMAIN Composed(d))
  <2>1. Range(P) = {{i} \X DOMAIN d.extra[i].packages : i \in DOMAIN d.extra}
    BY DEF Range
  <2>2. DOMAIN Composed(d) = ({0} \X DOMAIN d.packages) \cup UNION Range(P)
    BY <2>1 DEF Composed
  <2>3. IsFiniteSet(({0} \X DOMAIN d.packages) \cup UNION Range(P))
    BY <1>4, <1>7, FS_Union
  <2> QED BY <2>2, <2>3, Zenon
<1>9. \A a, b \in DOMAIN Composed(d) : Composed(d)[a] = Composed(d)[b] => a = b
  BY DEF PackagesAccepted, Distinct
<1>10. Composed(d) = [a \in DOMAIN Composed(d) |-> Composed(d)[a]]
  BY DEF Composed
<1> QED BY <1>8, <1>9, <1>10, InjectiveRange

LEMMA RosterIsSound ==
  ASSUME NEW d \in DeclaredDeployments, RosterAccepted(d), ActorAccepted(d)
  PROVE  Cardinality({DomainA(l) : l \in Range(d.roster) \cup {Bot}}) = Len(d.roster)
<1>1. d.roster \in Seq(Logins) /\ Bot \in Logins
  BY DeclarationAssumption
<1>2. PICK l \in Range(d.roster) : DomainB(l) = DomainB(Bot)
  BY DEF ActorAccepted
<1>3. l \in Logins
  BY <1>1, <1>2 DEF Range
<1>4. \A k \in Logins : DomainB(k).name = k.name
  BY DEF DomainB, Logins
<1>5. DomainA(l) = DomainA(Bot)
  BY <1>1, <1>2, <1>3, <1>4 DEF DomainA
<1> DEFINE F == [i \in DOMAIN d.roster |-> DomainA(d.roster[i])]
<1>6. Range(F) = {DomainA(k) : k \in Range(d.roster) \cup {Bot}}
  BY <1>2, <1>5 DEF Range
<1>7. \A i, j \in DOMAIN d.roster : F[i] = F[j] => i = j
  BY DEF RosterAccepted, DistinctBy
<1>8. Cardinality(Range(F)) = Len(d.roster)
  <2> HIDE DEF F
  <2>1. F = [i \in DOMAIN d.roster |-> F[i]]
    BY DEF F
  <2>2. d.roster \in Seq(Range(d.roster))
    BY <1>1 DEF Range
  <2> QED BY <1>7, <2>1, <2>2, DistinctCount
<1> QED BY <1>6, <1>8

LEMMA BindingsAreSound ==
  ASSUME NEW f \in DeclaredFiles, NEW d \in DeclaredDeployments, NEW at,
         BindingsAccepted(f, d), ExecutablesFound(f, d, at), ProvidersAccepted(f)
  PROVE  /\ Cardinality({d.bindings[a] : a \in Fields}) = 4
         /\ \A a \in Fields : \E p \in Range(f.providers) : p.id = d.bindings[a]
              /\ (p.lock \in Range(d.sources) \/ (p.entry \in DOMAIN Published /\ Published[p.entry] = p.kind))
<1>1. Cardinality({d.bindings[a] : a \in Fields}) = 4
  <2> DEFINE F == [a \in Fields |-> d.bindings[a]]
  <2>1. Range(F) = {d.bindings[a] : a \in Fields}
    BY DEF Range
  <2>2. IsFiniteSet(Fields) /\ Cardinality(Fields) = 4
    <3>1. IsFiniteSet({"credential"}) /\ Cardinality({"credential"}) = 1
      BY FS_Singleton
    <3>2. IsFiniteSet({"credential"} \cup {"engine"}) /\ Cardinality({"credential"} \cup {"engine"}) = 2
      BY <3>1, FS_AddElement
    <3>3. /\ IsFiniteSet(({"credential"} \cup {"engine"}) \cup {"durable"})
          /\ Cardinality(({"credential"} \cup {"engine"}) \cup {"durable"}) = 3
      BY <3>2, FS_AddElement
    <3>4. /\ IsFiniteSet((({"credential"} \cup {"engine"}) \cup {"durable"}) \cup {"control"})
          /\ Cardinality((({"credential"} \cup {"engine"}) \cup {"durable"}) \cup {"control"}) = 4
      BY <3>3, FS_AddElement
    <3>5. Fields = (({"credential"} \cup {"engine"}) \cup {"durable"}) \cup {"control"}
      BY DEF Fields
    <3> QED BY <3>4, <3>5
  <2>3. \A a, b \in Fields : F[a] = F[b] => a = b
    BY DEF BindingsAccepted
  <2>4. Cardinality(Range(F)) = Cardinality(Fields)
    <3> HIDE DEF F
    <3>1. F = [a \in Fields |-> F[a]]
      BY DEF F
    <3> QED BY <2>2, <2>3, <3>1, InjectiveRange
  <2> QED BY <2>1, <2>2, <2>4
<1>2. ASSUME NEW a \in Fields
      PROVE  \E p \in Range(f.providers) : p.id = d.bindings[a]
              /\ (p.lock \in Range(d.sources) \/ (p.entry \in DOMAIN Published /\ Published[p.entry] = p.kind))
  <2> DEFINE p == Provider(f, d.bindings[a])
  <2>1. p \in Range(f.providers) /\ p.id = d.bindings[a]
    BY DEF BindingsAccepted, Provider
  <2>2. /\ Cardinality(RootsOf(d, p.lock)) = 1
        /\ \A r \in RootsOf(d, p.lock) : p.entry \in Contents(at, r) /\ (r = Mechanism => Published[p.entry] = p.kind)
    BY DEF ExecutablesFound
  <2>3. PICK r : r \in RootsOf(d, p.lock)
    <3>1. RootsOf(d, p.lock) # {}
      BY <2>2, FS_EmptySet
    <3> QED BY <3>1
  <2>4. CASE Entry(p.lock).role = "mechanism"
    <3>1. r = Mechanism
      BY <2>3, <2>4 DEF RootsOf
    <3>2. p.entry \in DOMAIN Published /\ Published[p.entry] = p.kind
      BY <2>2, <2>3, <3>1 DEF Contents
    <3> QED BY <2>1, <3>2
  <2>5. CASE Entry(p.lock).role # "mechanism"
    <3>1. \E role \in Roles : d.sources[role] = p.lock
      BY <2>3, <2>5 DEF RootsOf
    <3>2. p.lock \in Range(d.sources)
      BY <3>1, DeclarationAssumption DEF Range
    <3> QED BY <2>1, <3>2
  <2> QED BY <2>4, <2>5
<1> QED BY <1>1, <1>2

LEMMA AcceptedIsSound ==
  ASSUME NEW f \in DeclaredFiles, NEW profile, NEW at, ValuesAccepted(f, profile),
         PathsAccepted(f, at)
  PROVE  Sound(f)
<1>1. \A d \in Range(f.deployments) : d \in DeclaredDeployments
  BY DEF DeclaredDeployments
<1>2. ASSUME NEW d \in Range(f.deployments)
      PROVE  /\ RosterAccepted(d) /\ ActorAccepted(d) /\ PackagesAccepted(d)
             /\ BindingsAccepted(f, d)
             /\ SeparateRoots(d) /\ ExecutablesFound(f, d, at) /\ ProvidersAccepted(f)
  BY DEF ValuesAccepted, PathsAccepted
<1>3. f.deployments \in Seq(Range(f.deployments))
  BY DeclarationAssumption
<1>4. Cardinality({d.id : d \in Range(f.deployments)}) = Len(f.deployments)
  <2> DEFINE F == [i \in DOMAIN f.deployments |-> f.deployments[i].id]
  <2>1. Range(F) = {d.id : d \in Range(f.deployments)}
    BY DEF Range
  <2>2. \A i, j \in DOMAIN f.deployments : F[i] = F[j] => i = j
    BY DEF ValuesAccepted, DistinctBy
  <2>3. F = [i \in DOMAIN f.deployments |-> F[i]]
    OBVIOUS
  <2> HIDE DEF F
  <2> QED BY <1>3, <2>1, <2>2, <2>3, DistinctCount
<1>5. Cardinality({d.target : d \in Range(f.deployments)}) = Len(f.deployments)
  <2> DEFINE F == [i \in DOMAIN f.deployments |-> f.deployments[i].target]
  <2>1. Range(F) = {d.target : d \in Range(f.deployments)}
    BY DEF Range
  <2>2. \A i, j \in DOMAIN f.deployments : F[i] = F[j] => i = j
    BY DEF ValuesAccepted, DistinctBy
  <2>3. F = [i \in DOMAIN f.deployments |-> F[i]]
    OBVIOUS
  <2> HIDE DEF F
  <2> QED BY <1>3, <2>1, <2>2, <2>3, DistinctCount
<1> QED BY ZenonT(30), <1>1, <1>2, <1>4, <1>5, SeparateIsSound, PackagesAreSound, RosterIsSound,
           BindingsAreSound DEF Sound

(* Unless a second edit may have undone the first, what was hashed and is  *)
(* still there has been validated as far as the generation has come.       *)
AllSound == \A i \in DOMAIN files : Sound(files[i])
Soundness ==
  edits <= 1 =>
    /\ progress = "validate" /\ manifest = files => \A i \in 1..(index - 1) : Sound(files[i])
    /\ progress \in {"publish", "published"} /\ manifest = files => AllSound
    /\ published = files => AllSound
    /\ edits = 0 => manifest \in {<< >>, files} /\ published \in {<< >>, files}

LEMMA SoundnessStep ==
  GenerateTypeOK /\ Placed /\ Soundness /\ [GenerateNext]_generateVars => Soundness'
<1> SUFFICES ASSUME GenerateTypeOK, Placed, Soundness, [GenerateNext]_generateVars
    PROVE  Soundness'
  OBVIOUS
<1> USE DEF Soundness, AllSound, ProgressIs, ProgressTo
<1>1. ASSUME Refuse, UNCHANGED <<files, published, edits>> PROVE Soundness'
  <2>1. files # << >>
    BY InputShape DEF GenerateTypeOK
  <2> QED BY <1>1, <2>1 DEF Refuse
<1>2. CASE Load
  BY <1>2 DEF Load
<1>3. CASE HashInputs
  BY <1>3 DEF HashInputs
<1>4. CASE Preflight
  BY <1>1, <1>4, PreflightStep DEF Advances
<1>5. CASE Merge
  BY <1>1, <1>5 DEF Merge
<1>6. ASSUME NEW w \in wanted, Hydrate(w) PROVE Soundness'
  BY <1>1, <1>6 DEF Hydrate
<1>7. CASE Derive
  BY <1>1, <1>7, DeriveStep
<1>13. ASSUME NEW b \in builds, SkipBuild(b) \/ BuildEngine(b) PROVE Soundness'
  BY <1>1, <1>13 DEF SkipBuild, BuildEngine
<1>14. CASE EndHydration
  BY <1>14 DEF EndHydration
<1>8. CASE HydrationFails \/ EndGeneration
  BY <1>1, <1>8 DEF HydrationFails, EndGeneration
<1>9. CASE Validate
  <2>1. index \in 1..Len(parsed) /\ parsed \in Inputs /\ Len(parsed) = Len(files) /\ DOMAIN files = 1..Len(files)
    BY <1>9, ValidateStep, InputShape DEF Placed, GenerateTypeOK
  <2>2. Len(parsed) \in Nat
    BY <2>1, InputShape
  <2>3. CASE Refuse
    BY <1>1, <1>9, <2>3, ValidateStep
  <2>4. CASE /\ ValuesAccepted(files[index], Profile(parsed)) /\ PathsAccepted(files[index], root)
             /\ Advances("publish")
    <3>1. /\ files' = files /\ edits' = edits /\ published' = published /\ manifest' = manifest
          /\ progress = "validate"
      BY <1>9, <2>4, ValidateStep DEF Advances
    <3>2. Sound(files[index])
      <4>1. files[index] \in DeclaredFiles
        BY <2>1, InputShape DEF GenerateTypeOK, Range
      <4> QED BY <2>4, <4>1, AcceptedIsSound
    <3>3. ASSUME edits <= 1, manifest = files PROVE \A i \in 1..index : Sound(files[i])
      <4>1. \A i \in 1..(index - 1) : Sound(files[i])
        BY <3>1, <3>3
      <4>2. \A i \in 1..index : i = index \/ i \in 1..(index - 1)
        BY <2>1, <2>2
      <4> QED BY <3>2, <4>1, <4>2
    <3>4. CASE index = Len(parsed) /\ progress' = "publish" /\ index' = 0
      BY <2>1, <3>1, <3>3, <3>4
    <3>5. CASE index' = index + 1 /\ progress' = progress
      <4>1. index' - 1 = index
        BY <2>1, <2>2, <3>5
      <4> QED BY <3>1, <3>3, <3>5, <4>1
    <3> QED BY <2>4, <3>4, <3>5 DEF Advances
  <2> QED BY <1>9, <2>3, <2>4, ValidateStep
<1>10. CASE Publish
  BY <1>10 DEF Publish
<1>11. CASE Edit
  <2>1. edits \in Nat /\ edits' = edits + 1 /\ files' # files /\ files' \in Inputs
    BY <1>11, DeclarationAssumption DEF Edit, GenerateTypeOK
  <2>2. files' # << >>
    BY <2>1, InputShape
  <2>3. CASE edits' <= 1
    <3>1. edits = 0 /\ edits' # 0
      BY <2>1, <2>3
    <3>2. manifest' # files' /\ published' # files'
      BY <1>11, <2>1, <2>2, <3>1 DEF Edit
    <3> QED BY <3>1, <3>2
  <2> QED BY <2>3
<1>12. CASE UNCHANGED generateVars
  BY <1>12 DEF generateVars
<1> QED BY <1>2, <1>3, <1>4, <1>5, <1>6, <1>7, <1>8, <1>9, <1>10, <1>11, <1>12, <1>13, <1>14
       DEF GenerateNext

GenerateInv == GenerateTypeOK /\ Placed /\ Hydration /\ Gate /\ Soundness

LEMMA GenerateInvInit == GenerateInit => GenerateInv
<1> SUFFICES ASSUME GenerateInit PROVE GenerateInv
  OBVIOUS
<1>1. GenerateTypeOK /\ Placed
  BY GenerateTypeInit
<1>2. Hydration /\ Gate
  BY DEF GenerateInit, Hydration, Gate
<1>3. files # << >>
  BY InputShape DEF GenerateInit
<1>4. Soundness
  BY <1>3 DEF GenerateInit, Soundness
<1> QED BY <1>1, <1>2, <1>4 DEF GenerateInv

(* In every behaviour of generate, whatever is edited between its reads    *)
(* and whichever hydration fails, what was parsed, hashed, hydrated and    *)
(* validated fits together.                                                *)
THEOREM GenerateInvariantHolds == GenerateSpec => []GenerateInv
<1>1. GenerateInv /\ [GenerateNext]_generateVars => GenerateInv'
  BY GenerateTypeStep, PlacedStep, HydrationStep, GateStep, SoundnessStep DEF GenerateInv
<1> QED BY <1>1, GenerateInvInit, PTL DEF GenerateSpec

(* Every variable of generate stays in its domain.                         *)
THEOREM GenerateTypeCorrect == GenerateSpec => []GenerateTypeOK
<1>1. GenerateInv => GenerateTypeOK
  BY DEF GenerateInv
<1> QED BY <1>1, GenerateInvariantHolds, PTL

(* hydrate: a generation that succeeds leaves at every target, platform    *)
(* and package source what each declaration it parsed wants there, though  *)
(* the engines are checked out afterwards; which revision the checkout of  *)
(* an engine is at, it does not promise.                                   *)
THEOREM BindingsServedHolds == GenerateSpec => []BindingsServed
<1>1. GenerateInv => BindingsServed
  BY DEF GenerateInv, Hydration, Served, BindingsServed, ProgressIs
<1> QED BY <1>1, GenerateInvariantHolds, PTL

(* generate: no root is changed before every declaration file passed the   *)
(* gate that needs no file system, as it was parsed or as it is, whenever  *)
(* the one edit is made.                                                   *)
THEOREM GateFirstHolds == GenerateSpec => []GateFirst
<1>1. GenerateInv => GateFirst
  BY DEF GenerateInv, Gate, PastGate, Passes, GateFirst, GenerateTypeOK
<1> QED BY <1>1, GenerateInvariantHolds, PTL

(* generate: a published manifest that is not stale is of declarations     *)
(* that are sound, if no second edit undid the first.                      *)
THEOREM PublishedIsSoundHolds == GenerateSpec => []PublishedIsSound
<1>1. GenerateInv => PublishedIsSound
  BY DEF GenerateInv, Soundness, AllSound, PublishedIsSound
<1> QED BY <1>1, GenerateInvariantHolds, PTL

-----------------------------------------------------------------------------
(* Board: providers/board_engine_durable.py.                               *)

LEMMA ObservationShape ==
  ASSUME NEW o \in Observations, NEW e \in o.entities
  PROVE  /\ DOMAIN e.events = 1..Len(e.events) /\ Len(e.events) \in Nat \ {0}
         /\ \A i \in DOMAIN e.events :
              /\ e.events[i].class \in {"safety-violation", "terminal", "transient", "progress"}
              /\ e.events[i].at \in Nat
         /\ e.ended \in BOOLEAN
  BY BoardAssumption

(* Among the events of an entity there are latest ones, one of them first. *)
LEMMA LatestExists ==
  ASSUME NEW o \in Observations, NEW e \in o.entities
  PROVE  \E i \in DOMAIN e.events : \A j \in DOMAIN e.events :
           e.events[j].at <= e.events[i].at /\ (j < i => e.events[j].at < e.events[i].at)
<1> DEFINE D == DOMAIN e.events
           At(i) == e.events[i].at
           Later(i) == {j \in D : At(j) > At(i)}
           T == {Later(i) : i \in D}
<1>1. /\ D = 1..Len(e.events) /\ Len(e.events) \in Nat \ {0} /\ IsFiniteSet(D)
      /\ \A i \in D : At(i) \in Nat
  BY ObservationShape, LenIsCardinality
<1> HIDE DEF D, At
<1>2. T \subseteq FiniteSubsetsOf(D) /\ T # {}
  <2>1. \A i \in D : Later(i) \subseteq D
    OBVIOUS
  <2>2. \A i \in D : IsFiniteSet(Later(i))
    BY <1>1, <2>1, FS_Subset
  <2>3. 1 \in D
    BY <1>1
  <2> QED BY <2>1, <2>2, <2>3 DEF FiniteSubsetsOf
<1>3. PICK m \in D : \A i \in D : ~(<<Later(i), Later(m)>> \in StrictSubsetOrdering(D))
  <2> HIDE DEF T
  <2>1. PICK X \in T : \A Y \in T : ~(<<Y, X>> \in StrictSubsetOrdering(D))
    BY <1>2, FS_StrictSubsetOrderingWellFounded, WFMin
  <2> QED BY <2>1 DEF T
<1>4. \A j \in D : At(j) <= At(m)
  <2> SUFFICES ASSUME NEW j \in D, ~(At(j) <= At(m)) PROVE FALSE
    OBVIOUS
  <2>1. Later(j) \subseteq Later(m) /\ j \in Later(m) /\ j \notin Later(j)
    BY <1>1
  <2>2. <<Later(j), Later(m)>> \in StrictSubsetOrdering(D)
    BY <2>1 DEF StrictSubsetOrdering
  <2> QED BY <1>3, <2>2
<1> DEFINE Greatest == {i \in D : \A j \in D : At(j) <= At(i)}
<1>5. PICK i \in Greatest : \A j \in Greatest : ~(j < i)
  <2>1. Greatest \subseteq Nat /\ Greatest # {}
    BY <1>1, <1>4
  <2>2. PICK i \in Greatest : \A j \in Greatest : ~(<<j, i>> \in OpToRel(<, Nat))
    <3> HIDE DEF Greatest
    <3> QED BY <2>1, NatLessThanWellFounded, WFMin
  <2> QED BY <2>1, <2>2 DEF OpToRel
<1>6. \A j \in D : At(j) <= At(i) /\ (j < i => At(j) < At(i))
  <2> SUFFICES ASSUME NEW j \in D, j < i, ~(At(j) < At(i)) PROVE FALSE
    BY <1>5
  <2>1. \A k \in D : At(k) <= At(j)
    BY <1>1, <1>5
  <2> QED BY <1>5, <2>1
<1> QED BY <1>5, <1>6 DEF D, At

(* An observation without anomalies is quiet.                              *)
LEMMA QuietWithoutAnomalies ==
  ASSUME NEW o \in Observations, NEW when \in Nat, ~Anomalies(o, when)
  PROVE  Quiet(o, when)
<1>1. ASSUME NEW e \in o.entities
      PROVE  \E i \in DOMAIN e.events :
               /\ \A j \in DOMAIN e.events : e.events[j].at <= e.events[i].at
               /\ e.events[i].class \notin {"safety-violation", "terminal"}
               /\ e.ended \/ e.events[i].class = "transient" \/ when <= e.events[i].at + Stall
  <2> DEFINE i == CHOOSE i \in DOMAIN e.events : \A j \in DOMAIN e.events :
                    e.events[j].at <= e.events[i].at /\ (j < i => e.events[j].at < e.events[i].at)
  <2>1. /\ i \in DOMAIN e.events
        /\ \A j \in DOMAIN e.events : e.events[j].at <= e.events[i].at
    BY LatestExists
  <2>2. Latest(e) = e.events[i]
    BY DEF Latest
  <2> HIDE DEF i
  <2>3. ~EntityAnomaly(e, when)
    BY DEF Anomalies
  <2>4. /\ e.events[i].class \in {"safety-violation", "terminal", "transient", "progress"}
        /\ e.events[i].at \in Nat /\ e.ended \in BOOLEAN /\ Stall \in Nat
    BY <2>1, ObservationShape, BoardAssumption
  <2> QED BY <2>1, <2>2, <2>3, <2>4 DEF EntityAnomaly
<1>2. ASSUME NEW i \in DOMAIN o.facts, NEW j \in DOMAIN o.facts,
             o.facts[i].cron, o.facts[j].cron, o.facts[i].dept = o.facts[j].dept
      PROVE  i = j
  <2>1. Stalls(o) = {}
    BY DEF Anomalies
  <2>2. o.facts[i].dept \in {f.dept : f \in Range(o.facts)}
    BY DEF Range
  <2> QED BY <1>2, <2>1, <2>2 DEF Stalls
<1>3. \A q \in Suppressed(o) : \E j \in DOMAIN o.facts : o.facts[j].cron /\ o.facts[j].queue = q
  BY DEF Suppressed, Range
<1>4. ASSUME NEW i \in DOMAIN o.facts, o.facts[i].class = "terminal"
      PROVE  o.facts[i].queue \in Suppressed(o)
  <2>1. o.facts[i] \in Range(o.facts) /\ Failures(o) = {}
    BY DEF Anomalies, Range
  <2> QED BY <1>4, <2>1 DEF Failures
<1>5. o.dead \subseteq Suppressed(o)
  BY DEF Anomalies, DeadLetters
<1> QED BY <1>1, <1>2, <1>3, <1>4, <1>5 DEF Quiet

LEMMA BoardTypeInit == BoardInit => BoardTypeOK
  BY BoardAssumption DEF BoardInit, BoardTypeOK

(* A run that writes or judges has an observation, of which it may say that*)
(* the engine told it no earlier than the run takes it to be.              *)
Informed == {"open", "write", "replace", "judge"}
ToldSince(o, t) == \E u \in t..time : o \in told[u]
RunsInformed ==
  \A r \in Runs :
    /\ began[r] <= time
    /\ state[r] \in {"cache", "observe"} => takenAt[r] = began[r]
    /\ state[r] \in Informed =>
         /\ data[r] \in Observations /\ ToldSince(data[r], takenAt[r])
         /\ began[r] - CacheTTL <= takenAt[r]
(* The same of what is cached, and of what may be.                         *)
CacheInformed == \A c \in {cache, temp} : c \notin {None, Torn} => ToldSince(c.observe, c.at)
EngineTold == engine \in told[time]

LEMMA BoardTypeStep ==
  BoardTypeOK /\ RunsInformed /\ [BoardNext]_boardVars => BoardTypeOK'
<1> SUFFICES ASSUME BoardTypeOK, RunsInformed, [BoardNext]_boardVars PROVE BoardTypeOK'
  OBVIOUS
<1> USE DEF BoardTypeOK, StateIs, StateTo, cacheFiles, run
<1>1. ASSUME NEW r \in Runs, BeginRun(r) PROVE BoardTypeOK'
  <2>1. state' \in [Runs -> {"idle", "cache", "observe", "open", "write", "replace", "judge"}]
    BY <1>1 DEF BeginRun
  <2> QED BY <1>1, <2>1 DEF BeginRun
<1>2. ASSUME NEW r \in Runs, ReadCache(r) PROVE BoardTypeOK'
  <2>1. CASE Usable(r)
    <3>1. cache \in Cached
      BY <2>1 DEF Usable
    <3>2. cache.observe \in Observations /\ cache.at \in 0..MaxTime
      BY <3>1 DEF Cached
    <3> QED BY <1>2, <2>1, <3>2 DEF ReadCache
  <2>2. CASE ~Usable(r)
    BY <1>2, <2>2 DEF ReadCache
  <2> QED BY <2>1, <2>2
<1>3. ASSUME NEW r \in Runs, Fail(r), UNCHANGED <<engine, time, news, cacheFiles, began, told>>
      PROVE  BoardTypeOK'
  <2>1. 0 \in 0..MaxTime
    BY BoardAssumption
  <2> QED BY <1>3, <2>1 DEF Fail
<1>4. ASSUME NEW r \in Runs, Observe(r) PROVE BoardTypeOK'
  <2>1. CASE Fail(r)
    BY <1>3, <1>4, <2>1 DEF Observe
  <2>2. CASE ~Fail(r)
    BY <1>4, <2>2 DEF Observe
  <2> QED BY <2>1, <2>2
<1>5. ASSUME NEW r \in Runs, OpenTemp(r) PROVE BoardTypeOK'
  BY <1>5 DEF OpenTemp
<1>6. ASSUME NEW r \in Runs, WriteTemp(r) PROVE BoardTypeOK'
  <2>1. \A file \in Cached \cup {None, Torn} : Into(file, r) \in Cached \cup {None, Torn, Envelope(r)}
    BY DEF Into
  <2>2. Envelope(r) \in Cached
    BY <1>6 DEF WriteTemp, RunsInformed, Informed, Envelope, Cached
  <2> QED BY <1>6, <2>1, <2>2 DEF WriteTemp
<1>7. ASSUME NEW r \in Runs, Replace(r) PROVE BoardTypeOK'
  <2>1. CASE Fail(r)
    BY <1>3, <1>7, <2>1 DEF Replace
  <2>2. CASE ~Fail(r)
    BY <1>7, <2>2 DEF Replace
  <2> QED BY <2>1, <2>2
<1>8. ASSUME NEW r \in Runs, JudgeRun(r) PROVE BoardTypeOK'
  <2>1. 0 \in 0..MaxTime
    BY BoardAssumption
  <2> QED BY <1>8, <2>1 DEF JudgeRun
<1>9. ASSUME NEW r \in Runs, RunDies(r) PROVE BoardTypeOK'
  BY <1>3, <1>9 DEF RunDies
<1>10. CASE TimePasses
  <2>1. time' \in 0..MaxTime
    BY <1>10, BoardAssumption DEF TimePasses
  <2> QED BY <1>10, <2>1 DEF TimePasses
<1>11. CASE News
  <2>1. news' \in 0..MaxNews
    BY <1>11, BoardAssumption DEF News
  <2> QED BY <1>11, <2>1 DEF News
<1>12. CASE UNCHANGED boardVars
  BY <1>12 DEF boardVars
<1> QED BY <1>1, <1>2, <1>4, <1>5, <1>6, <1>7, <1>8, <1>9, <1>10, <1>11, <1>12 DEF BoardNext

LEMMA EngineToldStep ==
  BoardTypeOK /\ EngineTold /\ [BoardNext]_boardVars => EngineTold'
<1> SUFFICES ASSUME BoardTypeOK, EngineTold, [BoardNext]_boardVars PROVE EngineTold'
  OBVIOUS
<1>1. CASE TimePasses
  BY <1>1, BoardAssumption DEF TimePasses, BoardTypeOK, EngineTold
<1>2. CASE News
  BY <1>2 DEF News, BoardTypeOK, EngineTold
<1>3. CASE ~TimePasses /\ ~News
  BY <1>3 DEF BoardNext, boardVars, EngineTold, BeginRun, ReadCache, Observe, OpenTemp,
       WriteTemp, Replace,
       JudgeRun, RunDies
<1> QED BY <1>1, <1>2, <1>3

(* Time does not go back, and what was told was told.                      *)
LEMMA ToldStays ==
  ASSUME BoardTypeOK, [BoardNext]_boardVars
  PROVE  time <= time' /\ \A u \in 0..time : told[u] \subseteq told'[u]
<1>1. time \in Nat /\ time' \in {time, time + 1}
  BY BoardAssumption DEF BoardTypeOK, BoardNext, boardVars, BeginRun, ReadCache, Observe,
       OpenTemp, WriteTemp,
       Replace, JudgeRun, RunDies, TimePasses, News
<1>2. CASE TimePasses
  BY <1>1, <1>2 DEF TimePasses, BoardTypeOK
<1>3. CASE News
  BY <1>1, <1>3 DEF News, BoardTypeOK
<1>4. CASE ~TimePasses /\ ~News
  <2>1. told' = told
    BY <1>4 DEF BoardNext, boardVars, BeginRun, ReadCache, Observe, OpenTemp, WriteTemp, Replace,
         JudgeRun, RunDies
  <2> QED BY <1>1, <2>1
<1> QED BY <1>2, <1>3, <1>4

LEMMA ToldSinceStays ==
  ASSUME BoardTypeOK, BoardTypeOK', [BoardNext]_boardVars, NEW o, NEW t \in Nat, ToldSince(o, t)
  PROVE  ToldSince(o, t)'
<1>1. PICK u \in t..time : o \in told[u]
  BY DEF ToldSince
<1>2. time \in Nat /\ time' \in Nat
  BY BoardAssumption DEF BoardTypeOK
<1>3. u \in 0..time /\ u \in t..time'
  BY <1>1, <1>2, ToldStays
<1> QED BY <1>1, <1>3, ToldStays DEF ToldSince

(* What a step leaves a run, or the run has seen.                          *)
LEMMA RunsInformedStep ==
  BoardTypeOK /\ BoardTypeOK' /\ EngineTold /\ CacheInformed /\ RunsInformed /\ [BoardNext]_boardVars => RunsInformed'
<1> SUFFICES ASSUME BoardTypeOK, BoardTypeOK', EngineTold, CacheInformed, RunsInformed,
                    [BoardNext]_boardVars,
                    NEW s \in Runs
             PROVE  /\ began'[s] <= time'
                    /\ state'[s] \in {"cache", "observe"} => takenAt'[s] = began'[s]
                    /\ state'[s] \in Informed =>
                         /\ data'[s] \in Observations /\ ToldSince(data[s], takenAt[s])'
                         /\ began'[s] - CacheTTL <= takenAt'[s]
  BY DEF RunsInformed
<1> DEFINE Goal ==
             /\ began'[s] <= time'
             /\ state'[s] \in {"cache", "observe"} => takenAt'[s] = began'[s]
             /\ state'[s] \in Informed =>
                  /\ data'[s] \in Observations /\ ToldSince(data[s], takenAt[s])'
                  /\ began'[s] - CacheTTL <= takenAt'[s]
<1>1. /\ time \in Nat /\ time' \in Nat /\ time <= time' /\ began[s] \in Nat /\ began'[s] \in Nat
      /\ takenAt[s] \in Nat /\ takenAt'[s] \in Nat /\ CacheTTL \in Nat
  BY ToldStays, BoardAssumption DEF BoardTypeOK
<1> USE DEF StateIs, StateTo, cacheFiles, run
(* A run whose own record stays, or only gets ahead among what it may do.  *)
<1>2. ASSUME UNCHANGED <<began[s], data[s], takenAt[s]>>,
             state'[s] = state[s] \/ (state[s] \in Informed /\ state'[s] \in Informed)
               \/ (state[s] = "cache" /\ state'[s] = "observe")
      PROVE  Goal
  <2>1. began'[s] <= time'
    BY <1>1, <1>2 DEF RunsInformed
  <2>2. ASSUME state'[s] \in Informed PROVE state[s] \in Informed
    BY <1>2, <2>2 DEF Informed
  <2>3. ASSUME state[s] \in Informed PROVE ToldSince(data[s], takenAt[s])'
    <3>1. ToldSince(data[s], takenAt[s])
      BY <2>3 DEF RunsInformed
    <3>2. PICK u \in takenAt[s]..time : data[s] \in told[u]
      BY <3>1 DEF ToldSince
    <3>3. u \in 0..time /\ u \in takenAt'[s]..time'
      BY <1>1, <1>2, <3>2
    <3>4. data'[s] \in told'[u]
      BY <1>2, <3>2, <3>3, ToldStays
    <3> QED BY <3>3, <3>4 DEF ToldSince
  <2>4. state'[s] \in {"cache", "observe"} => state[s] \in {"cache", "observe"}
    BY <1>2 DEF Informed
  <2> QED BY <1>2, <2>1, <2>2, <2>3, <2>4 DEF RunsInformed
<1>3. ASSUME NEW r \in Runs, r # s,
             BeginRun(r) \/ ReadCache(r) \/ Observe(r) \/ OpenTemp(r) \/ WriteTemp(r) \/ Replace(r)
               \/ JudgeRun(r) \/ RunDies(r)
      PROVE  UNCHANGED <<began[s], data[s], takenAt[s], state[s]>>
  BY <1>3 DEF BoardTypeOK, BeginRun, ReadCache, Observe, OpenTemp, WriteTemp, Replace, JudgeRun,
       RunDies, Fail
<1>4. CASE BeginRun(s)
  BY <1>1, <1>4 DEF BeginRun, BoardTypeOK, Informed
<1>5. CASE ReadCache(s)
  <2>1. CASE Usable(s)
    <3>1. cache \in Cached /\ cache \notin {None, Torn}
      BY <2>1 DEF Usable, BoardTypeOK
    <3>2. cache.observe \in Observations /\ cache.at \in Nat /\ ToldSince(cache.observe, cache.at)
      BY <3>1, BoardAssumption DEF Cached, CacheInformed
    <3>3. data'[s] = cache.observe /\ takenAt'[s] = cache.at /\ state'[s] = "judge" /\ began'[s] = began[s]
      BY <1>5, <2>1 DEF ReadCache, BoardTypeOK
    <3>4. ToldSince(cache.observe, cache.at)' /\ cache' = cache
      BY <1>5, <3>2, ToldStays DEF ReadCache, ToldSince
    <3>5. began[s] - CacheTTL <= cache.at
      BY <1>1, <2>1, <3>2 DEF Usable
    <3>6. began'[s] <= time'
      BY <1>1, <3>3 DEF RunsInformed
    <3> QED BY <3>2, <3>3, <3>4, <3>5, <3>6 DEF ToldSince
  <2>2. CASE ~Usable(s)
    BY <1>2, <1>5, <2>2 DEF ReadCache, BoardTypeOK
  <2> QED BY <2>1, <2>2
<1>6. CASE Fail(s) /\ UNCHANGED began
  BY <1>1, <1>6 DEF Fail, BoardTypeOK, RunsInformed, Informed
<1>7. CASE Observe(s) /\ ~Fail(s)
  <2>1. /\ data'[s] = engine /\ state'[s] = "open" /\ takenAt'[s] = began[s]
        /\ began'[s] = began[s]
        /\ engine \in Observations /\ time' = time /\ told' = told
    BY <1>7 DEF Observe, BoardTypeOK, RunsInformed
  <2>2. began[s] <= time /\ time \in began[s]..time
    BY <1>1 DEF RunsInformed
  <2>3. ToldSince(data[s], takenAt[s])'
    BY <2>1, <2>2 DEF ToldSince, EngineTold
  <2> QED BY <1>1, <2>1, <2>2, <2>3
<1>8. CASE OpenTemp(s) \/ WriteTemp(s) \/ (Replace(s) /\ ~Fail(s))
  BY <1>2, <1>8 DEF OpenTemp, WriteTemp, Replace, BoardTypeOK, Informed
<1>9. CASE JudgeRun(s)
  BY <1>1, <1>9 DEF JudgeRun, BoardTypeOK, RunsInformed, Informed
<1>10. CASE TimePasses \/ News \/ UNCHANGED boardVars
  BY <1>2, <1>10 DEF TimePasses, News, boardVars
<1>11. Goal
  BY <1>2, <1>3, <1>4, <1>5, <1>6, <1>7, <1>8, <1>9, <1>10 DEF BoardNext, Observe, Replace,
       RunDies
<1> QED BY <1>11

LEMMA CacheInformedStep ==
  BoardTypeOK /\ BoardTypeOK' /\ RunsInformed /\ CacheInformed /\ [BoardNext]_boardVars => CacheInformed'
<1> SUFFICES ASSUME BoardTypeOK, BoardTypeOK', RunsInformed, CacheInformed, [BoardNext]_boardVars,
                    NEW c \in {cache', temp'}, c \notin {None, Torn}
             PROVE  ToldSince(c.observe, c.at)'
  BY DEF CacheInformed
<1>1. c \in Cached /\ c.at \in Nat
  BY BoardAssumption DEF BoardTypeOK, Cached
<1>2. CASE c \in {cache, temp}
  <2>1. ToldSince(c.observe, c.at)
    BY <1>2 DEF CacheInformed
  <2>2. PICK u \in c.at..time : c.observe \in told[u]
    BY <2>1 DEF ToldSince
  <2>3. time \in Nat /\ time' \in Nat
    BY BoardAssumption DEF BoardTypeOK
  <2>4. u \in 0..time /\ u \in c.at..time'
    BY <1>1, <2>2, <2>3, ToldStays
  <2> QED BY <1>2, <2>2, <2>4, ToldStays DEF ToldSince
<1>3. CASE c \notin {cache, temp}
  <2>1. PICK r \in Runs : WriteTemp(r) /\ c = Envelope(r)
    BY <1>3 DEF BoardNext, boardVars, BeginRun, ReadCache, Observe, OpenTemp, WriteTemp, Replace,
         JudgeRun, RunDies,
         TimePasses, News, cacheFiles, Into
  <2>2. c.observe = data[r] /\ c.at = takenAt[r]
    BY <2>1 DEF Envelope
  <2>3. ToldSince(data[r], takenAt[r])
    BY <2>1 DEF WriteTemp, StateIs, RunsInformed, Informed
  <2>4. PICK u \in takenAt[r]..time : data[r] \in told[u]
    BY <2>3 DEF ToldSince
  <2>5. time' = time /\ told' = told
    BY <2>1 DEF WriteTemp
  <2> QED BY <2>2, <2>4, <2>5 DEF ToldSince
<1> QED BY <1>2, <1>3

LEMMA HealthyIsQuietStep ==
  BoardTypeOK /\ BoardTypeOK' /\ RunsInformed /\ HealthyIsQuiet /\ [BoardNext]_boardVars => HealthyIsQuiet'
<1> SUFFICES ASSUME BoardTypeOK, BoardTypeOK', RunsInformed, HealthyIsQuiet,
                    [BoardNext]_boardVars,
                    NEW s \in Runs, health'[s] = "HEALTHY"
             PROVE  \E t \in 0..time' : began'[s] - CacheTTL <= t /\ \E o \in told'[t] : Quiet(o, began'[s])
  BY DEF HealthyIsQuiet
<1>1. time \in Nat /\ time' \in Nat /\ began[s] \in Nat /\ takenAt[s] \in Nat /\ CacheTTL \in Nat
  BY BoardAssumption DEF BoardTypeOK
<1>2. CASE health[s] = "HEALTHY" /\ began'[s] = began[s]
  <2>1. PICK t \in 0..time : began[s] - CacheTTL <= t /\ \E o \in told[t] : Quiet(o, began[s])
    BY <1>2 DEF HealthyIsQuiet
  <2>2. t \in 0..time' /\ told[t] \subseteq told'[t]
    BY <1>1, ToldStays
  <2> QED BY <1>2, <2>1, <2>2
<1>3. CASE ~(health[s] = "HEALTHY" /\ began'[s] = began[s])
  <2> USE DEF BoardTypeOK
  <2>1. JudgeRun(s)
    <3>1. ASSUME NEW r \in Runs, BeginRun(r) PROVE FALSE
      BY <1>3, <3>1 DEF BeginRun
    <3>2. ASSUME NEW r \in Runs, ReadCache(r) \/ OpenTemp(r) \/ WriteTemp(r) PROVE FALSE
      BY <1>3, <3>2 DEF ReadCache, OpenTemp, WriteTemp
    <3>3. ASSUME NEW r \in Runs, Fail(r), UNCHANGED began PROVE FALSE
      BY <1>3, <3>3 DEF Fail
    <3>4. ASSUME NEW r \in Runs, Observe(r) \/ Replace(r) \/ RunDies(r) PROVE FALSE
      BY <1>3, <3>3, <3>4 DEF Observe, Replace, RunDies
    <3>5. ~TimePasses /\ ~News /\ ~UNCHANGED boardVars
      BY <1>3 DEF TimePasses, News, boardVars, run
    <3>6. PICK r \in Runs : JudgeRun(r)
      BY <3>1, <3>2, <3>4, <3>5 DEF BoardNext
    <3>7. r = s
      BY <1>3, <3>6 DEF JudgeRun
    <3> QED BY <3>6, <3>7
  <2>2. /\ ~Anomalies(data[s], began[s]) /\ state[s] = "judge"
        /\ time' = time /\ told' = told /\ began' = began
    BY <2>1 DEF JudgeRun, StateIs
  <2>3. /\ data[s] \in Observations /\ ToldSince(data[s], takenAt[s])
        /\ began[s] - CacheTTL <= takenAt[s]
    BY <2>2 DEF RunsInformed, Informed
  <2>4. Quiet(data[s], began[s])
    BY <1>1, <2>2, <2>3, QuietWithoutAnomalies
  <2>5. PICK t \in takenAt[s]..time : data[s] \in told[t]
    BY <2>3 DEF ToldSince
  <2>6. t \in 0..time /\ began[s] - CacheTTL <= t
    BY <1>1, <2>3, <2>5
  <2> QED BY <2>2, <2>4, <2>5, <2>6
<1> QED BY <1>2, <1>3

BoardInv == BoardTypeOK /\ EngineTold /\ CacheInformed /\ RunsInformed /\ HealthyIsQuiet

LEMMA BoardInvInit == BoardInit => BoardInv
<1> SUFFICES ASSUME BoardInit PROVE BoardInv
  OBVIOUS
<1>1. BoardTypeOK
  BY BoardTypeInit
<1>2. EngineTold
  BY BoardAssumption DEF BoardInit, EngineTold
<1>3. CacheInformed /\ RunsInformed /\ HealthyIsQuiet
  BY DEF BoardInit, CacheInformed, RunsInformed, Informed, HealthyIsQuiet
<1> QED BY <1>1, <1>2, <1>3 DEF BoardInv

(* In every behaviour of board runs, whatever observations they leave and  *)
(* find in the cache, each is of something the engine told in its time.    *)
THEOREM BoardInvariantHolds == BoardSpec => []BoardInv
<1>1. BoardInv /\ [BoardNext]_boardVars => BoardInv'
  BY BoardTypeStep, EngineToldStep, CacheInformedStep, RunsInformedStep, HealthyIsQuietStep
     DEF BoardInv
<1> QED BY <1>1, BoardInvInit, PTL DEF BoardSpec

(* Every variable of the board stays in its domain.                        *)
THEOREM BoardTypeCorrect == BoardSpec => []BoardTypeOK
<1>1. BoardInv => BoardTypeOK
  BY DEF BoardInv
<1> QED BY <1>1, BoardInvariantHolds, PTL

(* main: a run that reports HEALTHY has an instant to show, not longer     *)
(* than TTL before it began, at which nothing at the engine needed         *)
(* attention, for any number of runs over one cache without a lock.        *)
THEOREM HealthyIsQuietHolds == BoardSpec => []HealthyIsQuiet
<1>1. BoardInv => HealthyIsQuiet
  BY DEF BoardInv
<1> QED BY <1>1, BoardInvariantHolds, PTL

-----------------------------------------------------------------------------
(* The tools side by side.                                                 *)

LEMMA RestsAreInits ==
  /\ BranchRests => BranchInit
  /\ GenerateRests => GenerateInit
  /\ CredentialRests => CredentialInit
  /\ ProcessRests => ProcessInit
  /\ ActivityRests => ActivityInit
  /\ FactRests => FactInit
  /\ BoardRests => BoardInit
  BY DEF BranchRests, GenerateRests, CredentialRests, ProcessRests, ActivityRests, FactRests,
       BoardRests

LEMMA InitOfEach ==
  Init => /\ BuildInit /\ BranchInit /\ GenerateInit /\ CredentialInit
          /\ ProcessInit /\ ActivityInit /\ FactInit /\ BoardInit
  BY RestsAreInits DEF Init, ProbesRest

(* A step of the tools is a step of one of them and a stutter of each      *)
(* other.                                                                  *)
LEMMA StepOfEach ==
  [Next]_vars =>
    /\ [BuildNext]_buildVars /\ [BranchNext]_branchVars /\ [GenerateNext]_generateVars
    /\ [CredentialNext]_credentialVars /\ [ProcessNext]_processVars /\ [ActivityNext]_activityVars
    /\ [FactNext]_factVars /\ [BoardNext]_boardVars
  BY DEF Next, vars, probeVars

(* Side by side the tools behave, each, as it is specified: what is proved *)
(* of a tool holds of its variables in every behaviour of them all.        *)
THEOREM EachToolHolds ==
  Spec => /\ BuildSpec /\ BranchSpec /\ GenerateSpec /\ CredentialSpec
          /\ ProcessSpec /\ ActivitySpec /\ FactSpec /\ BoardSpec
  BY InitOfEach, StepOfEach, PTL
     DEF Spec, BuildSpec, BranchSpec, GenerateSpec, CredentialSpec, ProcessSpec, ActivitySpec,
          FactSpec, BoardSpec

(* Every variable of every tool stays in its domain.                       *)
THEOREM TypeCorrect == Spec => []TypeOK
<1>1. /\ BuildTypeOK /\ BranchTypeOK /\ GenerateTypeOK /\ CredentialTypeOK
      /\ ProcessTypeOK /\ ActivityTypeOK /\ FactTypeOK /\ BoardTypeOK
      => TypeOK
  BY DEF TypeOK
<1> QED
  BY <1>1, EachToolHolds, BuildTypeCorrect, BranchTypeCorrect, GenerateTypeCorrect,
     CredentialTypeCorrect,
     ProcessTypeCorrect, ActivityTypeCorrect, FactTypeCorrect, BoardTypeCorrect, PTL
==============================================================================

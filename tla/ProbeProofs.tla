----------------------------- MODULE ProbeProofs -----------------------------
(***************************************************************************)
(* The doctor's probes are observations: of a supervise, for any number of *)
(* pids, births, deaths, lost pidfiles and probes; of writes, for any tree *)
(* of artifacts and any changes made to it; of one document, whatever is   *)
(* done to it while they look.                                             *)
(***************************************************************************)
EXTENDS ProcessProbe, ActivityProbe, FactProbe, FiniteSetTheorems, TLAPS

(* A supervise: ops/deployment_process.py.                                 *)
Asking == {"state", "argv", "young"}
Looking == {"find", "next", "again"} \cup Asking

ProcessTypeInv ==
  /\ proc \in [Pids -> Kinds] /\ pidfile \in Pids \cup {NoPid, Malformed}
  /\ claimed \in Pids \cup {NoPid}
  /\ candidates \subseteq Pids /\ selected \subseteq Pids /\ IsFiniteSet(selected)
  /\ stage \in {"idle", "claim"} \cup Looking
  /\ stage \in Asking \cup {"again"} => asking \in Pids
  /\ stage # "idle" => processAnswer = "none"
  /\ stage \in {"idle", "claim"} => selected = {}

(* The histories bracket the supervises there are.                         *)
ProcessHistoryBrackets == Supervises \subseteq superviseSeen /\
     superviseKept \subseteq Supervises

(* Of every pid the probe may ask about the pidfile named no other at some *)
(* instant: when it was read.                                              *)
AgreedOnce ==
  stage \in Looking => \A p \in Pids : claimed \in {NoPid, p} => <<p, "agrees">> \in superviseSeen

(* With a pidfile the probe asks about its pid only, and only with this pid*)
(* the pidfile agreed all the time.                                        *)
ClaimAsked ==
  claimed # NoPid =>
    /\ stage \in Asking \cup {"again"} /\ asking = claimed
    /\ \A p \in Pids : <<p, "agrees">> \in superviseKept => p = claimed
    /\ stage = "again" => <<claimed, "runs">> \in superviseSeen
NoClaimYet == stage \in {"idle", "claim", "find", "next"} => claimed = NoPid

(* Without one, a supervise that stays is a candidate, is being asked      *)
(* about or has been selected; what was selected has been a supervise.     *)
Staying == {p \in Pids : <<p, "runs">> \in superviseKept}
StayingIsAsked ==
  /\ claimed = NoPid /\ stage = "next" => Staying \subseteq candidates \cup selected
  /\ claimed = NoPid /\ stage \in Asking => Staying \subseteq candidates \cup selected \cup {asking}
SelectedWasSeen == \A p \in selected : <<p, "runs">> \in superviseSeen
NotAgain == claimed = NoPid => stage # "again"

(* A process that was the supervise claims no pidfile any more: one that   *)
(* names it did so when it became the supervise, or when the probe began.  *)
Settled == {"supervise", "zombie", "none"}
NamedOnce ==
  stage = "again" /\ claimed \in Pids \ young =>
    proc[claimed] \in Settled /\ (pidfile = claimed => <<claimed, "named">> \in superviseSeen)

(* What the walk through the probe says, apart from the host.              *)
QuestionInv == ClaimAsked /\ NoClaimYet /\ StayingIsAsked /\ SelectedWasSeen /\ NotAgain /\ NamedOnce
ProcessInv == ProcessTypeInv /\ ProcessHistoryBrackets /\ AgreedOnce /\ QuestionInv

(* What the histories say of one pid.                                      *)
LEMMA ClaimsOf ==
  ASSUME NEW q, NEW f, NEW p \in Pids
  PROVE  /\ <<p, "runs">> \in Claims(q, f) <=> q[p] = "supervise"
         /\ <<p, "agrees">> \in Claims(q, f) <=> f \in {p, NoPid}
         /\ <<p, "named">> \in Claims(q, f) <=> q[p] = "supervise" /\ f = p
  BY DEF Claims, Claimings

LEMMA ProcessInitInv == ProcessInit => ProcessInv
<1> SUFFICES ASSUME ProcessInit PROVE ProcessInv
  OBVIOUS
<1>1. ProcessTypeInv
  BY FS_EmptySet DEF ProcessInit, ProcessTypeInv, Kinds, Looking, Asking
<1> QED
  BY <1>1 DEF ProcessInit, ProcessInv, QuestionInv, ProcessHistoryBrackets, AgreedOnce, ClaimAsked,
       NoClaimYet, StayingIsAsked, SelectedWasSeen, NotAgain, NamedOnce, Looking, Asking

-----------------------------------------------------------------------------
(* A step of the host: histories grow and shrink, the probe stays.         *)
LEMMA HostKeeps ==
  ASSUME ProcessInv, NEW q, NEW f, Now(q, f),
         q \in [Pids -> Kinds], f \in Pids \cup {NoPid, Malformed}, young \subseteq young',
         \A p \in Pids \ young' : proc[p] \in Settled => q[p] \in Settled /\ (f = p => pidfile = p)
  PROVE  ProcessInv'
<1> USE DEF ProcessInv, QuestionInv
<1>1. /\ proc' = q /\ pidfile' = f /\ superviseSeen' = superviseSeen \cup Supervises'
      /\ superviseKept' = superviseKept \cap Supervises'
      /\ UNCHANGED <<stage, claimed, candidates, asking, selected, processAnswer>>
  BY DEF Now, local, Supervises
<1>2. ProcessTypeInv' /\ ProcessHistoryBrackets'
  BY <1>1 DEF ProcessTypeInv, ProcessHistoryBrackets
<1>3. AgreedOnce'
  BY <1>1 DEF AgreedOnce
<1>4. ClaimAsked' /\ NoClaimYet' /\ StayingIsAsked' /\ SelectedWasSeen' /\ NotAgain'
  BY <1>1 DEF ClaimAsked, NoClaimYet, StayingIsAsked, Staying, SelectedWasSeen, NotAgain
<1>5. NamedOnce'
  BY <1>1 DEF NamedOnce
<1> QED BY <1>2, <1>3, <1>4, <1>5

LEMMA WorldKeeps ==
  ASSUME ProcessInv,
         (\E p \in Pids : Born(p) \/ Claim(p) \/ Become(p) \/ Ends(p)) \/ LosePidfile
  PROVE  ProcessInv'
<1> USE DEF Kinds, Settled
<1>0. proc \in [Pids -> Kinds] /\ pidfile \in Pids \cup {NoPid, Malformed}
  BY DEF ProcessInv, ProcessTypeInv
<1>1. ASSUME NEW p \in Pids, Born(p) PROVE ProcessInv'
  <2>1. PICK k \in {"shell", "other"} : Now([proc EXCEPT ![p] = k], pidfile)
    BY <1>1 DEF Born
  <2>2. young' = young \cup {p}
    BY <1>1 DEF Born
  <2> QED BY <1>0, <2>1, <2>2, HostKeeps
<1>2. ASSUME NEW p \in Pids, Claim(p) PROVE ProcessInv'
  BY <1>0, <1>2, HostKeeps DEF Claim
<1>3. ASSUME NEW p \in Pids, Become(p) PROVE ProcessInv'
  BY <1>0, <1>3, HostKeeps DEF Become
<1>4. ASSUME NEW p \in Pids, Ends(p) PROVE ProcessInv'
  <2>1. PICK k \in {"none", "zombie"} : Now([proc EXCEPT ![p] = k], pidfile)
    BY <1>4 DEF Ends
  <2>2. young' = young
    BY <1>4 DEF Ends
  <2> QED BY <1>0, <2>1, <2>2, HostKeeps
<1>5. ASSUME LosePidfile PROVE ProcessInv'
  BY <1>0, <1>5, ProcessProbeAssumption, HostKeeps DEF LosePidfile
<1> QED BY <1>1, <1>2, <1>3, <1>4, <1>5

-----------------------------------------------------------------------------
(* A step of the probe leaves the host and the histories.                  *)
LEMMA ProcessAnswerKeeps ==
  ASSUME ProcessInv, NEW v, AnswerProcess(v), UNCHANGED <<world, superviseSeen, superviseKept>>
  PROVE  ProcessInv'
<1>1. ProcessTypeInv'
  BY FS_EmptySet DEF AnswerProcess, world, ProcessInv, ProcessTypeInv, Looking, Asking
<1> QED
  BY <1>1 DEF AnswerProcess, world, ProcessInv, QuestionInv, ProcessHistoryBrackets, Supervises,
       AgreedOnce, ClaimAsked, NoClaimYet, StayingIsAsked, SelectedWasSeen, NotAgain, NamedOnce,
       Looking, Asking

LEMMA ProcessStepKeeps ==
  ASSUME ProcessInv, UNCHANGED <<world, superviseSeen, superviseKept>>, ProcessTypeInv',
       QuestionInv', AgreedOnce'
  PROVE  ProcessInv'
  BY DEF world, ProcessInv, ProcessHistoryBrackets, Supervises

LEMMA ProcessBeginKeeps == ASSUME ProcessInv, BeginProcess PROVE ProcessInv'
<1>1. ProcessTypeInv' /\ ProcessHistoryBrackets' /\ AgreedOnce'
  BY DEF BeginProcess, ProcessInv, ProcessTypeInv, ProcessHistoryBrackets, Supervises, AgreedOnce,
       Looking, Asking
<1>2. QuestionInv'
  BY DEF BeginProcess, ProcessInv, QuestionInv, ProcessTypeInv, ClaimAsked, NoClaimYet, StayingIsAsked,
       SelectedWasSeen, NotAgain, NamedOnce, Asking
<1> QED BY <1>1, <1>2 DEF ProcessInv

(* Reading the pidfile: it agrees with what is asked about from now on.    *)
LEMMA ReadClaimKeeps == ASSUME ProcessInv, ReadClaim PROVE ProcessInv'
<1>1. CASE AnswerProcess("unknown")
  BY <1>1, ProcessAnswerKeeps DEF ReadClaim
<1>2. CASE pidfile \in {NoPid} \cup Pids /\ ~AnswerProcess("unknown")
  <2>1. ProcessTypeInv'
    BY <1>2 DEF ReadClaim, Continue, world, ProcessInv, ProcessTypeInv, Looking, Asking
  <2>2. claimed' = pidfile /\ \A p \in Pids : <<p, "agrees">> \in Supervises <=> pidfile \in {p, NoPid}
    BY <1>2, ClaimsOf DEF ReadClaim, ProcessInv, QuestionInv, NoClaimYet, Supervises
  <2>3. AgreedOnce'
    BY <1>2, <2>2 DEF ReadClaim, Continue, world, ProcessInv, AgreedOnce, ProcessHistoryBrackets
  <2>4. QuestionInv'
    BY <1>2, <2>2, ProcessProbeAssumption DEF ReadClaim, Continue, world, ProcessInv, QuestionInv,
         ClaimAsked, NoClaimYet, StayingIsAsked, SelectedWasSeen, NotAgain, NamedOnce,
         ProcessHistoryBrackets, Asking
  <2> QED BY <2>1, <2>3, <2>4, ProcessStepKeeps DEF ReadClaim
<1> QED BY <1>1, <1>2 DEF ReadClaim

LEMMA FindExactKeeps == ASSUME ProcessInv, FindExact PROVE ProcessInv'
<1>1. CASE AnswerProcess("absent")
  BY <1>1, ProcessAnswerKeeps DEF FindExact
<1>2. CASE ~AnswerProcess("absent")
  <2>1. ProcessTypeInv' /\ AgreedOnce'
    BY <1>2 DEF FindExact, Continue, world, ProcessInv, ProcessTypeInv, AgreedOnce, Looking, Asking
  <2>2. Staying \subseteq {p \in Pids : proc[p] = "supervise"}
    BY ClaimsOf DEF ProcessInv, ProcessHistoryBrackets, Supervises, Staying
  <2>3. QuestionInv'
    BY <1>2, <2>2 DEF FindExact, Continue, world, ProcessInv, QuestionInv, ClaimAsked, NoClaimYet,
         StayingIsAsked, Staying, SelectedWasSeen, NotAgain, NamedOnce, Asking
  <2> QED BY <2>1, <2>3, ProcessStepKeeps DEF FindExact
<1> QED BY <1>1, <1>2

LEMMA NextCandidateKeeps == ASSUME ProcessInv, NextCandidate PROVE ProcessInv'
<1>1. ASSUME NEW v, AnswerProcess(v) PROVE ProcessInv'
  BY <1>1, ProcessAnswerKeeps DEF NextCandidate
<1>2. ASSUME NEW p \in candidates, asking' = p, candidates' = candidates \ {p}, Continue("state"),
             UNCHANGED <<claimed, selected>>
      PROVE  ProcessInv'
  <2>1. ProcessTypeInv' /\ AgreedOnce'
    BY <1>2 DEF NextCandidate, Continue, world, ProcessInv, ProcessTypeInv, AgreedOnce, Looking, Asking
  <2>2. QuestionInv'
    BY <1>2 DEF NextCandidate, Continue, world, ProcessInv, QuestionInv, ClaimAsked, NoClaimYet,
         StayingIsAsked, Staying, SelectedWasSeen, NotAgain, NamedOnce, Asking
  <2> QED BY <2>1, <2>2, ProcessStepKeeps DEF NextCandidate
<1> QED BY <1>1, <1>2 DEF NextCandidate

(* A pid that is gone was not the supervise all the time.                  *)
LEMMA GoneKeeps ==
  ASSUME ProcessInv, stage \in Asking, proc[asking] # "supervise", Gone,
         UNCHANGED <<world, superviseSeen, superviseKept>>
  PROVE  ProcessInv'
<1>1. CASE claimed # NoPid
  BY <1>1, ProcessAnswerKeeps DEF Gone
<1>2. CASE claimed = NoPid
  <2>1. ProcessTypeInv' /\ AgreedOnce'
    BY <1>2 DEF Gone, Continue, world, ProcessInv, ProcessTypeInv, AgreedOnce, Looking, Asking
  <2>2. asking \notin Staying
    BY ClaimsOf DEF ProcessInv, ProcessHistoryBrackets, Supervises, Staying
  <2>3. QuestionInv'
    BY <1>2, <2>2 DEF Gone, Continue, ProcessInv, QuestionInv, ClaimAsked, NoClaimYet,
         StayingIsAsked, Staying, SelectedWasSeen, NotAgain, NamedOnce, Asking
  <2> QED BY <2>1, <2>3, ProcessStepKeeps
<1> QED BY <1>1, <1>2

LEMMA InspectStateKeeps == ASSUME ProcessInv, InspectState PROVE ProcessInv'
<1>1. CASE proc[asking] \in {"none", "zombie"}
  BY <1>1, GoneKeeps DEF InspectState, Asking
<1>2. CASE proc[asking] \notin {"none", "zombie"}
  <2>0. stage' \in {"argv", "young"} /\ stage = "state"
    BY <1>2 DEF InspectState, Continue
  <2>1. ProcessTypeInv' /\ AgreedOnce'
    BY <1>2, <2>0 DEF InspectState, Continue, world, ProcessInv, ProcessTypeInv, AgreedOnce,
         Looking, Asking
  <2>2. QuestionInv'
    BY <1>2, <2>0 DEF InspectState, Continue, ProcessInv, QuestionInv, ClaimAsked, NoClaimYet,
         StayingIsAsked, Staying, SelectedWasSeen, NotAgain, NamedOnce, Asking
  <2> QED BY <2>1, <2>2, ProcessStepKeeps DEF InspectState
<1> QED BY <1>1, <1>2

(* The supervise that is read runs, and the pidfile that names it now      *)
(* names it while it runs.                                                 *)
LEMMA InspectArgvKeeps == ASSUME ProcessInv, InspectArgv PROVE ProcessInv'
<1>1. CASE Gone /\ proc[asking] = "none"
  BY <1>1, GoneKeeps DEF InspectArgv, Asking
<1>2. CASE AnswerProcess("unknown")
  BY <1>2, ProcessAnswerKeeps DEF InspectArgv
<1>3. CASE /\ proc[asking] = "supervise" /\ stage = "argv"
           /\ IF claimed # NoPid THEN Continue("again") /\ UNCHANGED selected
              ELSE Continue("next") /\ selected' = selected \cup {asking}
           /\ UNCHANGED <<claimed, candidates, asking>>
  <2>0. claimed \in {NoPid, asking} /\ asking \in Pids
    BY <1>3 DEF ProcessInv, QuestionInv, ClaimAsked, ProcessTypeInv, Asking
  <2>1. /\ <<asking, "runs">> \in superviseSeen
        /\ pidfile = asking => <<asking, "named">> \in superviseSeen
    BY <1>3, <2>0, ClaimsOf DEF ProcessInv, ProcessHistoryBrackets, Supervises
  <2>2. IsFiniteSet(selected')
    BY <1>3, FS_AddElement DEF ProcessInv, ProcessTypeInv
  <2>3. ProcessTypeInv' /\ AgreedOnce'
    BY <1>3, <2>0, <2>2 DEF InspectArgv, Continue, world, ProcessInv, ProcessTypeInv, AgreedOnce,
         Looking, Asking
  <2>4. ClaimAsked' /\ NoClaimYet' /\ StayingIsAsked' /\ SelectedWasSeen' /\ NotAgain'
    BY <1>3, <2>0, <2>1 DEF InspectArgv, Continue, ProcessInv, QuestionInv, ClaimAsked, NoClaimYet,
         StayingIsAsked, Staying, SelectedWasSeen, NotAgain, Asking
  <2>5. NamedOnce'
    BY <1>3, <2>0, <2>1 DEF InspectArgv, Continue, world, NamedOnce, Settled
  <2> QED BY <2>3, <2>4, <2>5, ProcessStepKeeps DEF InspectArgv, QuestionInv
<1> QED BY <1>1, <1>2, <1>3 DEF InspectArgv

LEMMA ProcessStepInv == ProcessInv /\ [ProcessNext]_processVars => ProcessInv'
<1> SUFFICES ASSUME ProcessInv, [ProcessNext]_processVars PROVE ProcessInv'
  OBVIOUS
<1>1. CASE (\E p \in Pids : Born(p) \/ Claim(p) \/ Become(p) \/ Ends(p)) \/ LosePidfile
  BY <1>1, WorldKeeps
<1>2. CASE ReadAgain \/ InstrumentFailure
  BY <1>2, ProcessAnswerKeeps DEF ReadAgain, InstrumentFailure
<1>3. CASE UNCHANGED processVars
  BY <1>3 DEF processVars, world, local, ProcessInv, ProcessTypeInv, ProcessHistoryBrackets,
       Supervises, AgreedOnce, QuestionInv, ClaimAsked, NoClaimYet, StayingIsAsked, Staying,
       SelectedWasSeen, NotAgain, NamedOnce
<1> QED
  BY <1>1, <1>2, <1>3, ProcessBeginKeeps, ReadClaimKeeps, FindExactKeeps, NextCandidateKeeps,
     InspectStateKeeps, InspectArgvKeeps DEF ProcessNext, Probe

-----------------------------------------------------------------------------
LEMMA ProcessInitObserves == ProcessInit => ProcessObservation!Init
  BY DEF ProcessInit, ProcessObservation!Init, Supervises, Claims

(* Evidence among what was seen or kept, of the observer.                  *)
Witnessed(history) == \E p \in Pids : <<p, "runs">> \in history /\ <<p, "agrees">> \in history

LEMMA WitnessIsEvidence ==
  ASSUME NEW h
  PROVE  Witnessed(h) <=> \E e \in {{<<p, "runs">>, <<p, "agrees">>} : p \in Pids} : e \subseteq h
<1>1. ASSUME NEW p \in Pids
      PROVE  {<<p, "runs">>, <<p, "agrees">>} \subseteq h <=> <<p, "runs">> \in h /\ <<p, "agrees">> \in h
  OBVIOUS
<1>2. ASSUME NEW e \in {{<<p, "runs">>, <<p, "agrees">>} : p \in Pids}, e \subseteq h PROVE Witnessed(h)
  <2>1. PICK p \in Pids : e = {<<p, "runs">>, <<p, "agrees">>}
    OBVIOUS
  <2> QED BY <1>1, <1>2, <2>1 DEF Witnessed
<1>3. ASSUME NEW p \in Pids, <<p, "runs">> \in h, <<p, "agrees">> \in h
      PROVE  \E e \in {{<<r, "runs">>, <<r, "agrees">>} : r \in Pids} : e \subseteq h
  <2>1. {<<p, "runs">>, <<p, "agrees">>} \in {{<<r, "runs">>, <<r, "agrees">>} : r \in Pids}
    OBVIOUS
  <2> QED BY <1>1, <1>3, <2>1
<1> QED BY <1>2, <1>3 DEF Witnessed

LEMMA HostObserves == ASSUME NEW q, NEW f, Now(q, f) PROVE ProcessObservation!Change
<1>1. Supervises' = Claims(q, f) /\ Claims(q, f) \in SUBSET Claimings
  BY DEF Now, Supervises, Claims
<1> QED BY <1>1 DEF Now, ProcessObservation!Change

LEMMA ProcessAnswerObserves ==
  ASSUME ProcessInv, stage # "idle", NEW v, AnswerProcess(v),
         UNCHANGED <<world, superviseSeen, superviseKept>>,
         \/ v = "unknown"
         \/ v = "present" /\ Witnessed(superviseSeen)
         \/ v = "absent" /\ ~Witnessed(superviseKept)
  PROVE  ProcessObservation!Answer
  BY WitnessIsEvidence
     DEF AnswerProcess, ProcessInv, ProcessTypeInv, world, Supervises, ProcessObservation!Answer

(* A step of the probe that does not answer is hidden from the observer.   *)
LEMMA ProcessHidden ==
  ASSUME UNCHANGED <<world, processAnswer, superviseSeen, superviseKept>>
  PROVE  UNCHANGED ProcessObservation!vars
  BY DEF world, Supervises, ProcessObservation!vars

LEMMA GoneObserves ==
  ASSUME ProcessInv, stage \in Asking, proc[asking] # "supervise", Gone,
       UNCHANGED <<world, superviseSeen, superviseKept>>
  PROVE  [ProcessObservation!Next]_ProcessObservation!vars
<1>1. CASE claimed # NoPid
  <2>1. claimed = asking /\ \A p \in Pids : <<p, "agrees">> \in superviseKept => p = claimed
    BY <1>1 DEF ProcessInv, QuestionInv, ClaimAsked
  <2>2. \A p \in Pids : <<p, "runs">> \in superviseKept => proc[p] = "supervise"
    BY ClaimsOf DEF ProcessInv, ProcessHistoryBrackets, Supervises
  <2>3. ~Witnessed(superviseKept)
    BY <2>1, <2>2 DEF Witnessed
  <2> QED BY <1>1, <2>3, ProcessAnswerObserves DEF Gone, Asking, ProcessObservation!Next
<1>2. CASE claimed = NoPid
  BY <1>2, ProcessHidden DEF Gone, Continue
<1> QED BY <1>1, <1>2

LEMMA FindExactObserves == ASSUME ProcessInv, FindExact
  PROVE [ProcessObservation!Next]_ProcessObservation!vars
<1> DEFINE there == {p \in Pids : proc[p] = "supervise"}
<1>1. CASE there = {}
  <2>1. ~Witnessed(superviseKept)
    BY <1>1, ClaimsOf DEF ProcessInv, ProcessHistoryBrackets, Supervises, Witnessed
  <2> QED BY <1>1, <2>1, ProcessAnswerObserves DEF FindExact, ProcessObservation!Next
<1>2. CASE there # {}
  BY <1>2, ProcessHidden DEF FindExact, Continue
<1> QED BY <1>1, <1>2

LEMMA NextCandidateObserves == ASSUME ProcessInv, NextCandidate
  PROVE [ProcessObservation!Next]_ProcessObservation!vars
<1>1. CASE \E p \in candidates : Continue("state")
  BY <1>1, ProcessHidden DEF NextCandidate, Continue
<1>2. CASE candidates = {} /\ selected = {} /\ AnswerProcess("absent")
  <2>1. ~Witnessed(superviseKept)
    BY <1>2 DEF NextCandidate, ProcessInv, QuestionInv, NoClaimYet, StayingIsAsked, Staying, Witnessed
  <2> QED BY <1>2, <2>1, ProcessAnswerObserves DEF NextCandidate, ProcessObservation!Next
<1>3. CASE Cardinality(selected) = 1 /\ AnswerProcess("present")
  <2>1. PICK p \in selected : TRUE
    BY <1>3, FS_EmptySet
  <2>2. p \in Pids /\ <<p, "runs">> \in superviseSeen /\ <<p, "agrees">> \in superviseSeen
    BY <2>1 DEF NextCandidate, ProcessInv, ProcessTypeInv, QuestionInv, SelectedWasSeen, NoClaimYet,
         AgreedOnce, Looking
  <2>3. Witnessed(superviseSeen)
    BY <2>2 DEF Witnessed
  <2> QED BY <1>3, <2>3, ProcessAnswerObserves DEF NextCandidate, ProcessObservation!Next
<1>4. CASE AnswerProcess("unknown")
  BY <1>4, ProcessAnswerObserves DEF NextCandidate, ProcessObservation!Next
<1> QED BY <1>1, <1>2, <1>3, <1>4 DEF NextCandidate

LEMMA ProcessStepObserves == ProcessInv /\
     [ProcessNext]_processVars => [ProcessObservation!Next]_ProcessObservation!vars
<1> SUFFICES ASSUME ProcessInv, [ProcessNext]_processVars
    PROVE [ProcessObservation!Next]_ProcessObservation!vars
  OBVIOUS
<1>1. CASE (\E p \in Pids : Born(p) \/ Claim(p) \/ Become(p) \/ Ends(p)) \/ LosePidfile
  BY <1>1, HostObserves DEF Born, Claim, Become, Ends, LosePidfile, ProcessObservation!Next
<1>2. CASE BeginProcess
  BY <1>2 DEF BeginProcess, Supervises, ProcessObservation!Next, ProcessObservation!Begin
<1>3. CASE ReadClaim
  <2>1. CASE AnswerProcess("unknown")
    BY <1>3, <2>1, ProcessAnswerObserves DEF ReadClaim, ProcessObservation!Next
  <2>2. CASE ~AnswerProcess("unknown")
    BY <1>3, <2>2, ProcessHidden DEF ReadClaim, Continue
  <2> QED BY <2>1, <2>2
<1>4. CASE FindExact
  BY <1>4, FindExactObserves
<1>5. CASE NextCandidate
  BY <1>5, NextCandidateObserves
<1>6. CASE InspectState
  <2>1. CASE proc[asking] \in {"none", "zombie"}
    BY <1>6, <2>1, GoneObserves DEF InspectState, Asking
  <2>2. CASE proc[asking] \notin {"none", "zombie"}
    BY <1>6, <2>2, ProcessHidden DEF InspectState, Continue
  <2> QED BY <2>1, <2>2
<1>7. CASE InspectArgv
  <2>1. CASE Gone /\ proc[asking] = "none"
    BY <1>7, <2>1, GoneObserves DEF InspectArgv, Asking
  <2>2. CASE AnswerProcess("unknown")
    BY <1>7, <2>2, ProcessAnswerObserves DEF InspectArgv, ProcessObservation!Next
  <2>3. CASE UNCHANGED processAnswer
    BY <1>7, <2>3, ProcessHidden DEF InspectArgv
  <2> QED BY <1>7, <2>1, <2>2, <2>3 DEF InspectArgv, Continue
<1>8. CASE ReadAgain
  <2>1. claimed \in Pids /\ <<claimed, "runs">> \in superviseSeen /\ <<claimed, "agrees">> \in superviseSeen
    BY <1>8 DEF ReadAgain, ProcessInv, ProcessTypeInv, QuestionInv, ClaimAsked, NotAgain, AgreedOnce, Looking
  <2>2. Witnessed(superviseSeen)
    BY <2>1 DEF Witnessed
  <2> QED BY <1>8, <2>2, ProcessAnswerObserves DEF ReadAgain, ProcessObservation!Next
<1>9. CASE InstrumentFailure
  BY <1>9, ProcessAnswerObserves DEF InstrumentFailure, ProcessObservation!Next
<1>10. CASE UNCHANGED processVars
  BY <1>10, ProcessHidden DEF processVars
<1> QED BY <1>1, <1>2, <1>3, <1>4, <1>5, <1>6, <1>7, <1>8, <1>9, <1>10 DEF ProcessNext, Probe

(* The invariant holds in every reachable state.                           *)
THEOREM ProcessInvariantHolds == ProcessSpec => []ProcessInv
<1>1. ProcessInit => ProcessInv
  BY ProcessInitInv
<1>2. ProcessInv /\ [ProcessNext]_processVars => ProcessInv'
  BY ProcessStepInv
<1> QED BY <1>1, <1>2, PTL DEF ProcessSpec

(* Every variable of the probe and its host stays in its domain.           *)
THEOREM ProcessTypeCorrect == ProcessSpec => []ProcessTypeOK
<1>1. ProcessInit => ProcessTypeOK
  BY ProcessProbeAssumption DEF ProcessInit, ProcessTypeOK, Kinds, Supervises, Claims
<1>2. ProcessInv /\ ProcessTypeOK /\ [ProcessNext]_processVars => ProcessTypeOK'
  <2> SUFFICES ASSUME ProcessInv, ProcessTypeOK, [ProcessNext]_processVars PROVE ProcessTypeOK'
    OBVIOUS
  <2> USE ProcessProbeAssumption DEF ProcessTypeOK, Kinds, local, world
  <2>1. ASSUME NEW p \in Pids, Born(p) PROVE ProcessTypeOK'
    BY <2>1 DEF Born, Now, Claims
  <2>2. ASSUME NEW p \in Pids, Claim(p) \/ Become(p) \/ Ends(p) PROVE ProcessTypeOK'
    BY <2>2 DEF Claim, Become, Ends, Now, Claims
  <2>3. CASE LosePidfile
    BY <2>3 DEF LosePidfile, Now, Claims
  <2>4. CASE BeginProcess
    BY <2>4 DEF BeginProcess, Supervises, Claims
  <2>5. CASE ReadClaim \/ FindExact
    BY <2>5 DEF ReadClaim, FindExact, AnswerProcess, Continue
  <2>6. CASE NextCandidate
    BY <2>6 DEF NextCandidate, AnswerProcess, Continue
  <2>7. CASE InspectState \/ InspectArgv
    <3>1. stage \in Asking => asking \in Pids
      BY DEF ProcessInv, ProcessTypeInv
    <3> QED BY <2>7, <3>1 DEF InspectState, InspectArgv, Gone, AnswerProcess, Continue, Asking
  <2>8. CASE ReadAgain \/ InstrumentFailure
    BY <2>8 DEF ReadAgain, InstrumentFailure, AnswerProcess
  <2>9. CASE UNCHANGED processVars
    BY <2>9 DEF processVars
  <2> QED BY <2>1, <2>2, <2>3, <2>4, <2>5, <2>6, <2>7, <2>8, <2>9 DEF ProcessNext, Probe
<1> QED BY <1>1, <1>2, ProcessInvariantHolds, PTL DEF ProcessSpec

(* ProcessEvidence: deployment_process.py answers present only if of one   *)
(* pid the supervise ran and the pidfile named no other, each at some      *)
(* instant of the probe, and absent only if of no pid both were so all     *)
(* through it, although it reads pidfile, pgrep, state and arguments one   *)
(* at a time and the host shells never look at the pidfile again.          *)
THEOREM ProcessEvidenceHolds == ProcessSpec => ProcessEvidence
<1>1. ProcessInit => ProcessObservation!Init
  BY ProcessInitObserves
<1>2. ProcessInv /\ [ProcessNext]_processVars =>
           [ProcessObservation!Next]_ProcessObservation!vars
  BY ProcessStepObserves
<1> QED BY <1>1, <1>2, ProcessInvariantHolds, PTL DEF ProcessSpec, ProcessEvidence,
         ProcessObservation!Spec

(* PresentWasClaimed: with the pidfile read again, present for its pid     *)
(* means that at one instant of the probe the supervise ran and the pidfile*)
(* named it, if the pid did not change hands.                              *)
THEOREM PresentWasClaimedHolds == ProcessSpec => PresentWasClaimed
<1> DEFINE Good ==
      processAnswer # "present" /\ processAnswer' = "present" /\ claimed \in Pids \ young
        => <<claimed, "named">> \in superviseSeen
<1>1. ProcessInv /\ [ProcessNext]_processVars => [Good]_processVars
  <2> SUFFICES ASSUME ProcessInv, ProcessNext, processAnswer # "present", processAnswer' = "present",
                      claimed \in Pids \ young
               PROVE  <<claimed, "named">> \in superviseSeen
    OBVIOUS
  <2>1. claimed # NoPid
    BY ProcessProbeAssumption
  <2>2. stage \in Asking \cup {"again"}
    BY <2>1 DEF ProcessInv, QuestionInv, ClaimAsked
  <2>3. \A v : AnswerProcess(v) => v = "present"
    BY DEF AnswerProcess
  <2>4. ~(\E p \in Pids : Born(p) \/ Claim(p) \/ Become(p) \/ Ends(p)) /\ ~LosePidfile
    BY DEF Born, Claim, Become, Ends, LosePidfile, Now
  <2>5. ~BeginProcess /\ ~ReadClaim /\ ~FindExact /\ ~NextCandidate
    BY <2>2 DEF BeginProcess, ReadClaim, FindExact, NextCandidate, Asking
  <2>6. ~InspectState /\ ~InspectArgv /\ ~InstrumentFailure
    BY <2>3 DEF InspectState, InspectArgv, InstrumentFailure, Gone, Continue
  <2>7. ReadAgain
    BY <2>4, <2>5, <2>6 DEF ProcessNext, Probe
  <2>8. stage = "again" /\ pidfile = claimed
    BY <2>3, <2>7 DEF ReadAgain
  <2> QED BY <2>8 DEF ProcessInv, QuestionInv, NamedOnce
<1> QED BY <1>1, ProcessInvariantHolds, PTL DEF ProcessSpec, PresentWasClaimed

-----------------------------------------------------------------------------
(* Writes below a runtime root: ops/runtime_activity.py.                   *)
(* Artifacts lie in directories that are there.                            *)
TreeInv == \A a \in DOMAIN modified : a \in Paths /\ a[1] \in dirs
DirsInv == dirs \subseteq Dirs \cup {Root}

(* The histories bracket what was written in the window.                   *)
ActivityHistoryBrackets ==
  Written \subseteq writtenSeen /\ writtenKept \subseteq Written /\ writtenSeen \subseteq Paths

(* What was found in the window was there when it was examined.            *)
FoundWasSeen == \A f \in found : f[2] = "inside" => f[1] \in writtenSeen

(* The walk passes whatever is there all the time: it has been found, or   *)
(* is listed, or is in a directory that is to be listed, or that directory *)
(* is to be found.                                                         *)
Ahead(a) ==
  \/ <<a, "inside">> \in found
  \/ a \in listed
  \/ a[1] \in pending
  \/ a[1] # Root /\ <<Root, a[1]>> \in listed
  \/ Root \in pending
StayingIsAhead == doing = "walk" => \A a \in writtenKept : Ahead(a)

ActivityNoAnswerYet ==
  /\ doing \in {"idle", "root", "walk"}
  /\ doing # "idle" => activityAnswer = "none"
  /\ doing # "walk" => found = {}

ActivityInv ==
  TreeInv /\ DirsInv /\ ActivityHistoryBrackets /\ FoundWasSeen /\ StayingIsAhead /\
       ActivityNoAnswerYet

LEMMA ActivityInitInv == ActivityInit => ActivityInv
  BY DEF ActivityInit, ActivityInv, TreeInv, DirsInv, ActivityHistoryBrackets, FoundWasSeen,
       StayingIsAhead,
         ActivityNoAnswerYet, Written, WrittenOf

(* A change of the tree keeps the walk where it is and shrinks what was    *)
(* there all the time.                                                     *)
LEMMA TreeKeeps ==
  ASSUME ActivityInv, NEW f, TreeBecomes(f), DirsInv',
       \A a \in DOMAIN f : a \in Paths /\ a[1] \in dirs'
  PROVE  ActivityInv'
<1>1. modified' = f /\ writtenSeen' = writtenSeen \cup Written' /\
           writtenKept' = writtenKept \cap Written'
  BY DEF TreeBecomes, Written
<1>2. UNCHANGED <<doing, pending, listed, found, activityAnswer>>
  BY DEF TreeBecomes, walk
<1>3. TreeInv' /\ ActivityHistoryBrackets'
  BY <1>1 DEF TreeInv, ActivityHistoryBrackets, ActivityInv, Written, WrittenOf
<1>4. FoundWasSeen' /\ ActivityNoAnswerYet'
  BY <1>1, <1>2 DEF ActivityInv, FoundWasSeen, ActivityNoAnswerYet
<1>5. StayingIsAhead'
  BY <1>1, <1>2 DEF ActivityInv, StayingIsAhead, Ahead
<1> QED BY <1>3, <1>4, <1>5 DEF ActivityInv

LEMMA WriteKeeps == ASSUME ActivityInv, NEW a \in Paths, Write(a) PROVE ActivityInv'
<1>1. PICK t \in {"inside", "after"} : TreeBecomes(Artifact(a, t))
  BY DEF Write
<1>2. \A b \in DOMAIN Artifact(a, t) : b \in Paths /\ b[1] \in dirs'
  BY DEF Write, Artifact, ActivityInv, TreeInv
<1>3. DirsInv'
  BY DEF Write, ActivityInv, DirsInv
<1> QED BY <1>1, <1>2, <1>3, TreeKeeps

LEMMA RemoveKeeps == ASSUME ActivityInv, NEW a \in Paths, RemoveArtifact(a) PROVE ActivityInv'
<1>1. \A b \in DOMAIN Without(a) : b \in Paths /\ b[1] \in dirs'
  BY DEF RemoveArtifact, Without, ActivityInv, TreeInv
<1>2. TreeBecomes(Without(a)) /\ DirsInv'
  BY DEF RemoveArtifact, ActivityInv, DirsInv
<1> QED BY <1>1, <1>2, TreeKeeps

LEMMA RenameKeeps == ASSUME ActivityInv, NEW a \in Paths, NEW b \in Paths, Rename(a, b)
  PROVE ActivityInv'
<1> DEFINE f == [c \in (DOMAIN modified \ {a}) \cup {b} |->
                   IF c = b THEN modified[a] ELSE modified[c]]
<1>1. \A c \in DOMAIN f : c \in Paths /\ c[1] \in dirs'
  BY DEF Rename, ActivityInv, TreeInv
<1>2. TreeBecomes(f) /\ DirsInv'
  BY DEF Rename, ActivityInv, DirsInv
<1> HIDE DEF f
<1> QED BY <1>1, <1>2, TreeKeeps

LEMMA RemoveDirKeeps == ASSUME ActivityInv, NEW d, RemoveDir(d) PROVE ActivityInv'
<1>1. \A a \in DOMAIN modified : a \in Paths /\ a[1] \in dirs'
  BY DEF RemoveDir, ActivityInv, TreeInv
<1>2. TreeBecomes(modified) /\ DirsInv'
  BY DEF RemoveDir, ActivityInv, DirsInv
<1> QED BY <1>1, <1>2, TreeKeeps

(* An answer ends the walk and leaves the tree.                            *)
LEMMA ActivityAnswerKeeps ==
  ASSUME ActivityInv, NEW v, AnswerActivity(v),
       UNCHANGED <<tree, writtenSeen, writtenKept>> PROVE ActivityInv'
<1>1. UNCHANGED <<Written, dirs, modified, writtenSeen, writtenKept>>
  BY DEF tree, Written, WrittenOf
<1> QED
  BY <1>1 DEF AnswerActivity, ActivityInv, TreeInv, DirsInv, ActivityHistoryBrackets,
       FoundWasSeen, StayingIsAhead,
              ActivityNoAnswerYet

LEMMA ListKeeps == ASSUME ActivityInv, NEW d, List(d) PROVE ActivityInv'
<1> USE DEF ActivityInv
<1>1. CASE d \notin dirs
  BY <1>1, ActivityAnswerKeeps DEF List
<1>2. CASE d \in dirs
  <2>1. /\ UNCHANGED <<dirs, modified, doing, found, activityAnswer, writtenSeen, writtenKept, Written>>
        /\ pending' = pending \ {d} /\ listed' = Entries(d) /\ doing = "walk" /\ listed = {}
    BY <1>2 DEF List, tree, Written, WrittenOf
  <2>2. ASSUME NEW a \in writtenKept PROVE Ahead(a)'
    <3>1. a \in DOMAIN modified /\ a \in Paths /\ a[1] \in dirs
      BY DEF ActivityHistoryBrackets, Written, WrittenOf, TreeInv
    <3>2. Ahead(a)
      BY <2>1 DEF StayingIsAhead
    <3>3. CASE a[1] = d
      BY <2>1, <3>1, <3>3 DEF Entries, Ahead
    <3>4. CASE a[1] # d /\ Root \in pending /\ d = Root
      <4>1. a[1] \in Dirs
        BY <3>1, <3>4 DEF DirsInv
      <4>2. <<Root, a[1]>> \in Entries(d)
        BY <3>1, <3>4, <4>1 DEF Entries, SubDirs
      <4> QED BY <2>1, <3>4, <4>2 DEF Ahead
    <3>5. CASE a[1] # d /\ (Root \notin pending \/ d # Root)
      BY <2>1, <3>2, <3>5 DEF Ahead
    <3> QED BY <3>3, <3>4, <3>5
  <2> QED
    BY <2>1, <2>2 DEF TreeInv, DirsInv, ActivityHistoryBrackets, FoundWasSeen,
         StayingIsAhead, ActivityNoAnswerYet
<1> QED BY <1>1, <1>2

(* Names and directories are apart, so that an entry is one or the other.  *)
LEMMA EntryApart ==
  ASSUME NEW a \in Paths PROVE a \notin SubDirs
  BY ActivityAssumption DEF Paths, SubDirs

LEMMA ExamineKeeps ==
  ASSUME ActivityInv, NEW e, Examine(e) PROVE ActivityInv'
<1> USE DEF ActivityInv
<1>1. UNCHANGED <<dirs, modified, writtenSeen, writtenKept, Written>> /\ doing = "walk" /\
           activityAnswer = "none"
  BY DEF Examine, tree, Written, WrittenOf, ActivityNoAnswerYet
<1>2. CASE e \notin DOMAIN modified /\ e[2] \notin dirs /\ AnswerActivity("unknown")
  BY <1>1, <1>2, ActivityAnswerKeeps DEF tree
<1>3. CASE /\ e \in SubDirs /\ e[2] \in dirs
           /\ pending' = pending \cup {e[2]} /\ listed' = listed \ {e}
           /\ UNCHANGED <<doing, found, activityAnswer>>
  <2>1. ASSUME NEW a \in writtenKept PROVE Ahead(a)'
    <3>1. Ahead(a)
      BY <1>1 DEF StayingIsAhead
    <3>2. a # e
      BY <1>3, EntryApart DEF ActivityHistoryBrackets, Written, WrittenOf, TreeInv
    <3>3. <<Root, a[1]>> = e => a[1] = e[2]
      OBVIOUS
    <3> QED BY <1>3, <3>1, <3>2, <3>3 DEF Ahead
  <2> QED
    BY <1>1, <1>3, <2>1 DEF TreeInv, DirsInv, ActivityHistoryBrackets, FoundWasSeen,
         StayingIsAhead, ActivityNoAnswerYet
<1>4. CASE /\ e \in DOMAIN modified
           /\ found' = found \cup {<<e, modified[e]>>} /\ listed' = listed \ {e}
           /\ UNCHANGED <<doing, pending, activityAnswer>>
  <2>1. ASSUME NEW a \in writtenKept PROVE Ahead(a)'
    <3>1. Ahead(a)
      BY <1>1 DEF StayingIsAhead
    <3>2. a = e => <<a, "inside">> \in found'
      BY <1>4 DEF ActivityHistoryBrackets, Written, WrittenOf
    <3>3. a[1] # Root => <<Root, a[1]>> # e
      <4>1. e \notin SubDirs
        BY <1>4, EntryApart DEF TreeInv
      <4>2. a[1] \in Dirs \cup {Root}
        BY DEF ActivityHistoryBrackets, Written, WrittenOf, TreeInv, DirsInv
      <4> QED BY <4>1, <4>2 DEF SubDirs
    <3> QED BY <1>4, <3>1, <3>2, <3>3 DEF Ahead
  <2>2. FoundWasSeen'
    <3>1. modified[e] = "inside" => e \in writtenSeen
      BY <1>4 DEF ActivityHistoryBrackets, Written, WrittenOf
    <3> QED BY <1>1, <1>4, <3>1 DEF FoundWasSeen
  <2> QED
    BY <1>1, <1>4, <2>1, <2>2 DEF TreeInv, DirsInv, ActivityHistoryBrackets, StayingIsAhead,
         ActivityNoAnswerYet
<1> QED BY <1>1, <1>2, <1>3, <1>4 DEF Examine

(* A walk that found nothing in the window and has nothing left to list:   *)
(* no artifact stayed in it.                                               *)
LEMMA NothingStayed ==
  ASSUME ActivityInv, doing = "walk", listed = {}, pending = {},
       \A f \in found : f[2] # "inside"
  PROVE  writtenKept = {}
  BY DEF ActivityInv, StayingIsAhead, Ahead

LEMMA JudgeWalkKeeps == ASSUME ActivityInv, JudgeWalk PROVE ActivityInv'
  BY ActivityAnswerKeeps DEF JudgeWalk

LEMMA ActivityStepInv == ActivityInv /\ [ActivityNext]_activityVars => ActivityInv'
<1> SUFFICES ASSUME ActivityInv, [ActivityNext]_activityVars PROVE ActivityInv'
  OBVIOUS
<1>1. CASE \E a \in Paths : Write(a) \/ RemoveArtifact(a) \/ \E b \in Paths : Rename(a, b)
  BY <1>1, WriteKeeps, RemoveKeeps, RenameKeeps
<1>2. CASE \E d \in Dirs \cup {Root} : RemoveDir(d) \/ List(d)
  BY <1>2, RemoveDirKeeps, ListKeeps
<1>3. CASE \E e \in Paths \cup SubDirs : Examine(e)
  BY <1>3, ExamineKeeps
<1>4. CASE BeginWalk
  BY <1>4 DEF BeginWalk, tree, Written, WrittenOf, ActivityInv, TreeInv, DirsInv,
       ActivityHistoryBrackets,
              FoundWasSeen, StayingIsAhead, ActivityNoAnswerYet
<1>5. CASE RefuseWalk
  BY <1>5, ActivityAnswerKeeps DEF RefuseWalk
<1>6. CASE CheckRoot
  BY <1>6 DEF CheckRoot, tree, Written, WrittenOf, ActivityInv, TreeInv, DirsInv,
       ActivityHistoryBrackets,
              FoundWasSeen, StayingIsAhead, Ahead, ActivityNoAnswerYet
<1>7. CASE JudgeWalk
  BY <1>7, JudgeWalkKeeps
<1>8. CASE UNCHANGED activityVars
  BY <1>8 DEF activityVars, tree, walk, Written, WrittenOf, ActivityInv, TreeInv, DirsInv,
       ActivityHistoryBrackets,
              FoundWasSeen, StayingIsAhead, Ahead, ActivityNoAnswerYet
<1> QED BY <1>1, <1>2, <1>3, <1>4, <1>5, <1>6, <1>7, <1>8 DEF ActivityNext

-----------------------------------------------------------------------------
(* Where every thing is evidence by itself, there is evidence where there  *)
(* is anything.                                                            *)
LEMMA AnyIsEvidence ==
  ASSUME NEW T, NEW h \in SUBSET T
  PROVE  (\E e \in {{x} : x \in T} : e \subseteq h) <=> h # {}
<1>1. ASSUME NEW e \in {{x} : x \in T}, e \subseteq h PROVE h # {}
  BY <1>1
<1>2. ASSUME NEW x \in h PROVE \E e \in {{y} : y \in T} : e \subseteq h
  <2>1. {x} \in {{y} : y \in T} /\ {x} \subseteq h
    OBVIOUS
  <2> QED BY <2>1
<1> QED BY <1>1, <1>2

LEMMA ActivityInitObserves == ActivityInit => ActivityObservation!Init
  BY DEF ActivityInit, ActivityObservation!Init, Written, WrittenOf, Paths

(* The five changes of the tree are changes of what an observation sees.   *)
LEMMA TreeObserves ==
  ASSUME ActivityInv', NEW f, TreeBecomes(f) PROVE ActivityObservation!Change
<1>1. Written' \in SUBSET Paths
  BY DEF Written, WrittenOf, ActivityInv, TreeInv
<1> QED BY <1>1 DEF TreeBecomes, Written, ActivityObservation!Change

LEMMA ActivityAnswerObserves ==
  ASSUME ActivityInv, doing # "idle", NEW v, AnswerActivity(v),
       UNCHANGED <<tree, writtenSeen, writtenKept>>,
         v = "unknown" \/ (v = "present" /\ writtenSeen # {}) \/ (v = "absent" /\ writtenKept = {})
  PROVE  ActivityObservation!Answer
<1>1. writtenSeen \in SUBSET Paths /\ writtenKept \in SUBSET Paths
  BY DEF ActivityInv, ActivityHistoryBrackets
<1>2. /\ (\E e \in {{a} : a \in Paths} : e \subseteq writtenSeen) <=> writtenSeen # {}
      /\ (\E e \in {{a} : a \in Paths} : e \subseteq writtenKept) <=> writtenKept # {}
  BY <1>1, AnyIsEvidence
<1> QED
  BY <1>2 DEF AnswerActivity, ActivityInv, ActivityNoAnswerYet, tree, Written, WrittenOf,
       ActivityObservation!Answer

LEMMA JudgeWalkObserves == ASSUME ActivityInv, JudgeWalk PROVE ActivityObservation!Answer
<1>1. UNCHANGED <<tree, writtenSeen, writtenKept>> /\ doing = "walk" /\ listed = {} /\
           pending = {}
  BY DEF JudgeWalk
<1>2. CASE AnswerActivity("unknown")
  BY <1>1, <1>2, ActivityAnswerObserves
<1>3. CASE (\E f \in found : f[2] = "inside") /\ AnswerActivity("present")
  BY <1>1, <1>3, ActivityAnswerObserves DEF ActivityInv, FoundWasSeen
<1>4. CASE (\A f \in found : f[2] # "inside") /\ AnswerActivity("absent")
  BY <1>1, <1>4, ActivityAnswerObserves, NothingStayed
<1> QED BY <1>2, <1>3, <1>4 DEF JudgeWalk

LEMMA ActivityStepObserves == ActivityInv /\ ActivityInv' /\
     [ActivityNext]_activityVars => [ActivityObservation!Next]_ActivityObservation!vars
<1> SUFFICES ASSUME ActivityInv, ActivityInv', [ActivityNext]_activityVars
    PROVE [ActivityObservation!Next]_ActivityObservation!vars
  OBVIOUS
<1>1. CASE \E a \in Paths : Write(a) \/ RemoveArtifact(a) \/ \E b \in Paths : Rename(a, b)
  BY <1>1, TreeObserves DEF Write, RemoveArtifact, Rename, ActivityObservation!Next
<1>2. CASE \E d \in Dirs \cup {Root} : RemoveDir(d)
  BY <1>2, TreeObserves DEF RemoveDir, ActivityObservation!Next
<1>3. CASE \E d \in Dirs \cup {Root} : List(d)
  <2>1. PICK d : List(d)
    BY <1>3
  <2>2. CASE d \in dirs
    BY <2>1, <2>2 DEF List, tree, Written, WrittenOf, ActivityObservation!vars
  <2>3. CASE d \notin dirs
    BY <2>1, <2>3, ActivityAnswerObserves DEF List, ActivityObservation!Next
  <2> QED BY <2>2, <2>3
<1>4. CASE \E e \in Paths \cup SubDirs : Examine(e)
  <2>1. CASE AnswerActivity("unknown")
    BY <1>4, <2>1, ActivityAnswerObserves DEF Examine, ActivityObservation!Next
  <2>2. CASE ~AnswerActivity("unknown")
    BY <1>4, <2>2 DEF Examine, tree, Written, WrittenOf, ActivityObservation!vars
  <2> QED BY <2>1, <2>2
<1>5. CASE BeginWalk
  BY <1>5 DEF BeginWalk, tree, Written, WrittenOf, ActivityObservation!Next,
       ActivityObservation!Begin
<1>6. CASE RefuseWalk
  BY <1>6, ActivityAnswerObserves DEF RefuseWalk, ActivityObservation!Next
<1>7. CASE CheckRoot
  BY <1>7 DEF CheckRoot, tree, Written, WrittenOf, ActivityObservation!vars
<1>8. CASE JudgeWalk
  BY <1>8, JudgeWalkObserves DEF ActivityObservation!Next
<1>9. CASE UNCHANGED activityVars
  BY <1>9 DEF activityVars, tree, Written, WrittenOf, ActivityObservation!vars
<1> QED BY <1>1, <1>2, <1>3, <1>4, <1>5, <1>6, <1>7, <1>8, <1>9 DEF ActivityNext

(* The invariant holds in every reachable state.                           *)
THEOREM ActivityInvariantHolds == ActivitySpec => []ActivityInv
<1>1. ActivityInit => ActivityInv
  BY ActivityInitInv
<1>2. ActivityInv /\ [ActivityNext]_activityVars => ActivityInv'
  BY ActivityStepInv
<1> QED BY <1>1, <1>2, PTL DEF ActivitySpec

(* Every variable of the walk and its tree stays in its domain.            *)
THEOREM ActivityTypeCorrect == ActivitySpec => []ActivityTypeOK
<1>1. ActivityInit => ActivityTypeOK
  BY ActivityAssumption DEF ActivityInit, ActivityTypeOK, Times, Written, WrittenOf, Paths
<1>2. ActivityTypeOK /\ [ActivityNext]_activityVars => ActivityTypeOK'
  <2> SUFFICES ASSUME ActivityTypeOK, [ActivityNext]_activityVars PROVE ActivityTypeOK'
    OBVIOUS
  <2> USE ActivityAssumption DEF ActivityTypeOK, tree, walk, Times
  <2>1. ASSUME NEW a \in Paths, Write(a) PROVE ActivityTypeOK'
    BY <2>1 DEF Write, TreeBecomes, Artifact, WrittenOf
  <2>2. ASSUME NEW a \in Paths, RemoveArtifact(a) PROVE ActivityTypeOK'
    BY <2>2 DEF RemoveArtifact, TreeBecomes, Without, WrittenOf
  <2>3. ASSUME NEW a \in Paths, NEW b \in Paths, Rename(a, b) PROVE ActivityTypeOK'
    BY <2>3 DEF Rename, TreeBecomes, WrittenOf
  <2>4. ASSUME NEW d \in Dirs \cup {Root}, RemoveDir(d) PROVE ActivityTypeOK'
    BY <2>4 DEF RemoveDir, TreeBecomes, WrittenOf
  <2>5. ASSUME NEW d \in Dirs \cup {Root}, List(d) PROVE ActivityTypeOK'
    BY <2>5 DEF List, Entries, AnswerActivity
  <2>6. ASSUME NEW e \in Paths \cup SubDirs, Examine(e) PROVE ActivityTypeOK'
    BY <2>6 DEF Examine, AnswerActivity, SubDirs
  <2>7. CASE BeginWalk
    BY <2>7 DEF BeginWalk, Written, WrittenOf
  <2>8. CASE RefuseWalk \/ CheckRoot \/ JudgeWalk
    BY <2>8 DEF RefuseWalk, CheckRoot, JudgeWalk, AnswerActivity
  <2>9. CASE UNCHANGED activityVars
    BY <2>9 DEF activityVars
  <2> QED BY <2>1, <2>2, <2>3, <2>4, <2>5, <2>6, <2>7, <2>8, <2>9 DEF ActivityNext
<1> QED BY <1>1, <1>2, PTL DEF ActivitySpec

(* ActivityEvidence: runtime_activity.py answers present only for an       *)
(* artifact that had a time in the window while it walked, and absent only *)
(* if no artifact had one all through the walk.                            *)
THEOREM ActivityEvidenceHolds == ActivitySpec => ActivityEvidence
<1>1. ActivityInit => ActivityObservation!Init
  BY ActivityInitObserves
<1>2. ActivityInv /\ ActivityInv' /\
           [ActivityNext]_activityVars => [ActivityObservation!Next]_ActivityObservation!vars
  BY ActivityStepObserves
<1> QED BY <1>1, <1>2, ActivityInvariantHolds, PTL DEF ActivitySpec, ActivityEvidence,
         ActivityObservation!Spec

-----------------------------------------------------------------------------
(* One document: ops/github_activity.py, ops/engine_completion.py.         *)
FactTypeInv ==
  /\ subject \in Probes /\ document \in Documents \cup {None} /\
       opened \in Documents \cup {None}
  /\ factAnswer \in {"none", "present", "absent", "unknown"}

(* The histories bracket what holds now.                                   *)
FactHistoryBrackets == True \subseteq truthSeen /\ truthKept \subseteq True /\ truthSeen \subseteq Probes

(* A file that is open said then what it is read for now.                  *)
OpenedWasSeen == opened # None => HoldsOf(opened) \subseteq truthSeen

(* A probe that is under way has not answered.                             *)
FactNoAnswerYet ==
  /\ turn # "idle" => factAnswer = "none"
  /\ turn = "read" => subject = "completion"
  /\ turn = "read" <=> opened # None

FactInv == FactTypeInv /\ FactHistoryBrackets /\ OpenedWasSeen /\ FactNoAnswerYet

LEMMA FactInitInv == FactInit => FactInv
  BY DEF FactInit, FactInv, FactTypeInv, FactHistoryBrackets, OpenedWasSeen, FactNoAnswerYet,
       Probes, True, HoldsOf

LEMMA FactStepInv == FactInv /\ [FactNext]_factVars => FactInv'
<1> SUFFICES ASSUME FactInv, [FactNext]_factVars PROVE FactInv'
  OBVIOUS
<1> USE DEF FactInv, FactTypeInv, FactHistoryBrackets, OpenedWasSeen, FactNoAnswerYet
<1>1. CASE Revise
  BY <1>1 DEF Revise, True, HoldsOf
<1>2. CASE BeginAsking
  BY <1>2 DEF BeginAsking, True, HoldsOf
<1>3. CASE RefuseAsking
  BY <1>3 DEF RefuseAsking, AnswerFact, True, HoldsOf
<1>4. CASE Ask
  BY <1>4 DEF Ask, AnswerFact, True, HoldsOf
<1>5. CASE Open
  BY <1>5 DEF Open, AnswerFact, True, HoldsOf
<1>6. CASE Read
  BY <1>6 DEF Read, AnswerFact, True, HoldsOf
<1>7. CASE UNCHANGED factVars
  BY <1>7 DEF factVars, True, HoldsOf
<1> QED BY <1>1, <1>2, <1>3, <1>4, <1>5, <1>6, <1>7 DEF FactNext

(* The initial states are initial states of an observation.                *)
LEMMA FactInitObserves == FactInit => FactObservation!Init
  BY DEF FactInit, FactObservation!Init, True, HoldsOf, Probes

(* A file that is read was opened or is there now; of the run asked about  *)
(* and whole, it is a fact that was seen.                                  *)
LEMMA ReadIsSeen ==
  ASSUME FactInv, turn = "read", NEW content \in {opened, document} \ {None},
         SoundDocument([content EXCEPT !.at = opened.at])
  PROVE  truthSeen # {}
<1>1. content \in Documents /\ HoldsOf(content) \subseteq truthSeen
  BY DEF FactInv, FactTypeInv, FactHistoryBrackets, OpenedWasSeen, True
<1>2. content.shape = "valid" /\ content.whose = "asked"
  BY <1>1 DEF SoundDocument, Documents
<1>3. subject \in HoldsOf(content)
  BY <1>2 DEF HoldsOf, FactInv, FactNoAnswerYet
<1> QED BY <1>1, <1>3

(* The evidence of the observer: that anything was seen, or is kept.       *)
LEMMA FactIsEvidence ==
  ASSUME FactInv
  PROVE  /\ (\E e \in {{s} : s \in Probes} : e \subseteq truthSeen) <=> truthSeen # {}
         /\ (\E e \in {{s} : s \in Probes} : e \subseteq truthKept) <=> truthKept # {}
<1>1. truthSeen \in SUBSET Probes /\ truthKept \in SUBSET Probes
  BY DEF FactInv, FactHistoryBrackets
<1> QED BY <1>1, AnyIsEvidence

LEMMA FactStepObserves == FactInv /\
     [FactNext]_factVars => [FactObservation!Next]_FactObservation!vars
<1> SUFFICES ASSUME FactInv, [FactNext]_factVars
    PROVE [FactObservation!Next]_FactObservation!vars
  OBVIOUS
<1> USE DEF FactInv, FactTypeInv, FactHistoryBrackets, FactNoAnswerYet
<1>1. CASE Revise
  <2>1. True' \in SUBSET Probes
    BY <1>1 DEF Revise, True, HoldsOf
  <2>2. True' = HoldsOf(document')
    BY <1>1 DEF Revise, True, HoldsOf
  <2> QED BY <1>1, <2>1, <2>2 DEF Revise, FactObservation!Next, FactObservation!Change
<1>2. CASE BeginAsking
  BY <1>2 DEF BeginAsking, True, HoldsOf, FactObservation!Next, FactObservation!Begin
<1>3. CASE RefuseAsking
  BY <1>3 DEF RefuseAsking, AnswerFact, True, HoldsOf, FactObservation!Next,
       FactObservation!Answer
<1>4. CASE Ask
  <2>1. UNCHANGED <<True, truthSeen, truthKept>> /\ factAnswer = "none"
    BY <1>4 DEF Ask, True, HoldsOf
  <2>2. CASE factAnswer' = "unknown"
    BY <2>1, <2>2 DEF FactObservation!Next, FactObservation!Answer
  <2>3. CASE document # None /\ SoundDocument(document)
    <3>1. CASE document.at = "inside"
      <4>1. subject \in True
        BY <2>3, <3>1 DEF True, HoldsOf, SoundDocument
      <4> QED BY <1>4, <2>1, <2>3, <3>1, <4>1, FactIsEvidence DEF Ask, AnswerFact, FactObservation!Next,
               FactObservation!Answer
    <3>2. CASE document.at # "inside"
      <4>1. True = {}
        BY <1>4, <3>2 DEF Ask, True, HoldsOf
      <4> QED BY <1>4, <2>1, <2>3, <3>2, <4>1, FactIsEvidence DEF Ask, AnswerFact, FactObservation!Next,
               FactObservation!Answer
    <3> QED BY <3>1, <3>2
  <2> QED BY <1>4, <2>2, <2>3 DEF Ask, AnswerFact
<1>5. CASE Open
  <2>1. UNCHANGED <<True, truthSeen, truthKept>> /\ factAnswer = "none"
    BY <1>5 DEF Open, True, HoldsOf
  <2>2. CASE document = None
    <3>1. True = {}
      BY <2>2 DEF True, HoldsOf
    <3> QED BY <1>5, <2>1, <2>2, <3>1, FactIsEvidence DEF Open, AnswerFact, FactObservation!Next,
             FactObservation!Answer
  <2>3. CASE document # None
    BY <1>5, <2>1, <2>3 DEF Open, FactObservation!vars
  <2> QED BY <2>2, <2>3
<1>6. CASE Read
  <2>1. UNCHANGED <<True, truthSeen, truthKept>> /\ factAnswer = "none"
    BY <1>6 DEF Read, True, HoldsOf
  <2>2. PICK content \in {opened, document} \ {None} :
          AnswerFact(IF SoundDocument([content EXCEPT !.at = opened.at]) THEN "present" ELSE "unknown")
    BY <1>6 DEF Read
  <2>3. CASE SoundDocument([content EXCEPT !.at = opened.at])
    <3>1. truthSeen # {}
      BY <1>6, <2>3, ReadIsSeen DEF Read
    <3> QED BY <2>1, <2>2, <2>3, <3>1, FactIsEvidence DEF AnswerFact, FactObservation!Next,
             FactObservation!Answer
  <2>4. CASE ~SoundDocument([content EXCEPT !.at = opened.at])
    BY <2>1, <2>2, <2>4 DEF AnswerFact, FactObservation!Next, FactObservation!Answer
  <2> QED BY <2>3, <2>4
<1>7. CASE UNCHANGED factVars
  BY <1>7 DEF factVars, True, HoldsOf, FactObservation!vars
<1> QED BY <1>1, <1>2, <1>3, <1>4, <1>5, <1>6, <1>7 DEF FactNext

(* The invariant holds in every reachable state.                           *)
THEOREM FactInvariantHolds == FactSpec => []FactInv
<1>1. FactInit => FactInv
  BY FactInitInv
<1>2. FactInv /\ [FactNext]_factVars => FactInv'
  BY FactStepInv
<1> QED BY <1>1, <1>2, PTL DEF FactSpec

(* Every variable of the probe and its document stays in its domain.       *)
THEOREM FactTypeCorrect == FactSpec => []FactTypeOK
<1>1. FactInit => FactTypeOK
  BY FactAssumption DEF FactInit, FactTypeOK, True, HoldsOf, Probes
<1>2. FactTypeOK /\ [FactNext]_factVars => FactTypeOK'
  <2> SUFFICES ASSUME FactTypeOK, [FactNext]_factVars PROVE FactTypeOK'
    OBVIOUS
  <2> USE FactAssumption DEF FactTypeOK
  <2>1. CASE Revise
    BY <2>1 DEF Revise, HoldsOf
  <2>2. CASE BeginAsking
    BY <2>2 DEF BeginAsking, True, HoldsOf
  <2>3. CASE RefuseAsking \/ Ask \/ Open
    BY <2>3 DEF RefuseAsking, Ask, Open, AnswerFact
  <2>4. CASE Read
    BY <2>4 DEF Read, AnswerFact
  <2>5. CASE UNCHANGED factVars
    BY <2>5 DEF factVars
  <2> QED BY <2>1, <2>2, <2>3, <2>4, <2>5 DEF FactNext
<1> QED BY <1>1, <1>2, PTL DEF FactSpec

(* FactEvidence: github_activity.py and engine_completion.py answer        *)
(* present only of what the document said at an instant of the probe, and  *)
(* absent only if there was one at which it did not.                       *)
THEOREM FactEvidenceHolds == FactSpec => FactEvidence
<1>1. FactInit => FactObservation!Init
  BY FactInitObserves
<1>2. FactInv /\ [FactNext]_factVars => [FactObservation!Next]_FactObservation!vars
  BY FactStepObserves
<1> QED BY <1>1, <1>2, FactInvariantHolds, PTL DEF FactSpec, FactEvidence, FactObservation!Spec
=============================================================================

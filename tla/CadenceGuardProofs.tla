------------------------- MODULE CadenceGuardProofs -------------------------
(***************************************************************************)
(* The restart budget of the cadence guard holds for every limit, every    *)
(* declaration layout and every ledger, with crashes at any point.         *)
(***************************************************************************)
EXTENDS CadenceGuard, FiniteSetTheorems, SequenceTheorems, TLAPS

(* A restart that is recorded and not yet invoked.                         *)
Pending(d) == pc = "restart" /\ Restarted = d

(* A guarded round's memory is the ledger.                                 *)
MemoryIsLedger == limit # 0 => history = ledger

(* Identities still to judge belong to the declaration at hand, and only   *)
(* a guarded round judges.                                                 *)
JudgesHere ==
  /\ todo \subseteq Declares[here]
  /\ pc \in {"judge", "restart"} => limit # 0
  /\ pc = "observe" => limit = 0
  /\ pc = "restart" => history # <<>> /\ Restarted \in Deployments

(* Every invoked restart has a record of its own in the current streak.    *)
TriedIsRecorded ==
  \A d \in Deployments :
    tried[d] + (IF Pending(d) THEN 1 ELSE 0) <= PriorStoppedStreak(ledger, d)

Budget ==
  \A d \in Deployments : tried[d] + (IF Pending(d) THEN 1 ELSE 0) <= Limit

(* The restart that is about to be invoked is of the last record.          *)
LastIsAttempt ==
  pc = "restart" =>
    LET r == ledger[Len(ledger)]
    IN  /\ ledger # <<>>
        /\ Restarted = r.id /\ r.id \in Declares[r.decl]
        /\ StoppedFor(r, r.id) /\ r.guard = "attempted"

IInv ==
  /\ TypeOK
  /\ MemoryIsLedger
  /\ JudgesHere
  /\ TriedIsRecorded
  /\ Budget

-----------------------------------------------------------------------------
(* The streak of d after one more record: longer by one, empty or as it    *)
(* was.                                                                    *)
LEMMA RelevantFinite ==
  ASSUME NEW records \in Seq(Records), NEW d \in Deployments
  PROVE  /\ IsFiniteSet(Streak(records, d))
         /\ PriorStoppedStreak(records, d) \in Nat
<1>1. IsFiniteSet(1..Len(records))
  BY FS_Interval, LenProperties
<1>2. Streak(records, d) \subseteq 1..Len(records)
  BY LenProperties DEF Streak, Relevant
<1>3. IsFiniteSet(Streak(records, d))
  BY <1>1, <1>2, FS_Subset
<1>q. QED BY <1>3, FS_CardinalityType DEF PriorStoppedStreak

LEMMA RelevantAppend ==
  ASSUME NEW records \in Seq(Records), NEW r \in Records, NEW d \in Deployments
  PROVE  Relevant(Append(records, r), d) =
           Relevant(records, d) \cup
             (IF d \in Declares[r.decl] /\ r.id \in {NoId, d}
                THEN {Len(records) + 1} ELSE {})
  BY AppendProperties, LenProperties DEF Relevant

LEMMA StreakAppend ==
  ASSUME NEW records \in Seq(Records), NEW r \in Records, NEW d \in Deployments
  PROVE  Streak(Append(records, r), d) =
           IF d \in Declares[r.decl] /\ r.id \in {NoId, d}
             THEN IF StoppedFor(r, d) THEN Streak(records, d) \cup {Len(records) + 1} ELSE {}
             ELSE Streak(records, d)
<1> DEFINE n == Len(records)
           longer == Append(records, r)
<1>1. n \in Nat /\ DOMAIN records = 1..n
  BY LenProperties
<1>2. longer[n + 1] = r /\ \A i \in 1..n : longer[i] = records[i]
  BY AppendProperties
<1>3. Relevant(records, d) \subseteq 1..n
  BY <1>1 DEF Relevant
<1>4. CASE d \in Declares[r.decl] /\ r.id \in {NoId, d}
  <2>1. Relevant(longer, d) = Relevant(records, d) \cup {n + 1}
    BY <1>4, RelevantAppend
  <2>2. CASE StoppedFor(r, d)
    BY <1>1, <1>2, <1>3, <1>4, <2>1, <2>2 DEF Streak
  <2>3. CASE ~StoppedFor(r, d)
    BY <1>1, <1>2, <1>3, <1>4, <2>1, <2>3 DEF Streak
  <2>q. QED BY <2>2, <2>3
<1>5. CASE ~(d \in Declares[r.decl] /\ r.id \in {NoId, d})
  <2>1. Relevant(longer, d) = Relevant(records, d)
    BY ZenonT(30), <1>5, RelevantAppend
  <2>q. QED BY <1>1, <1>2, <1>3, <1>5, <2>1 DEF Streak
<1>q. QED BY <1>4, <1>5

LEMMA StreakLengthAppend ==
  ASSUME NEW records \in Seq(Records), NEW r \in Records, NEW d \in Deployments
  PROVE  PriorStoppedStreak(Append(records, r), d) =
           IF d \in Declares[r.decl] /\ r.id \in {NoId, d}
             THEN IF StoppedFor(r, d) THEN PriorStoppedStreak(records, d) + 1 ELSE 0
             ELSE PriorStoppedStreak(records, d)
<1>1. Len(records) + 1 \notin Streak(records, d)
  BY LenProperties DEF Streak, Relevant
<1>2. Cardinality(Streak(records, d) \cup {Len(records) + 1})
        = Cardinality(Streak(records, d)) + 1
  BY <1>1, RelevantFinite, FS_AddElement
<1>3. Cardinality({}) = 0
  BY FS_EmptySet
<1>q. QED BY <1>2, <1>3, StreakAppend DEF PriorStoppedStreak

-----------------------------------------------------------------------------
LEMMA InitInvariant == Init => IInv
<1>1. \A d \in Deployments : PriorStoppedStreak(<<>>, d) = 0
  <2>1. \A d \in Deployments : Streak(<<>>, d) = {}
    BY DEF Streak, Relevant
  <2>q. QED BY <2>1, FS_EmptySet DEF PriorStoppedStreak
<1>2. ASSUME Init PROVE TypeOK
  BY <1>2, CadenceAssumption, EmptySeq DEF Init, TypeOK, States
<1>3. ASSUME Init PROVE MemoryIsLedger /\ JudgesHere
  BY <1>3 DEF Init, MemoryIsLedger, JudgesHere
<1>4. ASSUME Init PROVE TriedIsRecorded /\ Budget
  <2>1. ASSUME NEW d \in Deployments
        PROVE  ~Pending(d) /\ tried[d] = 0 /\ PriorStoppedStreak(ledger, d) = 0
    BY <1>1, <1>4 DEF Init, Pending
  <2>q. QED BY <2>1, CadenceAssumption DEF TriedIsRecorded, Budget
<1>q. QED BY <1>2, <1>3, <1>4 DEF IInv

(* A record that reaches the ledger keeps the ghost count below the streak *)
(* and the budget.                                                         *)
LEMMA RecordKeepsCounts ==
  ASSUME IInv, NEW r \in Records, pc # "restart",
         ledger' = Append(ledger, r), Recount(r)
  PROVE  /\ ledger' \in Seq(Records)
         /\ tried' \in [Deployments -> Nat]
         /\ \A d \in Deployments :
              /\ tried'[d] <= Limit
              /\ tried'[d] <= PriorStoppedStreak(ledger', d)
              /\ d \in Declares[r.decl] /\ r.id \in {NoId, d} /\ StoppedFor(r, d) =>
                   PriorStoppedStreak(ledger', d) = PriorStoppedStreak(ledger, d) + 1
<1> USE DEF IInv, TypeOK, TriedIsRecorded, Budget, Pending
<1>1. ledger' \in Seq(Records)
  BY AppendProperties
<1>2. ASSUME NEW d \in Deployments
      PROVE  (1 \in Relevant(<<r>>, d)) <=> (d \in Declares[r.decl] /\ r.id \in {NoId, d})
  BY DEF Relevant
<1>3. \A d \in Deployments :
        tried'[d] = IF d \in Declares[r.decl] /\ r.id \in {NoId, d} /\ ~StoppedFor(r, d)
                      THEN 0 ELSE tried[d]
  BY <1>2 DEF Recount
<1>4. tried' \in [Deployments -> Nat]
  BY DEF Recount
<1>5. ASSUME NEW d \in Deployments
      PROVE  /\ tried'[d] <= Limit
             /\ tried'[d] <= PriorStoppedStreak(ledger', d)
             /\ d \in Declares[r.decl] /\ r.id \in {NoId, d} /\ StoppedFor(r, d) =>
                  PriorStoppedStreak(ledger', d) = PriorStoppedStreak(ledger, d) + 1
  <2>1. tried[d] \in Nat /\ tried[d] <= Limit /\ tried[d] <= PriorStoppedStreak(ledger, d)
    OBVIOUS
  <2>2. PriorStoppedStreak(ledger, d) \in Nat
    BY RelevantFinite
  <2>3. PriorStoppedStreak(ledger', d) =
          IF d \in Declares[r.decl] /\ r.id \in {NoId, d}
            THEN IF StoppedFor(r, d) THEN PriorStoppedStreak(ledger, d) + 1 ELSE 0
            ELSE PriorStoppedStreak(ledger, d)
    BY StreakLengthAppend
  <2>q. QED BY <1>3, <2>1, <2>2, <2>3, CadenceAssumption
<1>q. QED BY <1>1, <1>4, <1>5

LEMMA RecordOfType ==
  ASSUME TypeOK, NEW d \in Deployments
  PROVE  RecordOf(d) \in Records
  BY CadenceAssumption DEF RecordOf, Records, Guard, TypeOK, States

LEMMA ObserveInvariant ==
  ASSUME IInv, Observe
  PROVE  IInv'
<1> USE DEF IInv
<1>1. PICK e \in Declares[here] \cup {NoId} :
        LET record == [decl |-> here, id |-> NoId, of |-> e,
                       state |-> IF e = NoId THEN "UNKNOWN" ELSE status[e],
                       guard |-> "none"]
        IN  Append1(record) /\ Recount(record)
  BY DEF Observe
<1> DEFINE record == [decl |-> here, id |-> NoId, of |-> e,
                      state |-> IF e = NoId THEN "UNKNOWN" ELSE status[e],
                      guard |-> "none"]
<1>2. /\ pc = "observe" /\ pc' = "visit" /\ limit = 0
      /\ UNCHANGED <<torn, limit, history, left, here, todo, status>>
  BY DEF Observe, JudgesHere
<1>3. record \in Records
  <2>1. e \in Deployments \cup {NoId} /\ here \in Declarations
    BY CadenceAssumption DEF TypeOK
  <2>2. (IF e = NoId THEN "UNKNOWN" ELSE status[e]) \in States
    BY <2>1 DEF TypeOK, States
  <2>q. QED BY <2>1, <2>2 DEF Records
<1>4. ledger' = Append(ledger, record) /\ Recount(record)
  BY <1>1 DEF Append1
<1>5. /\ ledger' \in Seq(Records)
      /\ tried' \in [Deployments -> Nat]
      /\ \A d \in Deployments :
           tried'[d] <= Limit /\ tried'[d] <= PriorStoppedStreak(ledger', d)
  BY <1>2, <1>3, <1>4, RecordKeepsCounts
<1>q. QED
  BY <1>2, <1>5
  DEF TypeOK, MemoryIsLedger, JudgesHere, TriedIsRecorded, Budget, Pending

LEMMA JudgeInvariant ==
  ASSUME IInv, NEW d \in Deployments, Judge(d)
  PROVE  IInv'
<1> USE DEF IInv
<1> DEFINE r == RecordOf(d)
<1>1. /\ pc = "judge" /\ d \in todo /\ limit # 0 /\ limit = Limit
      /\ pc' = IF Guard(d) = "attempted" THEN "restart" ELSE "judge"
      /\ todo' = todo \ {d} /\ history' = Append(history, r)
      /\ ledger' = Append(ledger, r) /\ Recount(r)
      /\ UNCHANGED <<torn, limit, left, here, status>>
  BY DEF Judge, JudgesHere, Append1, TypeOK
<1>2. history = ledger /\ d \in Declares[here] /\ r \in Records
  BY <1>1, RecordOfType DEF MemoryIsLedger, JudgesHere
<1>3. /\ ledger' \in Seq(Records)
      /\ tried' \in [Deployments -> Nat]
      /\ \A e \in Deployments :
           /\ tried'[e] <= Limit
           /\ tried'[e] <= PriorStoppedStreak(ledger', e)
           /\ e \in Declares[r.decl] /\ r.id \in {NoId, e} /\ StoppedFor(r, e) =>
                PriorStoppedStreak(ledger', e) = PriorStoppedStreak(ledger, e) + 1
  BY <1>1, <1>2, RecordKeepsCounts
<1>4. history' = ledger' /\ history' # <<>> /\ Restarted' = d
  <2>1. Len(history') = Len(history) + 1 /\ history'[Len(history) + 1] = r
    BY <1>1, <1>2, AppendProperties DEF TypeOK
  <2>2. history' # <<>>
    BY <2>1, LenProperties, EmptySeq, <1>2 DEF TypeOK
  <2>q. QED BY <1>1, <1>2, <2>1, <2>2 DEF Restarted, RecordOf
<1>5. ASSUME Guard(d) = "attempted"
      PROVE  /\ tried'[d] + 1 <= Limit
             /\ tried'[d] + 1 <= PriorStoppedStreak(ledger', d)
  <2>1. StoppedFor(r, d) /\ r.decl = here /\ r.id = d
    BY <1>5 DEF Guard, RecordOf, StoppedFor
  <2>2. PriorStoppedStreak(ledger, d) < Limit
    BY <1>1, <1>2, <1>5 DEF Guard
  <2>3. tried'[d] = tried[d]
    BY <1>1, <1>2, <2>1 DEF Recount, TypeOK
  <2>4. tried[d] <= PriorStoppedStreak(ledger, d)
    BY <1>1 DEF TriedIsRecorded, Pending, TypeOK
  <2>5. PriorStoppedStreak(ledger', d) = PriorStoppedStreak(ledger, d) + 1
    BY <1>2, <1>3, <2>1
  <2>6. PriorStoppedStreak(ledger, d) \in Nat /\ tried[d] \in Nat
    BY RelevantFinite DEF TypeOK
  <2>q. QED BY <2>2, <2>3, <2>4, <2>5, <2>6, CadenceAssumption
<1>6. TypeOK'
  BY <1>1, <1>2, <1>3, <1>4 DEF TypeOK
<1>7. MemoryIsLedger' /\ JudgesHere'
  BY <1>1, <1>4 DEF MemoryIsLedger, JudgesHere
<1>8. \A e \in Deployments : Pending(e)' <=> (Guard(d) = "attempted" /\ e = d)
  BY <1>1, <1>4 DEF Pending
<1>9. TriedIsRecorded' /\ Budget'
  BY <1>3, <1>5, <1>8 DEF TriedIsRecorded, Budget
<1>q. QED BY <1>6, <1>7, <1>9

LEMMA RestartInvariant ==
  ASSUME IInv, Restart
  PROVE  IInv'
<1> USE DEF IInv
<1>1. /\ pc = "restart" /\ pc' = "judge" /\ Restarted \in Deployments
      /\ tried' = [tried EXCEPT ![Restarted] = @ + 1]
      /\ UNCHANGED <<ledger, torn, limit, history, left, here, todo, status>>
  BY DEF Restart, JudgesHere
<1>2. \A d \in Deployments : tried'[d] = tried[d] + (IF Pending(d) THEN 1 ELSE 0)
  BY <1>1 DEF Pending, TypeOK
<1>3. \A d \in Deployments : ~Pending(d)'
  BY <1>1 DEF Pending
<1>4. \A d \in Deployments : PriorStoppedStreak(ledger', d) = PriorStoppedStreak(ledger, d)
  BY <1>1
<1>5. tried' \in [Deployments -> Nat]
  BY <1>1 DEF TypeOK
<1>6. \A d \in Deployments : tried'[d] + 0 = tried'[d]
  BY <1>5
<1>7. TriedIsRecorded'
  BY <1>2, <1>3, <1>4, <1>6 DEF TriedIsRecorded
<1>8. Budget'
  BY <1>2, <1>3, <1>6 DEF Budget
<1>q. QED
  BY <1>1, <1>5, <1>7, <1>8 DEF TypeOK, MemoryIsLedger, JudgesHere

(* The steps that neither record nor restart.                              *)
LEMMA OtherInvariant ==
  ASSUME IInv,
         \/ \E n \in {0, Limit} : BeginRound(n)
         \/ EndRound \/ JudgeEnd \/ RoundDies
         \/ \E d \in Declarations : Visit(d)
         \/ UNCHANGED vars
  PROVE  IInv'
<1> USE DEF IInv
<1>1. UNCHANGED <<ledger, tried>>
  BY DEF BeginRound, EndRound, JudgeEnd, RoundDies, Visit, vars
<1>2. (pc' # "restart") \/ UNCHANGED vars
  BY DEF BeginRound, EndRound, JudgeEnd, RoundDies, Visit, EndOfProcess
<1>3. TriedIsRecorded' /\ Budget'
  <2>1. CASE UNCHANGED vars
    BY <2>1 DEF vars, roundVars, TriedIsRecorded, Budget, Pending, Restarted
  <2>2. CASE pc' # "restart"
    <3>1. ASSUME NEW d \in Deployments
          PROVE  /\ ~Pending(d)'
                 /\ tried'[d] <= Limit
                 /\ tried'[d] <= PriorStoppedStreak(ledger', d)
                 /\ tried'[d] \in Nat
      <4>1. tried[d] \in Nat /\ PriorStoppedStreak(ledger, d) \in Nat
        BY RelevantFinite DEF TypeOK
      <4>2. tried[d] <= Limit /\ tried[d] <= PriorStoppedStreak(ledger, d)
        BY <4>1, CadenceAssumption DEF TriedIsRecorded, Budget
      <4>q. QED BY <1>1, <2>2, <4>1, <4>2 DEF Pending
    <3>q. QED BY <3>1 DEF TriedIsRecorded, Budget
  <2>q. QED BY <1>2, <2>1, <2>2
<1>4. TypeOK' /\ MemoryIsLedger' /\ JudgesHere'
  <2> USE DEF TypeOK, MemoryIsLedger, JudgesHere
  <2>1. CASE \E n \in {0, Limit} : BeginRound(n)
    BY <2>1, CadenceAssumption, EmptySeq DEF BeginRound
  <2>2. CASE EndRound \/ RoundDies
    BY <2>2, EmptySeq DEF EndRound, RoundDies, EndOfProcess, States
  <2>3. CASE JudgeEnd
    BY <2>3 DEF JudgeEnd
  <2>4. CASE \E d \in Declarations : Visit(d)
    BY <2>4, CadenceAssumption DEF Visit, States
  <2>5. CASE UNCHANGED vars
    BY <2>5 DEF vars, roundVars, Restarted
  <2>q. QED BY <2>1, <2>2, <2>3, <2>4, <2>5
<1>q. QED BY <1>3, <1>4

LEMMA StepInvariant == IInv /\ [Next]_vars => IInv'
  BY ObserveInvariant, JudgeInvariant, RestartInvariant, OtherInvariant
  DEF Next, Round

(* The inductive invariant holds in every reachable state.                 *)
THEOREM InvariantHolds == Spec => []IInv
  BY InitInvariant, StepInvariant, PTL DEF Spec

(* A deployment that stays STOPPED is restarted at most Limit times, for   *)
(* every limit, layout and history, with rounds dying anywhere.            *)
THEOREM AttemptsBoundedHolds == Spec => []AttemptsBounded
<1>1. IInv => AttemptsBounded
  <2> SUFFICES ASSUME IInv, NEW d \in Deployments
               PROVE  tried[d] <= Limit
    BY DEF AttemptsBounded
  <2>1. tried[d] \in Nat /\ Limit \in Nat
    BY CadenceAssumption DEF IInv, TypeOK
  <2>q. QED BY <2>1 DEF IInv, Budget
<1>q. QED BY InvariantHolds, <1>1, PTL

(* Every variable stays in its domain.                                     *)
THEOREM TypeCorrect == Spec => []TypeOK
<1>1. IInv => TypeOK
  BY DEF IInv
<1>q. QED BY InvariantHolds, <1>1, PTL

(* The record of one deployment leaves the streaks of the others, and with *)
(* them the restarts they have left, as they were.                         *)
THEOREM BudgetIsolatedHolds == Spec => BudgetIsolated
<1>1. ASSUME IInv, NEW d \in Deployments, NEW e \in Deployments, Judge(d), e # d
      PROVE  PriorStoppedStreak(ledger', e) = PriorStoppedStreak(ledger, e)
  <2>1. ledger' = Append(ledger, RecordOf(d)) /\ RecordOf(d) \in Records
    BY <1>1, RecordOfType DEF Judge, Append1, IInv
  <2>2. RecordOf(d).id = d /\ d # NoId
    BY CadenceAssumption DEF RecordOf
  <2>q. QED BY <1>1, <2>1, <2>2, StreakLengthAppend DEF IInv, TypeOK
<1>2. IInv /\ [Next]_vars =>
        [\A d, e \in Deployments : Judge(d) /\ e # d =>
           PriorStoppedStreak(ledger', e) = PriorStoppedStreak(ledger, e)]_vars
  BY <1>1
<1>q. QED BY <1>2, InvariantHolds, PTL DEF Spec, BudgetIsolated

LEMMA LastIsAttemptStep == IInv /\ LastIsAttempt /\ [Next]_vars => LastIsAttempt'
<1> SUFFICES ASSUME IInv, LastIsAttempt, [Next]_vars PROVE LastIsAttempt'
  OBVIOUS
<1>1. CASE UNCHANGED vars
  BY <1>1 DEF vars, roundVars, LastIsAttempt, Restarted
<1>2. ASSUME NEW d \in Deployments, Judge(d), pc' = "restart" PROVE LastIsAttempt'
  <2> DEFINE r == RecordOf(d)
  <2>1. /\ ledger' = Append(ledger, r) /\ history' = Append(history, r) /\ history = ledger
        /\ Guard(d) = "attempted" /\ d \in Declares[here]
    BY <1>2 DEF Judge, Append1, IInv, MemoryIsLedger, JudgesHere
  <2>2. /\ ledger' = history' /\ ledger' # <<>> /\ ledger'[Len(ledger')] = r
    BY <2>1, RecordOfType, AppendProperties DEF IInv, TypeOK
  <2>3. StoppedFor(r, r.id) /\ r.guard = "attempted" /\ r.id \in Declares[r.decl]
    BY <2>1 DEF RecordOf, Guard, StoppedFor
  <2>q. QED BY <2>2, <2>3 DEF LastIsAttempt, Restarted
<1>3. CASE pc' # "restart"
  BY <1>3 DEF LastIsAttempt
<1>q. QED
  BY <1>1, <1>2, <1>3
  DEF Next, Round, BeginRound, EndRound, EndOfProcess, Observe, JudgeEnd, Restart, Visit,
      RoundDies

(* A restart is invoked only of the deployment of the last record, which   *)
(* saw it STOPPED, is part of its streak and says that it is attempted.    *)
THEOREM RestartIsRecordedHolds == Spec => RestartIsRecorded
<1> DEFINE Recorded(d) ==
      \E i \in Streak(ledger, d) : i = Len(ledger) /\ ledger[i].guard = "attempted"
<1>1. Init => LastIsAttempt
  BY DEF Init, LastIsAttempt
<1>2. ASSUME IInv, LastIsAttempt, Next, NEW d \in Deployments, tried'[d] > tried[d]
      PROVE  Recorded(d)
  <2>1. tried \in [Deployments -> Nat] /\ ledger \in Seq(Records)
    BY <1>2 DEF IInv, TypeOK
  <2>2. Restart
    <3>1. CASE UNCHANGED tried
      BY <1>2, <2>1, <3>1
    <3>2. ASSUME NEW r, Recount(r) PROVE FALSE
      BY <1>2, <2>1, <3>2 DEF Recount
    <3>q. QED
      BY <1>2, <3>1, <3>2
      DEF Next, Round, BeginRound, EndRound, Observe, Judge, JudgeEnd, Visit, RoundDies
  <2>3. Restarted = d
    BY <1>2, <2>1, <2>2 DEF Restart
  <2> DEFINE n == Len(ledger)
  <2>4. /\ n \in Nat /\ n # 0 /\ DOMAIN ledger = 1..n
    BY <1>2, <2>1, <2>2, LenProperties, EmptySeq DEF LastIsAttempt, Restart
  <2>5. /\ ledger[n].id = d /\ d \in Declares[ledger[n].decl]
        /\ StoppedFor(ledger[n], d) /\ ledger[n].guard = "attempted"
    BY <1>2, <2>2, <2>3 DEF LastIsAttempt, Restart
  <2>6. n \in Streak(ledger, d)
    BY <2>4, <2>5 DEF Streak, Relevant
  <2>q. QED BY <2>5, <2>6
<1>3. IInv /\ LastIsAttempt /\ [Next]_vars =>
        [\A d \in Deployments : tried'[d] > tried[d] =>
           \E i \in Streak(ledger, d) :
             /\ i = Len(ledger)
             /\ ledger[i].guard = "attempted"]_vars
  BY <1>2
<1>q. QED
  BY <1>1, <1>3, LastIsAttemptStep, InvariantHolds, PTL DEF Spec, RestartIsRecorded
=============================================================================

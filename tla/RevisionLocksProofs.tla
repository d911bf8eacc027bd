------------------------- MODULE RevisionLocksProofs -------------------------
(***************************************************************************)
(* The launch-lock protocol keeps lock identity and never touches the      *)
(* files of a running child, for any number of operators, children and     *)
(* revisions, in both artifact families.                                   *)
(***************************************************************************)
EXTENDS RevisionLocks, TLAPS

(* flock on the guard: one cleanup section at a time, and no launch opens  *)
(* a lock file during it.                                                  *)
GuardExcludes ==
  \A o, p \in Operators :
    pc[o] \in ExclusiveGuardPhases =>
      /\ pc[p] \in ExclusiveGuardPhases => o = p
      /\ pc[p] \notin SharedGuardPhases

(* What an operator works on is defined by the time it uses it.            *)
WorkDefined ==
  \A o \in Operators :
    /\ pc[o] # "idle" => rev[o] \in Revisions /\ owner[o] \in Deployments
    /\ pc[o] \in ExclusiveGuardPhases \cup {"x_guard"} => target[o] \in Revisions

(* An operator past the open holds the inode the lock path names.          *)
DescriptorCurrent ==
  \A o \in Operators :
    /\ pc[o] \in {"s_lock", "fork"} => fd[o] = path[rev[o]] /\ fd[o] # 0
    /\ pc[o] \in ExclusiveLockPhases \cup {"x_lock"} =>
         fd[o] = path[target[o]] /\ fd[o] # 0

(* While a cleanup holds a revision's lock exclusively nobody holds it     *)
(* shared: neither a launch about to fork nor a child.                     *)
RemovalAlone ==
  \A o \in Operators :
    pc[o] \in ExclusiveLockPhases =>
      /\ \A p \in Operators : pc[p] = "fork" => rev[p] # target[o]
      /\ \A c \in LiveChildren : crev[c] # target[o]

ChildDefined == \A c \in LiveChildren : crev[c] \in Revisions

(* A running child's revision still passes the checks made at its launch.  *)
RunningRevisionValid == \A c \in Children : cstate[c] = "running" => Valid(crev[c])

IInv ==
  /\ TypeOK
  /\ GuardExcludes
  /\ WorkDefined
  /\ DescriptorCurrent
  /\ RemovalAlone
  /\ ChildDefined
  /\ LockIdentity
  /\ RunningRevisionValid

-----------------------------------------------------------------------------
OperatorStep(o) ==
  LaunchStep(o) \/ OperatorDies(o) \/ \E d \in Deployments : Begin(o, d)

LEMMA InitInvariant == Init => IInv
  BY RevisionLocksAssumption
  DEF Init, IInv, TypeOK, GuardExcludes, WorkDefined, DescriptorCurrent,
      RemovalAlone, ChildDefined, LockIdentity, RunningRevisionValid,
      LiveChildren, Contents, Phases, SharedGuardPhases, ExclusiveGuardPhases,
      ExclusiveLockPhases

(* Every operator step keeps the variables in their domains.               *)
LEMMA OperatorTypeOK ==
  ASSUME TypeOK, WorkDefined, NEW o \in Operators, OperatorStep(o)
  PROVE  TypeOK'
<1> USE RevisionLocksAssumption
    DEF TypeOK, WorkDefined, At, GoTo, Contents, Phases, SharedGuardPhases,
        ExclusiveGuardPhases, childVars
<1>1. CASE SweepNext(o)
  BY <1>1 DEF SweepNext, StartRemoval, Stale
<1>2. CASE SweepEnd(o)
  BY <1>2 DEF SweepEnd
<1>3. CASE GuardForRemoval(o)
  BY <1>3 DEF GuardForRemoval
<1>4. CASE OpenForRemoval(o)
  BY <1>4 DEF OpenForRemoval, OpenLock
<1>5. CASE LockBusy(o)
  BY <1>5 DEF LockBusy, EndRemoval, Stale
<1>6. CASE LockExclusive(o)
  BY <1>6 DEF LockExclusive
<1>7. CASE RemoveBegin(o)
  BY <1>7 DEF RemoveBegin
<1>8. CASE RemoveEnd(o)
  BY <1>8 DEF RemoveEnd
<1>9. CASE UnlinkLock(o)
  BY <1>9 DEF UnlinkLock, EndRemoval, Stale
<1>10. CASE Build(o)
  BY <1>10 DEF Build, StartRemoval
<1>11. CASE Materialise(o)
  BY <1>11 DEF Materialise
<1>12. CASE Verify(o)
  BY <1>12 DEF Verify
<1>13. CASE GuardForLaunch(o)
  BY <1>13 DEF GuardForLaunch
<1>14. CASE OpenForLaunch(o)
  BY <1>14 DEF OpenForLaunch, OpenLock
<1>15. CASE LockShared(o)
  BY <1>15 DEF LockShared
<1>16. CASE ForkFails(o)
  BY <1>16 DEF ForkFails
<1>17. CASE \E c \in Children : Fork(o, c)
  BY <1>17 DEF Fork
<1>18. CASE OperatorDies(o)
  BY <1>18 DEF OperatorDies
<1>19. CASE \E d \in Deployments : Begin(o, d)
  BY <1>19 DEF Begin
<1>q. QED BY <1>1, <1>2, <1>3, <1>4, <1>5, <1>6, <1>7, <1>8, <1>9, <1>10, <1>11, <1>12, <1>13, <1>14, <1>15, <1>16, <1>17, <1>18, <1>19
     DEF OperatorStep, LaunchStep

(* Every operator step keeps the invariant.                                *)
LEMMA OperatorInvariant ==
  ASSUME IInv, NEW o \in Operators, OperatorStep(o)
  PROVE  IInv'
<1> USE DEF IInv, GuardExcludes, WorkDefined, DescriptorCurrent, RemovalAlone,
        ChildDefined, LockIdentity, RunningRevisionValid, LiveChildren, Valid,
        At, GoTo, SharedGuardPhases, ExclusiveGuardPhases, ExclusiveLockPhases,
        childVars
<1>0. TypeOK'
  BY OperatorTypeOK
<1>1. CASE SweepNext(o)
  BY <1>0, <1>1, RevisionLocksAssumption DEF SweepNext, TypeOK, StartRemoval, Stale
<1>2. CASE SweepEnd(o)
  BY <1>0, <1>2, RevisionLocksAssumption DEF SweepEnd, TypeOK
<1>3. CASE GuardForRemoval(o)
  BY <1>0, <1>3, RevisionLocksAssumption DEF GuardForRemoval, TypeOK, GuardShared, GuardExclusive
<1>4. CASE OpenForRemoval(o)
  BY <1>0, <1>4, RevisionLocksAssumption DEF OpenForRemoval, TypeOK, OpenLock
<1>5. CASE LockBusy(o)
  BY <1>0, <1>5, RevisionLocksAssumption DEF LockBusy, TypeOK, EndRemoval, Stale
<1>6. CASE LockExclusive(o)
  BY <1>0, <1>6, RevisionLocksAssumption DEF LockExclusive, TypeOK, SharedHeld
<1>7. CASE RemoveBegin(o)
  BY <1>0, <1>7, RevisionLocksAssumption DEF RemoveBegin, TypeOK
<1>8. CASE RemoveEnd(o)
  BY <1>0, <1>8, RevisionLocksAssumption DEF RemoveEnd, TypeOK
<1>9. CASE UnlinkLock(o)
  BY SMTT(30), <1>0, <1>9, RevisionLocksAssumption DEF UnlinkLock, TypeOK, EndRemoval, Stale
<1>10. CASE Build(o)
  BY <1>0, <1>10, RevisionLocksAssumption DEF Build, TypeOK, StartRemoval
<1>11. CASE Materialise(o)
  BY <1>0, <1>11, RevisionLocksAssumption DEF Materialise, TypeOK
<1>12. CASE Verify(o)
  BY <1>0, <1>12, RevisionLocksAssumption DEF Verify, TypeOK
<1>13. CASE GuardForLaunch(o)
  BY <1>0, <1>13, RevisionLocksAssumption DEF GuardForLaunch, TypeOK, GuardExclusive
<1>14. CASE OpenForLaunch(o)
  BY <1>0, <1>14, RevisionLocksAssumption DEF OpenForLaunch, TypeOK, OpenLock
<1>15. CASE LockShared(o)
  BY <1>0, <1>15, RevisionLocksAssumption DEF LockShared, TypeOK
<1>16. CASE ForkFails(o)
  BY <1>0, <1>16, RevisionLocksAssumption DEF ForkFails, TypeOK
<1>17. CASE \E c \in Children : Fork(o, c)
  BY <1>0, <1>17, RevisionLocksAssumption DEF Fork, TypeOK
<1>18. CASE OperatorDies(o)
  BY <1>0, <1>18, RevisionLocksAssumption DEF OperatorDies, TypeOK
<1>19. CASE \E d \in Deployments : Begin(o, d)
  BY <1>0, <1>19, RevisionLocksAssumption DEF Begin, TypeOK
<1>q. QED BY <1>1, <1>2, <1>3, <1>4, <1>5, <1>6, <1>7, <1>8, <1>9, <1>10, <1>11, <1>12, <1>13, <1>14, <1>15, <1>16, <1>17, <1>18, <1>19
     DEF OperatorStep, LaunchStep

LEMMA StepInvariant == IInv /\ [Next]_vars => IInv'
<1> SUFFICES ASSUME IInv, [Next]_vars
             PROVE  IInv'
  OBVIOUS
<1> USE DEF IInv
<1>1. CASE \E o \in Operators : OperatorStep(o)
  BY <1>1, OperatorInvariant
<1>2. ASSUME NEW c \in Children, ContractPasses(c) \/ ChildExits(c)
      PROVE  IInv'
  <2> USE DEF TypeOK, GuardExcludes, WorkDefined, DescriptorCurrent,
        RemovalAlone, ChildDefined, LockIdentity, RunningRevisionValid,
        LiveChildren, Valid, opVars
  <2>1. CASE ContractPasses(c)
    BY <2>1 DEF ContractPasses
  <2>2. CASE ChildExits(c)
    BY <2>2 DEF ChildExits
  <2>q. QED BY <1>2, <2>1, <2>2
<1>3. ASSUME NEW d \in Deployments, Move(d)
      PROVE  IInv'
  BY <1>3, RevisionLocksAssumption
  DEF Move, TypeOK, GuardExcludes, WorkDefined, DescriptorCurrent,
      RemovalAlone, ChildDefined, LockIdentity, RunningRevisionValid,
      LiveChildren, Valid, opVars, childVars
<1>4. CASE UNCHANGED vars
  BY <1>4
  DEF vars, TypeOK, GuardExcludes, WorkDefined, DescriptorCurrent,
      RemovalAlone, ChildDefined, LockIdentity, RunningRevisionValid,
      LiveChildren, Valid, opVars, childVars
<1>q. QED
  BY <1>1, <1>2, <1>3, <1>4 DEF Next, OperatorStep

(* The inductive invariant holds in every reachable state.                 *)
THEOREM InvariantHolds == Spec => []IInv
  BY InitInvariant, StepInvariant, PTL DEF Spec

(* Type correctness.                                                       *)
THEOREM TypeCorrect == Spec => []TypeOK
<1>1. IInv => TypeOK
  BY DEF IInv
<1>q. QED BY InvariantHolds, <1>1, PTL

(* Internal cleanup cannot split lock identity: whatever the interleaving  *)
(* of launches, cleanups, rebuilds and crashes, the lock a live child      *)
(* holds is the lock a cleanup will try.                                   *)
THEOREM LockIdentityHolds == Spec => []LockIdentity
<1>1. IInv => LockIdentity
  BY DEF IInv
<1>q. QED BY InvariantHolds, <1>1, PTL

(* No step touches the files of a running child's revision.                *)
THEOREM RunningRevisionUntouchedHolds == Spec => RunningRevisionUntouched
<1>1. ASSUME IInv, [Next]_vars, NEW c \in Children, cstate[c] = "running"
      PROVE  content'[crev[c]] = content[crev[c]]
  <2> USE <1>1 DEF IInv, WorkDefined, RemovalAlone, ChildDefined,
        RunningRevisionValid, LiveChildren, Valid, ExclusiveLockPhases,
        ExclusiveGuardPhases, At
  <2>1. c \in LiveChildren /\ crev[c] \in Revisions /\ Valid(crev[c])
    OBVIOUS
  <2>2. ASSUME NEW o \in Operators, LaunchStep(o)
        PROVE  content'[crev[c]] = content[crev[c]]
    BY <2>1, <2>2
    DEF LaunchStep, SweepNext, SweepEnd, GuardForRemoval, OpenForRemoval,
        LockBusy, LockExclusive, RemoveBegin, RemoveEnd, UnlinkLock, Build,
        Materialise, Verify, GuardForLaunch, OpenForLaunch, LockShared,
        ForkFails, Fork, TypeOK
  <2>3. ASSUME NEW o \in Operators,
               OperatorDies(o) \/ \E d \in Deployments : Begin(o, d)
        PROVE  content' = content
    BY <2>3 DEF OperatorDies, Begin
  <2>4. ASSUME NEW b \in Children, ContractPasses(b) \/ ChildExits(b)
        PROVE  content' = content
    BY <2>4 DEF ContractPasses, ChildExits
  <2>5. ASSUME NEW d \in Deployments, Move(d)
        PROVE  content' = content
    BY <2>5 DEF Move
  <2>q. QED
    BY <2>2, <2>3, <2>4, <2>5 DEF Next, vars
<1>2. IInv /\ [Next]_vars =>
        [\A c \in Children : cstate[c] = "running" =>
           content'[crev[c]] = content[crev[c]]]_vars
  BY <1>1
<1>q. QED
  BY InvariantHolds, <1>2, PTL DEF Spec, RunningRevisionUntouched
=============================================================================

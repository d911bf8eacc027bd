--------------------------- MODULE SuperviseProofs ---------------------------
(***************************************************************************)
(* Pidfile exclusion when one operator works alone, for every set of pids  *)
(* and every bound, with pid reuse and crashes at any point.               *)
(***************************************************************************)
EXTENDS Supervise, TLAPS

(* The hypothesis of the exclusion theorems: commands are issued by a      *)
(* single operator that stays until its child's host shell has finished.   *)
SingleOperator == (\E l : Launchers = {l}) /\ ~Overlap

(* Only processes that exist have a place in the contract.                 *)
PlacedAreAlive == \A p \in Pids : at[p] # "none" => Alive(p)

(* A host shell is the child the operator waits for, hence the only one.   *)
HostIsChild ==
  \A p \in Pids, l \in Launchers :
    at[p] \in HostPhases => pc[l] = "waiting" /\ child[l] = p /\ p \notin ready

ReadPhases == {"restart_check", "restart_kill", "restart_poll",
               "restart_remove", "claim_check", "claim_remove"}

(* What a host shell read from the pidfile is still what it says.          *)
SeenIsCurrent ==
  \A p \in Pids :
    at[p] \in ReadPhases => seen[p] \in Pids /\ file = [pid |-> seen[p], written |-> TRUE]

(* A host shell about to remove the pidfile judged a process that is gone. *)
RemovalIsStale ==
  \A p \in Pids :
    at[p] \in {"restart_remove", "claim_remove"} => at[seen[p]] = "none"

WriterOwnsFile == \A p \in Pids : at[p] = "claim_write" => file.pid = p

WrittenNamesPid == file.written => file.pid \in Pids

IInv ==
  /\ TypeOK
  /\ PlacedAreAlive
  /\ HostIsChild
  /\ PidFileNamesSupervise
  /\ SeenIsCurrent
  /\ RemovalIsStale
  /\ WriterOwnsFile
  /\ WrittenNamesPid

-----------------------------------------------------------------------------
LEMMA InitTypeOK == Init => TypeOK
  BY SuperviseAssumption
  DEF Init, TypeOK, Fresh, Legacy, PidFiles, NoFile, EngineRoles

(* Every step of a host shell keeps the variables in their domains.        *)
LEMMA HostTypeOK ==
  ASSUME TypeOK, NEW p \in Pids, HostStep(p)
  PROVE  TypeOK'
<1> USE DEF TypeOK, HostAt, GoTo, Exit, ReadPid, RemovePidFile, PidFiles, NoFile, HostPhases, RestartPhases, ClaimPhases, OwnPhases, EngineRoles, opVars, procVars
<1>1. CASE HostRefuses(p)
  BY <1>1 DEF HostRefuses
<1>2. CASE RestartTest(p)
  BY <1>2 DEF RestartTest
<1>3. CASE RestartRead(p)
  BY <1>3 DEF RestartRead
<1>4. CASE RestartCheck(p)
  BY <1>4 DEF RestartCheck
<1>5. CASE RestartKill(p)
  BY <1>5 DEF RestartKill
<1>6. CASE RestartKillFails(p)
  BY <1>6 DEF RestartKillFails
<1>7. CASE RestartPoll(p)
  BY <1>7 DEF RestartPoll
<1>8. CASE RestartPollTimeout(p)
  BY <1>8 DEF RestartPollTimeout
<1>9. CASE RestartRemove(p)
  BY <1>9 DEF RestartRemove
<1>10. CASE ClaimTest(p)
  BY <1>10 DEF ClaimTest
<1>11. CASE ClaimRead(p)
  BY <1>11 DEF ClaimRead
<1>12. CASE ClaimCheck(p)
  BY <1>12 DEF ClaimCheck
<1>13. CASE ClaimRemove(p)
  BY <1>13 DEF ClaimRemove
<1>14. CASE ClaimCreate(p)
  <2>1. CASE file = NoFile
    <3>1. /\ file' = [pid |-> p, written |-> FALSE]
          /\ at' = [at EXCEPT ![p] = "claim_write"]
          /\ UNCHANGED <<proc, seen, replace, store, ready, busy, pc, cmd,
                        found, child, attempt, issued, latest>>
      BY <1>14, <2>1 DEF ClaimCreate
    <3>2. file' \in PidFiles
      BY <3>1
    <3>q. QED BY <3>1, <3>2
  <2>2. CASE file # NoFile
    BY <1>14, <2>2 DEF ClaimCreate
  <2>q. QED BY <2>1, <2>2
<1>15. CASE ClaimWrite(p)
  BY <1>15 DEF ClaimWrite
<1>16. CASE ReceiptCheck(p)
  BY <1>16 DEF ReceiptCheck
<1>17. CASE ReceiptRemove(p)
  BY <1>17 DEF ReceiptRemove
<1>18. CASE Exec(p)
  BY <1>18 DEF Exec
<1>q. QED BY <1>1, <1>2, <1>3, <1>4, <1>5, <1>6, <1>7, <1>8, <1>9, <1>10, <1>11, <1>12, <1>13, <1>14, <1>15, <1>16, <1>17, <1>18 DEF HostStep

(* Every step of an engine, of the kernel and of the outside world does.   *)
LEMMA WorldTypeOK ==
  ASSUME TypeOK, NEW p \in Pids, World(p) \/ ReleaseStore
  PROVE  TypeOK'
<1> USE DEF TypeOK, HostAt, Exit, PidFiles, EngineRoles, opVars, procVars
<1>1. CASE OpenStore(p)
  BY <1>1 DEF OpenStore
<1>2. CASE EmitReady(p)
  BY <1>2 DEF EmitReady
<1>3. CASE Crash(p)
  BY <1>3 DEF Crash
<1>4. CASE FinishDying(p)
  BY <1>4 DEF FinishDying
<1>5. CASE Recycle(p)
  BY <1>5 DEF Recycle
<1>6. CASE ReleaseStore
  BY <1>6 DEF ReleaseStore
<1>q. QED BY <1>1, <1>2, <1>3, <1>4, <1>5, <1>6 DEF World

(* Every step of an operator does.                                         *)
LEMMA OperatorTypeOK ==
  ASSUME TypeOK, NEW l \in Launchers,
         \/ OpStep(l) \/ OperatorDies(l)
         \/ \E c \in Commands : Issue(l, c)
  PROVE  TypeOK'
<1> USE SuperviseAssumption DEF TypeOK, OpAt, OpGoTo, AfterStop, procVars
<1>1. CASE StartLook(l)
  BY <1>1 DEF StartLook
<1>2. CASE RestartBridge(l)
  BY <1>2 DEF RestartBridge
<1>3. CASE StopLook(l)
  BY <1>3 DEF StopLook, Supervises
<1>4. CASE StopKill(l)
  BY <1>4 DEF StopKill
<1>5. CASE LaunchAborts(l)
  BY <1>5 DEF LaunchAborts
<1>6. CASE \E p \in Pids : Spawn(l, p)
  BY <1>6 DEF Spawn, HostPhases, RestartPhases
<1>7. CASE WaitReady(l)
  BY <1>7 DEF WaitReady
<1>8. CASE WaitExited(l)
  BY <1>8 DEF WaitExited
<1>9. CASE WaitTimeout(l)
  BY <1>9 DEF WaitTimeout
<1>10. CASE Retry(l)
  BY <1>10 DEF Retry
<1>11. CASE OperatorDies(l)
  BY <1>11 DEF OperatorDies
<1>12. CASE \E c \in Commands : Issue(l, c)
  BY <1>12 DEF Issue, FirstStep
<1>q. QED BY <1>1, <1>2, <1>3, <1>4, <1>5, <1>6, <1>7, <1>8, <1>9, <1>10, <1>11, <1>12 DEF OpStep

(* Type correctness, for every number of operators, with or without        *)
(* overlap: in particular no command exceeds its launch attempts.          *)
THEOREM TypeCorrect == Spec => []TypeOK
<1>1. TypeOK /\ UNCHANGED vars => TypeOK'
  BY DEF TypeOK, vars, procVars, opVars
<1>2. TypeOK /\ [Next]_vars => TypeOK'
  <2>1. ASSUME TypeOK, ReleaseStore PROVE TypeOK'
    BY <2>1 DEF ReleaseStore, TypeOK, procVars, opVars
  <2>q. QED BY <1>1, <2>1, HostTypeOK, WorldTypeOK, OperatorTypeOK DEF Next
<1>q. QED BY InitTypeOK, <1>2, PTL DEF Spec

-----------------------------------------------------------------------------
LEMMA InitInvariant == Init => IInv
  BY InitTypeOK
  DEF Init, Fresh, Legacy, IInv, PlacedAreAlive, HostIsChild, SeenIsCurrent,
      RemovalIsStale, WriterOwnsFile, WrittenNamesPid, PidFileNamesSupervise,
      PastClaim, Alive, NoFile, HostPhases, RestartPhases, ClaimPhases,
      OwnPhases, ReadPhases

(* A step of a host shell keeps the invariant: the shell is alone, so what  *)
(* it judged dead is not the process the pidfile names for anybody else.   *)
LEMMA HostInvariant ==
  ASSUME IInv, SingleOperator, NEW p \in Pids, HostStep(p)
  PROVE  IInv'
<1> USE DEF IInv, PlacedAreAlive, HostIsChild, SeenIsCurrent, RemovalIsStale,
      WriterOwnsFile, WrittenNamesPid, PidFileNamesSupervise, PastClaim, Alive,
      NoFile, HostPhases, RestartPhases, ClaimPhases, OwnPhases, ReadPhases,
      HostAt, GoTo, Exit, ReadPid, RemovePidFile, PidIsDead, opVars
<1>0. TypeOK'
  BY HostTypeOK
<1>a. PICK l : Launchers = {l}
  BY DEF SingleOperator
<1>1. CASE HostRefuses(p)
  BY <1>0, <1>a, <1>1, SuperviseAssumption DEF HostRefuses, TypeOK, PidFiles
<1>2. CASE RestartTest(p)
  BY <1>0, <1>a, <1>2, SuperviseAssumption DEF RestartTest, TypeOK, PidFiles
<1>3. CASE RestartRead(p)
  BY <1>0, <1>a, <1>3, SuperviseAssumption DEF RestartRead, TypeOK, PidFiles
<1>4. CASE RestartCheck(p)
  BY <1>0, <1>a, <1>4, SuperviseAssumption DEF RestartCheck, TypeOK, PidFiles
<1>5. CASE RestartKill(p)
  BY <1>0, <1>a, <1>5, SuperviseAssumption DEF RestartKill, TypeOK, PidFiles
<1>6. CASE RestartKillFails(p)
  BY <1>0, <1>a, <1>6, SuperviseAssumption DEF RestartKillFails, TypeOK, PidFiles
<1>7. CASE RestartPoll(p)
  BY <1>0, <1>a, <1>7, SuperviseAssumption DEF RestartPoll, TypeOK, PidFiles
<1>8. CASE RestartPollTimeout(p)
  BY <1>0, <1>a, <1>8, SuperviseAssumption DEF RestartPollTimeout, TypeOK, PidFiles
<1>9. CASE RestartRemove(p)
  BY <1>0, <1>a, <1>9, SuperviseAssumption DEF RestartRemove, TypeOK, PidFiles
<1>10. CASE ClaimTest(p)
  BY <1>0, <1>a, <1>10, SuperviseAssumption DEF ClaimTest, TypeOK, PidFiles
<1>11. CASE ClaimRead(p)
  BY <1>0, <1>a, <1>11, SuperviseAssumption DEF ClaimRead, TypeOK, PidFiles
<1>12. CASE ClaimCheck(p)
  BY <1>0, <1>a, <1>12, SuperviseAssumption DEF ClaimCheck, TypeOK, PidFiles
<1>13. CASE ClaimRemove(p)
  BY <1>0, <1>a, <1>13, SuperviseAssumption DEF ClaimRemove, TypeOK, PidFiles
<1>14. CASE ClaimCreate(p)
  BY <1>0, <1>a, <1>14, SuperviseAssumption DEF ClaimCreate, TypeOK, PidFiles
<1>15. CASE ClaimWrite(p)
  <2>1. file.pid = p /\ at[p] = "claim_write" /\ child[l] = p
    BY <1>15, <1>a DEF ClaimWrite
  <2>2. file' = [pid |-> p, written |-> TRUE]
    BY <1>15, <2>1 DEF ClaimWrite, TypeOK, PidFiles
  <2>3. \A q \in Pids : at'[q] = IF q = p THEN "receipt" ELSE at[q]
    BY <1>15 DEF ClaimWrite, TypeOK
  <2>4. \A q \in Pids : at[q] \in HostPhases => q = p
    BY <2>1, <1>a
  <2>5. \A q \in Pids : q # p => ~PastClaim(q)
    BY <2>1, <2>4, SuperviseAssumption
  <2>6. UNCHANGED <<proc, seen, ready, pc, child>>
    BY <1>15 DEF ClaimWrite
  <2>7. \A q \in Pids : q # p => ~PastClaim(q)'
    BY <2>3, <2>5, <2>6
  <2>8. PidFileNamesSupervise'
    BY <2>2, <2>7
  <2>9. PlacedAreAlive' /\ HostIsChild'
    BY <1>a, <2>1, <2>3, <2>6
  <2>10. \A q \in Pids : at'[q] \notin ReadPhases \cup {"claim_write"}
    BY <2>3, <2>4
  <2>11. SeenIsCurrent' /\ RemovalIsStale' /\ WriterOwnsFile' /\ WrittenNamesPid'
    BY <2>2, <2>10
  <2>q. QED
    BY <1>0, <2>8, <2>9, <2>11
<1>16. CASE ReceiptCheck(p)
  BY <1>0, <1>a, <1>16, SuperviseAssumption DEF ReceiptCheck, TypeOK, PidFiles
<1>17. CASE ReceiptRemove(p)
  BY <1>0, <1>a, <1>17, SuperviseAssumption DEF ReceiptRemove, TypeOK, PidFiles
<1>18. CASE Exec(p)
  BY <1>0, <1>a, <1>18, SuperviseAssumption DEF Exec, TypeOK, PidFiles
<1>q. QED BY <1>1, <1>2, <1>3, <1>4, <1>5, <1>6, <1>7, <1>8, <1>9, <1>10, <1>11, <1>12, <1>13, <1>14, <1>15, <1>16, <1>17, <1>18 DEF HostStep

(* So does a step of the engine, of the kernel or of somebody else's       *)
(* process: nothing but a host shell touches the pidfile.                  *)
LEMMA WorldInvariant ==
  ASSUME IInv, NEW p \in Pids, World(p)
  PROVE  IInv'
<1> USE DEF IInv, PlacedAreAlive, HostIsChild, SeenIsCurrent, RemovalIsStale,
      WriterOwnsFile, WrittenNamesPid, PidFileNamesSupervise, PastClaim, Alive,
      HostPhases, RestartPhases, ClaimPhases, OwnPhases, ReadPhases,
      HostAt, Exit, procVars, opVars
<1>0. TypeOK'
  BY WorldTypeOK
<1>1. CASE OpenStore(p)
  BY <1>0, <1>1 DEF OpenStore, TypeOK
<1>2. CASE EmitReady(p)
  BY <1>0, <1>2 DEF EmitReady, TypeOK
<1>3. CASE Crash(p)
  BY <1>0, <1>3 DEF Crash, TypeOK
<1>4. CASE FinishDying(p)
  BY <1>0, <1>4 DEF FinishDying, TypeOK
<1>5. CASE Recycle(p)
  BY <1>0, <1>5 DEF Recycle, TypeOK
<1>q. QED BY <1>1, <1>2, <1>3, <1>4, <1>5 DEF World

(* So does a step of the operator: it spawns only when no shell of its own *)
(* is left, and stops only while none runs.                                *)
LEMMA OperatorInvariant ==
  ASSUME IInv, SingleOperator, NEW l \in Launchers,
         OpStep(l) \/ \E c \in Commands : Issue(l, c)
  PROVE  IInv'
<1> USE DEF IInv, PlacedAreAlive, HostIsChild, SeenIsCurrent, RemovalIsStale,
      WriterOwnsFile, WrittenNamesPid, PidFileNamesSupervise, PastClaim, Alive,
      HostPhases, RestartPhases, ClaimPhases, OwnPhases, ReadPhases,
      OpAt, OpGoTo, procVars
<1>0. TypeOK'
  BY OperatorTypeOK
<1>a. Launchers = {l}
  BY DEF SingleOperator
<1>1. CASE StartLook(l)
  BY <1>0, <1>a, <1>1 DEF StartLook, TypeOK
<1>2. CASE RestartBridge(l)
  BY <1>0, <1>a, <1>2 DEF RestartBridge, TypeOK
<1>3. CASE StopLook(l)
  BY <1>0, <1>a, <1>3 DEF StopLook, TypeOK
<1>4. CASE StopKill(l)
  BY <1>0, <1>a, <1>4 DEF StopKill, PidIsDead, ChildAlive, TypeOK
<1>5. CASE LaunchAborts(l)
  BY <1>0, <1>a, <1>5 DEF LaunchAborts, TypeOK
<1>6. CASE \E p \in Pids : Spawn(l, p)
  BY <1>0, <1>a, <1>6 DEF Spawn, Assignable, TypeOK
<1>7. CASE WaitReady(l)
  BY <1>0, <1>a, <1>7 DEF WaitReady, TypeOK
<1>8. CASE WaitExited(l)
  BY <1>0, <1>a, <1>8 DEF WaitExited, PidIsDead, ChildAlive, TypeOK
<1>9. CASE WaitTimeout(l)
  BY <1>0, <1>a, <1>9 DEF WaitTimeout, SingleOperator, TypeOK
<1>10. CASE Retry(l)
  BY <1>0, <1>a, <1>10 DEF Retry, TypeOK
<1>11. CASE \E c \in Commands : Issue(l, c)
  BY <1>0, <1>a, <1>11 DEF Issue, TypeOK
<1>q. QED BY <1>1, <1>2, <1>3, <1>4, <1>5, <1>6, <1>7, <1>8, <1>9, <1>10, <1>11 DEF OpStep

LEMMA StepInvariant == SingleOperator /\ IInv /\ [Next]_vars => IInv'
<1> SUFFICES ASSUME SingleOperator, IInv, [Next]_vars
             PROVE  IInv'
  OBVIOUS
<1>1. CASE \E p \in Pids : HostStep(p)
  BY <1>1, HostInvariant
<1>2. CASE \E p \in Pids : World(p)
  BY <1>2, WorldInvariant
<1>3. CASE ReleaseStore
  <2>1. TypeOK'
    BY <1>3 DEF ReleaseStore, IInv, TypeOK, procVars, opVars
  <2>q. QED
    BY <1>3, <2>1 DEF ReleaseStore, procVars, opVars, IInv, PlacedAreAlive,
       HostIsChild, SeenIsCurrent, RemovalIsStale, WriterOwnsFile,
       WrittenNamesPid, PidFileNamesSupervise, PastClaim, Alive
<1>4. CASE \E l \in Launchers : OpStep(l) \/ \E c \in Commands : Issue(l, c)
  BY <1>4, OperatorInvariant
<1>5. CASE \E l \in Launchers : OperatorDies(l)
  BY <1>5 DEF OperatorDies, SingleOperator
<1>6. CASE UNCHANGED vars
  BY <1>6 DEF vars, procVars, opVars, IInv, TypeOK, PlacedAreAlive, HostIsChild,
     SeenIsCurrent, RemovalIsStale, WriterOwnsFile, WrittenNamesPid,
     PidFileNamesSupervise, PastClaim, Alive
<1>q. QED BY <1>1, <1>2, <1>3, <1>4, <1>5, <1>6 DEF Next

(* With a single operator the pidfile names the supervise: whoever is past *)
(* the claim is the process the file names, through crashes, kills, pid    *)
(* reuse, refused launches and retries.                                    *)
THEOREM PidFileNamesSuperviseHolds ==
  ASSUME SingleOperator
  PROVE  Spec => []PidFileNamesSupervise
<1>1. IInv /\ [Next]_vars => IInv'
  BY StepInvariant
<1>2. IInv => PidFileNamesSupervise
  BY DEF IInv
<1>q. QED BY InitInvariant, <1>1, <1>2, PTL DEF Spec

(* Hence pidfile exclusion: no second process is past the claim.           *)
THEOREM PidFileExclusionHolds ==
  ASSUME SingleOperator
  PROVE  Spec => []PidFileExclusion
<1>1. PidFileNamesSupervise => PidFileExclusion
  BY DEF PidFileNamesSupervise, PidFileExclusion
<1>q. QED BY PidFileNamesSuperviseHolds, <1>1, PTL

(* The only steps that touch the pidfile: a removal, a create, a write.    *)
LEMMA PidFileWriters ==
  ASSUME [Next]_vars
  PROVE  \/ UNCHANGED file
         \/ \E p \in Pids : \/ RestartRemove(p) \/ ClaimRemove(p) \/ ReceiptRemove(p)
                            \/ ClaimCreate(p) \/ ClaimWrite(p)
<1>1. CASE \E p \in Pids : HostStep(p)
  BY <1>1
  DEF HostStep, HostRefuses, RestartTest, RestartRead, RestartCheck, RestartKill,
      RestartKillFails, RestartPoll, RestartPollTimeout, ClaimTest, ClaimRead,
      ClaimCheck, ReceiptCheck, Exec
<1>2. CASE ReleaseStore \/ \E p \in Pids : World(p)
  BY <1>2
  DEF World, OpenStore, EmitReady, Crash, FinishDying, Recycle, ReleaseStore
<1>3. CASE \E l \in Launchers : \/ OpStep(l) \/ OperatorDies(l)
                               \/ \E c \in Commands : Issue(l, c)
  BY <1>3
  DEF OpStep, StartLook, RestartBridge, StopLook, StopKill, LaunchAborts, Spawn,
      WaitReady, WaitExited, WaitTimeout, Retry, OperatorDies, Issue
<1>4. CASE UNCHANGED vars
  BY <1>4 DEF vars
<1>q. QED BY <1>1, <1>2, <1>3, <1>4 DEF Next

(* With a single operator a malformed pidfile whose creator is gone stays:  *)
(* a shell that removes has read a written file since (SeenIsCurrent), one  *)
(* that releases its own claim owns a written file, and the writer of a     *)
(* half made one is alive.                                                 *)
THEOREM MalformedFailsClosedHolds ==
  ASSUME SingleOperator
  PROVE  Spec => MalformedFailsClosed
<1>1. IInv /\ [Next]_vars => IInv'
  BY StepInvariant
<1>2. ASSUME IInv, [Next]_vars, Malformed, ~Alive(file.pid)
      PROVE  UNCHANGED file
  <2>1. ASSUME NEW p \in Pids, RestartRemove(p) \/ ClaimRemove(p)
        PROVE  FALSE
    <3>1. file.written
      BY <1>2, <2>1 DEF RestartRemove, ClaimRemove, HostAt, IInv, SeenIsCurrent, ReadPhases
    <3>q. QED BY <1>2, <3>1 DEF Malformed
  <2>2. ASSUME NEW p \in Pids, ReceiptRemove(p)
        PROVE  FALSE
    <3>1. file.written
      BY <1>2, <2>2 DEF ReceiptRemove, HostAt, IInv, PidFileNamesSupervise, PastClaim, OwnPhases, Alive
    <3>q. QED BY <1>2, <3>1 DEF Malformed
  <2>3. ASSUME NEW p \in Pids, ClaimCreate(p)
        PROVE  UNCHANGED file
    BY <1>2, <2>3 DEF ClaimCreate, Malformed
  <2>4. ASSUME NEW p \in Pids, ClaimWrite(p)
        PROVE  FALSE
    BY <1>2, <2>4 DEF ClaimWrite, HostAt, IInv, WriterOwnsFile, Alive
  <2>q. QED BY <1>2, <2>1, <2>2, <2>3, <2>4, PidFileWriters
<1>3. IInv /\ [Next]_vars => [Malformed /\ ~Alive(file.pid) => UNCHANGED file]_vars
  BY <1>2
<1>q. QED BY InitInvariant, <1>1, <1>3, PTL DEF Spec, MalformedFailsClosed
=============================================================================

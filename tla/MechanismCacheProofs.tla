------------------------ MODULE MechanismCacheProofs ------------------------
(***************************************************************************)
(* Publication follows preflight, and staging is removed, for any number   *)
(* of invocations and revisions, with faults, kills and pin moves at any   *)
(* point, and with two publishers inside one lock.                         *)
(***************************************************************************)
EXTENDS MechanismCache, TLAPS

(* An invocation beyond the look at its own checkout has read a pin.       *)
PinRead ==
  \A i \in Invocations : pc[i] \notin {"idle", "killed"} => revision[i] \in Revisions

(* Whoever publishes, or sets the pointer, has seen a preflight succeed.   *)
PublisherPreflighted ==
  \A i \in Invocations :
    pc[i] \in {"lock", "test", "move", "unlock", "point"} => revision[i] \in preflighted

(* An invocation without a candidate works on a published checkout.        *)
CheckoutPublished ==
  \A i \in Invocations :
    \/ pc[i] \in {"unlock", "point"}
    \/ pc[i] = "preflight" /\ i \notin staging
    => revision[i] \in verified

(* A candidate exists from before the clone until it is published or the    *)
(* trap removes it.                                                        *)
StagingAt ==
  /\ \A i \in Invocations : pc[i] = "clone" => i \in staging
  /\ \A i \in staging :
       pc[i] \in {"clone", "preflight", "lock", "test", "move", "trap", "killed"}

IInv ==
  /\ TypeOK
  /\ PublishedIsPreflighted
  /\ PinRead
  /\ PublisherPreflighted
  /\ CheckoutPublished
  /\ StagingAt

-----------------------------------------------------------------------------
LEMMA InitInvariant == Init => IInv
  BY CacheAssumption
  DEF Init, IInv, TypeOK, PublishedIsPreflighted, PinRead, PublisherPreflighted,
      CheckoutPublished, StagingAt

(* A step of one invocation keeps the invariant.                           *)
LEMMA InvokeInvariant ==
  ASSUME IInv, NEW i \in Invocations, Begin(i) \/ Invoke(i) \/ Kill(i)
  PROVE  IInv'
<1> USE CacheAssumption
    DEF IInv, TypeOK, PublishedIsPreflighted, PinRead, PublisherPreflighted,
        CheckoutPublished, StagingAt, At, GoTo, cacheVars, ownVars
<1>1. CASE Begin(i)
  BY <1>1 DEF Begin
<1>2. CASE LookCurrent(i)
  BY <1>2 DEF LookCurrent
<1>3. CASE LookVerified(i)
  BY <1>3 DEF LookVerified
<1>4. CASE Clone(i)
  BY <1>4 DEF Clone, Fault
<1>5. CASE Preflight(i)
  BY <1>5 DEF Preflight, Preflighted, Fault
<1>6. CASE Lock(i)
  BY <1>6 DEF Lock
<1>7. CASE TestVerified(i)
  BY <1>7 DEF TestVerified
<1>8. CASE Move(i)
  BY <1>8 DEF Move
<1>9. CASE Unlock(i)
  BY <1>9 DEF Unlock
<1>10. CASE Point(i)
  BY <1>10 DEF Point
<1>11. CASE Exec(i)
  BY <1>11 DEF Exec
<1>12. CASE Trap(i)
  BY <1>12 DEF Trap
<1>13. CASE Kill(i)
  BY <1>13 DEF Kill
<1>q. QED
  BY <1>1, <1>2, <1>3, <1>4, <1>5, <1>6, <1>7, <1>8, <1>9, <1>10, <1>11, <1>12, <1>13
  DEF Invoke

LEMMA StepInvariant == IInv /\ [Next]_vars => IInv'
<1> SUFFICES ASSUME IInv, [Next]_vars PROVE IInv'
  OBVIOUS
<1>1. CASE MovePin
  BY <1>1, CacheAssumption
  DEF MovePin, IInv, TypeOK, PublishedIsPreflighted, PinRead, PublisherPreflighted,
      CheckoutPublished, StagingAt, cacheVars, ownVars
<1>2. CASE UNCHANGED vars
  BY <1>2
  DEF IInv, TypeOK, PublishedIsPreflighted, PinRead, PublisherPreflighted,
      CheckoutPublished, StagingAt, vars, cacheVars, ownVars
<1>q. QED BY <1>1, <1>2, InvokeInvariant DEF Next

(* The inductive invariant holds in every reachable state.                 *)
THEOREM InvariantHolds == Spec => []IInv
  BY InitInvariant, StepInvariant, PTL DEF Spec

(* Every variable stays in its domain.                                     *)
THEOREM TypeCorrect == Spec => []TypeOK
<1>1. IInv => TypeOK
  BY DEF IInv
<1>q. QED BY <1>1, InvariantHolds, PTL

(* Whatever publishers, faults, kills and pin moves interleave, a checkout *)
(* that is published or pointed to has passed a preflight at its revision. *)
THEOREM PublishedIsPreflightedHolds == Spec => []PublishedIsPreflighted
<1>1. IInv => PublishedIsPreflighted
  BY DEF IInv
<1>q. QED BY <1>1, InvariantHolds, PTL

(* An invocation that ends by itself leaves no staging directory.          *)
THEOREM StagingRemovedHolds == Spec => []StagingRemoved
<1>1. IInv => StagingRemoved
  BY DEF IInv, StagingAt, StagingRemoved
<1>q. QED BY <1>1, InvariantHolds, PTL
=============================================================================

--------------------------- MODULE MechanismCache ---------------------------
(***************************************************************************)
(* The entry of the mechanism (bin/fkst-ops).  An invocation whose own     *)
(* checkout is not at the pinned revision finds one in the cache of the    *)
(* deployment repository, or clones it there: into a private staging       *)
(* directory, which is verified and preflighted, and then renamed to the   *)
(* directory of its revision under a mkdir lock.  The pointer `current' is *)
(* switched to it and the invocation re-executes itself from it.           *)
(***************************************************************************)
EXTENDS Naturals, FiniteSets

CONSTANTS
  Invocations,   \* processes; one that ends may be invoked again
  Revisions,     \* revisions of the mechanism
  Root,          \* the revision of the checkout that is invoked
  None,          \* no revision
  MaxMoves,      \* bound: changes of the pin
  MaxFaults,     \* bound: clones and preflights that fail
  MaxKilled      \* bound: invocations that are killed

ASSUME CacheAssumption ==
  /\ None \notin Revisions
  /\ MaxMoves \in Nat /\ MaxFaults \in Nat /\ MaxKilled \in Nat

VARIABLES
  pin,         \* the revision fkst.lock resolves
  current,     \* the revision the pointer names
  verified,    \* revisions with a published checkout
  nested,      \* published checkouts that hold a second one inside
  lock,        \* revisions whose publish lock directory exists
  staging,     \* invocations whose staging directory exists
  preflighted, \* revisions whose entry passed a preflight
  pc,          \* where an invocation is
  revision,    \* the pin it read
  preflight,   \* was it asked for a preflight only
  named,       \* does its trap know a publish lock
  moves, faults

cacheVars == <<current, verified, nested, lock>>
ownVars == <<revision, preflight, named>>
vars == <<pin, cacheVars, staging, preflighted, pc, ownVars, moves, faults>>

Init ==
  /\ pin \in Revisions
  /\ current = None /\ verified = {} /\ nested = {} /\ lock = {}
  /\ staging = {} /\ preflighted = {}
  /\ pc = [i \in Invocations |-> "idle"]
  /\ revision = [i \in Invocations |-> None]
  /\ preflight = [i \in Invocations |-> FALSE]
  /\ named = [i \in Invocations |-> FALSE]
  /\ moves = 0 /\ faults = 0

At(i, where) == pc[i] = where
GoTo(i, where) == pc' = [pc EXCEPT ![i] = where]
Publishing(r) == {i \in Invocations : revision[i] = r /\ pc[i] \in {"test", "move", "unlock"}}

-----------------------------------------------------------------------------
(* read_pin, then checkout_at_revision of the invoked checkout itself.     *)
Begin(i) ==
  /\ At(i, "idle")
  /\ revision' = [revision EXCEPT ![i] = pin]
  /\ \E only \in BOOLEAN : preflight' = [preflight EXCEPT ![i] = only]
  /\ named' = [named EXCEPT ![i] = FALSE]
  /\ GoTo(i, IF pin = Root THEN "idle" ELSE "current")
  /\ UNCHANGED <<pin, cacheVars, staging, preflighted, moves, faults>>

(* A pointer at the pinned revision is re-executed at once.                *)
LookCurrent(i) ==
  /\ At(i, "current")
  /\ GoTo(i, IF current = revision[i] THEN "exec" ELSE "verified")
  /\ UNCHANGED <<pin, cacheVars, staging, preflighted, ownVars, moves, faults>>

LookVerified(i) ==
  /\ At(i, "verified")
  /\ IF revision[i] \in verified
       THEN GoTo(i, "preflight") /\ UNCHANGED staging
       ELSE GoTo(i, "clone") /\ staging' = staging \cup {i}
  /\ UNCHANGED <<pin, cacheVars, preflighted, ownVars, moves, faults>>

Fault(i) == faults < MaxFaults /\ faults' = faults + 1 /\ GoTo(i, "trap")

Clone(i) ==
  /\ At(i, "clone")
  /\ \/ Fault(i)
     \/ GoTo(i, "preflight") /\ UNCHANGED faults
  /\ UNCHANGED <<pin, cacheVars, staging, preflighted, ownVars, moves>>

(* After a preflight: a candidate is published; of a published checkout the *)
(* pointer is set, unless a preflight is all that was asked for.           *)
Preflighted(i) ==
  IF i \in staging THEN "lock" ELSE IF preflight[i] THEN "idle" ELSE "point"

(* Mutant: only candidates are preflighted.                                *)
PreflightOfCandidate(i) ==
  /\ At(i, "preflight")
  /\ \/ Fault(i) /\ UNCHANGED preflighted
     \/ /\ pin # revision[i]
        /\ GoTo(i, IF i \in staging THEN "lock" ELSE "trap")
        /\ UNCHANGED <<preflighted, faults>>
     \/ /\ pin = revision[i]
        /\ GoTo(i, Preflighted(i))
        /\ preflighted' = preflighted \cup {pin}
        /\ UNCHANGED faults
  /\ UNCHANGED <<pin, cacheVars, staging, ownVars, moves>>

(* The entry of the checkout runs with depth 1: it reads the pin again and *)
(* fails unless it is at it.                                               *)
Preflight(i) ==
  /\ At(i, "preflight")
  /\ \/ Fault(i) /\ UNCHANGED preflighted
     \/ /\ pin # revision[i]
        /\ GoTo(i, "trap")
        /\ UNCHANGED <<preflighted, faults>>
     \/ /\ pin = revision[i]
        /\ GoTo(i, Preflighted(i))
        /\ preflighted' = preflighted \cup {pin}
        /\ UNCHANGED faults
  /\ UNCHANGED <<pin, cacheVars, staging, ownVars, moves>>

(* publish_lock is named before mkdir is tried.                            *)
Lock(i) ==
  /\ At(i, "lock")
  /\ named' = [named EXCEPT ![i] = TRUE]
  /\ lock' = lock \cup {revision[i]}
  /\ GoTo(i, IF revision[i] \in lock THEN "trap" ELSE "test")
  /\ UNCHANGED <<pin, current, verified, nested, staging, preflighted, revision,
                 preflight, moves, faults>>

TestVerified(i) ==
  /\ At(i, "test")
  /\ IF revision[i] \in verified
       THEN GoTo(i, "unlock") /\ staging' = staging \ {i}
       ELSE GoTo(i, "move") /\ UNCHANGED staging
  /\ UNCHANGED <<pin, cacheVars, preflighted, ownVars, moves, faults>>

(* mv puts the candidate inside a directory that already exists.           *)
Move(i) ==
  /\ At(i, "move")
  /\ staging' = staging \ {i}
  /\ verified' = verified \cup {revision[i]}
  /\ nested' = IF revision[i] \in verified THEN nested \cup {revision[i]} ELSE nested
  /\ GoTo(i, "unlock")
  /\ UNCHANGED <<pin, current, lock, preflighted, ownVars, moves, faults>>

(* rmdir fails, and with it the invocation, when the lock is gone.         *)
Unlock(i) ==
  /\ At(i, "unlock")
  /\ IF revision[i] \in lock
       THEN /\ lock' = lock \ {revision[i]}
            /\ named' = [named EXCEPT ![i] = FALSE]
            /\ GoTo(i, "point")
       ELSE GoTo(i, "trap") /\ UNCHANGED <<lock, named>>
  /\ UNCHANGED <<pin, current, verified, nested, staging, preflighted, revision,
                 preflight, moves, faults>>

Point(i) ==
  /\ At(i, "point")
  /\ current' = revision[i]
  /\ GoTo(i, IF preflight[i] THEN "idle" ELSE "exec")
  /\ UNCHANGED <<pin, verified, nested, lock, staging, preflighted, ownVars, moves, faults>>

(* The pinned entry runs the action, or fails because the pin has moved.   *)
Exec(i) ==
  /\ At(i, "exec")
  /\ GoTo(i, "idle")
  /\ UNCHANGED <<pin, cacheVars, staging, preflighted, ownVars, moves, faults>>

(* Mutant: the trap of an invocation that fails keeps its candidate.       *)
TrapKeepsStaging(i) ==
  /\ At(i, "trap")
  /\ UNCHANGED staging
  /\ lock' = IF named[i] THEN lock \ {revision[i]} ELSE lock
  /\ GoTo(i, "idle")
  /\ UNCHANGED <<pin, current, verified, nested, preflighted, ownVars, moves, faults>>

(* Mutant: the trap leaves the publish lock alone.                         *)
TrapKeepsLock(i) ==
  /\ At(i, "trap")
  /\ staging' = staging \ {i}
  /\ GoTo(i, "idle")
  /\ UNCHANGED <<pin, cacheVars, preflighted, ownVars, moves, faults>>

(* cleanup, on every exit: the candidate, and the lock that is named.      *)
Trap(i) ==
  /\ At(i, "trap")
  /\ staging' = staging \ {i}
  /\ lock' = IF named[i] THEN lock \ {revision[i]} ELSE lock
  /\ GoTo(i, "idle")
  /\ UNCHANGED <<pin, current, verified, nested, preflighted, ownVars, moves, faults>>

Invoke(i) ==
  \/ LookCurrent(i) \/ LookVerified(i) \/ Clone(i) \/ Preflight(i) \/ Lock(i)
  \/ TestVerified(i) \/ Move(i) \/ Unlock(i) \/ Point(i) \/ Exec(i) \/ Trap(i)

(* SIGKILL: nothing is cleaned up.                                         *)
Kill(i) ==
  /\ pc[i] \notin {"idle", "killed"}
  /\ Cardinality({j \in Invocations : pc[j] = "killed"}) < MaxKilled
  /\ GoTo(i, "killed")
  /\ UNCHANGED <<pin, cacheVars, staging, preflighted, ownVars, moves, faults>>

(* The deployment repository advances its lock.                            *)
MovePin ==
  /\ moves < MaxMoves
  /\ moves' = moves + 1
  /\ pin' \in Revisions \ {pin}
  /\ UNCHANGED <<cacheVars, staging, preflighted, pc, ownVars, faults>>

Next == MovePin \/ \E i \in Invocations : Begin(i) \/ Invoke(i) \/ Kill(i)

Spec == Init /\ [][Next]_vars
(* Processes are scheduled, and whoever needs the mechanism tries again.   *)
FairSpec == Spec /\ \A i \in Invocations : WF_vars(Invoke(i)) /\ WF_vars(Begin(i))

-----------------------------------------------------------------------------
(* Every variable stays in its domain; only published checkouts hold one.  *)
TypeOK ==
  /\ pin \in Revisions
  /\ current \in verified \cup {None}
  /\ verified \subseteq Revisions /\ nested \subseteq verified
  /\ lock \subseteq Revisions
  /\ staging \subseteq Invocations
  /\ preflighted \subseteq Revisions
  /\ pc \in [Invocations -> {"idle", "current", "verified", "clone", "preflight", "lock",
                             "test", "move", "unlock", "point", "exec", "trap", "killed"}]
  /\ revision \in [Invocations -> Revisions \cup {None}]
  /\ preflight \in [Invocations -> BOOLEAN]
  /\ named \in [Invocations -> BOOLEAN]
  /\ moves \in 0..MaxMoves /\ faults \in 0..MaxFaults

(* SPEC.md: "Cache publication and pointer replacement occur only after    *)
(* candidate verification and pinned preflight succeed."                   *)
PublishedIsPreflighted == verified \cup ({current} \ {None}) \subseteq preflighted

(* SPEC.md: acquisition "may create and remove private cache staging paths": *)
(* an invocation that ends by itself leaves none, however it fails.        *)
StagingRemoved == \A i \in staging : pc[i] # "idle"

(* The error of the loser: "checkout publication already in progress".     *)
(* One invocation at a time is between mkdir and rmdir of a publish lock.  *)
OnePublisher == \A r \in Revisions : Cardinality(Publishing(r)) <= 1

(* A pinned revision is published in the end, though a publisher may be    *)
(* killed while it holds the lock and nothing else ever removes that.      *)
PinPublished == \A r \in Revisions : [](pin = r) ~> (r = Root \/ r \in verified)
=============================================================================

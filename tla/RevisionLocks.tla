---------------------------- MODULE RevisionLocks ----------------------------
(***************************************************************************)
(* The launch locks that keep a revision's files under a running child.    *)
(*                                                                         *)
(* Two families of revision-addressed artifacts follow one protocol: the   *)
(* platform snapshots $RUNTIME_ROOT/.platform/P (ops/launch_child.py and   *)
(* the operator's clean_stale_launch_platforms) and the engine binaries    *)
(* <engine_binary>-E with their receipts (ops/revision_derivation.py).     *)
(* Each revision has a lock file that is created and unlinked by path and  *)
(* locked by inode; a guard file, never unlinked, serialises creation and  *)
(* removal of lock files.  An operator opens the lock shared, forks, and   *)
(* the child inherits the descriptor through exec; a cleanup takes the     *)
(* lock exclusively without blocking.                                      *)
(***************************************************************************)
EXTENDS Naturals, FiniteSets

CONSTANTS
  Family,        \* "platform" or "engine"
  Deployments,   \* deployments that share the artifact directory
  Revisions,     \* revisions a declaration may select
  Operators,     \* operator processes running launch_one side by side
  Children,      \* launched child processes
  None,          \* no revision, no deployment
  MaxLaunches,   \* bound: launches begun in a behaviour
  MaxMoves       \* bound: changes of a declaration's selection

ASSUME RevisionLocksAssumption ==
  /\ Family \in {"platform", "engine"}
  /\ None \notin Revisions \cup Deployments
  /\ MaxLaunches \in Nat
  /\ MaxMoves \in Nat

VARIABLES
  selected,   \* revision each deployment's declaration selects
  content,    \* the artifact of each revision on disk
  path,       \* inode the lock path of each revision names; 0 if it is absent
  inodes,     \* lock inodes created so far
  pc,         \* where an operator is in launch_one
  owner,      \* deployment the operator launches
  rev,        \* revision the operator captured
  keep,       \* revisions its cleanup retains
  done,       \* revisions its cleanup has dealt with
  target,     \* revision under removal
  resume,     \* where the operator goes on after a removal
  fd,         \* inode of the lock descriptor an operator holds open
  cstate,     \* state of each child
  crev,       \* revision the child was launched on
  cfd,        \* inode of the lock descriptor the child inherited
  launches,   \* launches begun
  moves       \* selections changed

opVars == <<pc, owner, rev, keep, done, target, resume, fd>>
childVars == <<cstate, crev, cfd>>
vars == <<selected, content, path, inodes, opVars, childVars, launches, moves>>

(* A snapshot whose removal was cut short may still answer HEAD and the     *)
(* derivation blob ("stripped") or not ("broken"); an engine revision whose *)
(* publication or removal was cut short has no matching receipt ("broken"). *)
Contents == {"absent", "whole", "stripped", "broken"}
(* launch_platform_snapshot_valid and build_is_current.                    *)
Valid(r) == content[r] \in {"whole", "stripped"}

(* Operators inside launch_child's shared section or a cleanup's exclusive *)
(* one, and the locks that are held there.                                 *)
SharedGuardPhases == {"s_open", "s_lock"}
ExclusiveGuardPhases == {"x_open", "x_lock", "x_remove", "x_removing", "x_unlink"}
ExclusiveLockPhases == {"x_remove", "x_removing", "x_unlink"}

GuardShared == {o \in Operators : pc[o] \in SharedGuardPhases}
GuardExclusive == {o \in Operators : pc[o] \in ExclusiveGuardPhases}
LiveChildren == {c \in Children : cstate[c] # "none"}
SharedHeld(i) ==
  \/ \E o \in Operators : pc[o] = "fork" /\ fd[o] = i
  \/ \E c \in LiveChildren : cfd[c] = i
ExclusiveHeld(i) == \E o \in Operators : pc[o] \in ExclusiveLockPhases /\ fd[o] = i

Init ==
  /\ selected \in [Deployments -> Revisions]
  /\ content = [r \in Revisions |-> "absent"]
  /\ path = [r \in Revisions |-> 0]
  /\ inodes = 0
  /\ pc = [o \in Operators |-> "idle"]
  /\ owner = [o \in Operators |-> None]
  /\ rev = [o \in Operators |-> None]
  /\ keep = [o \in Operators |-> {}]
  /\ done = [o \in Operators |-> {}]
  /\ target = [o \in Operators |-> None]
  /\ resume = [o \in Operators |-> "sweep"]
  /\ fd = [o \in Operators |-> 0]
  /\ cstate = [c \in Children |-> "none"]
  /\ crev = [c \in Children |-> None]
  /\ cfd = [c \in Children |-> 0]
  /\ launches = 0
  /\ moves = 0

-----------------------------------------------------------------------------
At(o, where) == pc[o] = where
GoTo(o, where) == pc' = [pc EXCEPT ![o] = where]

(* Mutant: the created inode is not accounted for.                         *)
OpenLockUncounted(o, r) ==
  /\ path' = [path EXCEPT ![r] = IF path[r] = 0 THEN inodes + 1 ELSE path[r]]
  /\ inodes' = inodes
  /\ fd' = [fd EXCEPT ![o] = IF path[r] = 0 THEN inodes + 1 ELSE path[r]]

(* open(O_CREAT) on the lock path of r: the inode it names or a new one.   *)
OpenLock(o, r) ==
  /\ path' = [path EXCEPT ![r] = IF path[r] = 0 THEN inodes + 1 ELSE path[r]]
  /\ inodes' = IF path[r] = 0 THEN inodes + 1 ELSE inodes
  /\ fd' = [fd EXCEPT ![o] = IF path[r] = 0 THEN inodes + 1 ELSE path[r]]

(* The platform cleanup retains the snapshot being launched, the engine    *)
(* cleanup what every deployment selects.                                  *)
Begin(o, d) ==
  /\ At(o, "idle") /\ launches < MaxLaunches
  /\ launches' = launches + 1
  /\ owner' = [owner EXCEPT ![o] = d]
  /\ rev' = [rev EXCEPT ![o] = selected[d]]
  /\ keep' = [keep EXCEPT ![o] =
       IF Family = "platform" THEN {selected[d]}
                              ELSE {selected[e] : e \in Deployments}]
  /\ done' = [done EXCEPT ![o] = {}]
  /\ GoTo(o, "sweep")
  /\ UNCHANGED <<selected, content, path, inodes, target, resume, fd,
                 childVars, moves>>

Stale(o) == {r \in Revisions \ (keep[o] \cup done[o]) :
               content[r] # "absent" \/ path[r] # 0}

StartRemoval(o, r, then) ==
  /\ target' = [target EXCEPT ![o] = r]
  /\ resume' = [resume EXCEPT ![o] = then]

SweepNext(o) ==
  /\ At(o, "sweep")
  /\ \E r \in Stale(o) : StartRemoval(o, r, "sweep")
  /\ GoTo(o, "x_guard")
  /\ UNCHANGED <<selected, content, path, inodes, owner, rev, keep, done, fd,
                 childVars, launches, moves>>

(* The engine revision is resolved after its cleanup, the platform one     *)
(* before.                                                                 *)
SweepEnd(o) ==
  /\ At(o, "sweep") /\ Stale(o) = {}
  /\ rev' = IF Family = "engine" THEN [rev EXCEPT ![o] = selected[owner[o]]] ELSE rev
  /\ GoTo(o, "build")
  /\ UNCHANGED <<selected, content, path, inodes, owner, keep, done, target,
                 resume, fd, childVars, launches, moves>>

(* flock(guard, LOCK_EX).                                                  *)
GuardForRemoval(o) ==
  /\ At(o, "x_guard")
  /\ GuardShared = {} /\ GuardExclusive = {}
  /\ GoTo(o, "x_open")
  /\ UNCHANGED <<selected, content, path, inodes, owner, rev, keep, done,
                 target, resume, fd, childVars, launches, moves>>

OpenForRemoval(o) ==
  /\ At(o, "x_open")
  /\ OpenLock(o, target[o])
  /\ GoTo(o, "x_lock")
  /\ UNCHANGED <<selected, content, owner, rev, keep, done, target, resume,
                 childVars, launches, moves>>

(* What follows one revision: the engine cleanup keeps the guard for the   *)
(* next one, the platform cleanup runs one removal per guard section.      *)
EndRemoval(o) ==
  /\ done' = [done EXCEPT ![o] = @ \cup {target[o]}]
  /\ fd' = [fd EXCEPT ![o] = 0]
  /\ \/ /\ Family = "engine"
        /\ \E r \in Stale(o) \ {target[o]} : target' = [target EXCEPT ![o] = r]
        /\ GoTo(o, "x_open")
     \/ /\ Family = "engine" => Stale(o) \subseteq {target[o]}
        /\ GoTo(o, resume[o])
        /\ UNCHANGED target

(* Mutant: without LOCK_NB the cleanup waits for the holder of the lock.    *)
LockBusyWaits(o) ==
  /\ At(o, "x_lock")
  /\ SharedHeld(fd[o]) \/ ExclusiveHeld(fd[o])
  /\ UNCHANGED vars

(* flock(lock, LOCK_EX | LOCK_NB): a held lock retains the revision.  A     *)
(* launch that must rebuild an invalid snapshot in use fails.              *)
LockBusy(o) ==
  /\ At(o, "x_lock")
  /\ SharedHeld(fd[o]) \/ ExclusiveHeld(fd[o])
  /\ IF resume[o] = "sweep"
       THEN EndRemoval(o)
       ELSE /\ GoTo(o, "idle")
            /\ fd' = [fd EXCEPT ![o] = 0]
            /\ UNCHANGED <<done, target>>
  /\ UNCHANGED <<selected, content, path, inodes, owner, rev, keep, resume,
                 childVars, launches, moves>>

(* Mutant: the cleanup does not try the lock of the revision.              *)
LockExclusiveUntried(o) ==
  /\ At(o, "x_lock")
  /\ GoTo(o, "x_remove")
  /\ UNCHANGED <<selected, content, path, inodes, owner, rev, keep, done,
                 target, resume, fd, childVars, launches, moves>>

LockExclusive(o) ==
  /\ At(o, "x_lock")
  /\ ~SharedHeld(fd[o]) /\ ~ExclusiveHeld(fd[o])
  /\ GoTo(o, "x_remove")
  /\ UNCHANGED <<selected, content, path, inodes, owner, rev, keep, done,
                 target, resume, fd, childVars, launches, moves>>

(* Files go one by one: rmtree in directory order, or binary then receipt. *)
RemoveBegin(o) ==
  /\ At(o, "x_remove")
  /\ IF content[target[o]] = "absent"
       THEN UNCHANGED content
       ELSE \E left \in {"broken"} \cup (IF Family = "platform" THEN {"stripped"} ELSE {}) :
              content' = [content EXCEPT ![target[o]] = left]
  /\ GoTo(o, "x_removing")
  /\ UNCHANGED <<selected, path, inodes, owner, rev, keep, done, target,
                 resume, fd, childVars, launches, moves>>

RemoveEnd(o) ==
  /\ At(o, "x_removing")
  /\ content' = [content EXCEPT ![target[o]] = "absent"]
  /\ GoTo(o, "x_unlink")
  /\ UNCHANGED <<selected, path, inodes, owner, rev, keep, done, target,
                 resume, fd, childVars, launches, moves>>

UnlinkLock(o) ==
  /\ At(o, "x_unlink")
  /\ path' = [path EXCEPT ![target[o]] = 0]
  /\ EndRemoval(o)
  /\ UNCHANGED <<selected, content, inodes, owner, rev, keep, resume,
                 childVars, launches, moves>>

(* materialise_launch_platform and ensure_engine_binary_current.  An       *)
(* invalid snapshot is removed under the locks; an engine build publishes  *)
(* its product and receipt without them.                                   *)
Build(o) ==
  /\ At(o, "build")
  /\ \/ /\ Valid(rev[o])
        /\ GoTo(o, "verify")
        /\ UNCHANGED <<content, target, resume>>
     \/ /\ Family = "platform" /\ content[rev[o]] = "broken"
        /\ StartRemoval(o, rev[o], "materialise")
        /\ GoTo(o, "x_guard")
        /\ UNCHANGED content
     \/ /\ Family = "platform" /\ content[rev[o]] = "absent"
        /\ GoTo(o, "materialise")
        /\ UNCHANGED <<content, target, resume>>
     \/ /\ Family = "engine" /\ ~Valid(rev[o])
        /\ content' = [content EXCEPT ![rev[o]] = "whole"]
        /\ GoTo(o, "verify")
        /\ UNCHANGED <<target, resume>>
     \/ /\ ~Valid(rev[o])
        /\ GoTo(o, "idle")
        /\ UNCHANGED <<content, target, resume>>
  /\ UNCHANGED <<selected, path, inodes, owner, rev, keep, done, fd,
                 childVars, launches, moves>>

(* The clone is renamed into place unless another launch was first.        *)
Materialise(o) ==
  /\ At(o, "materialise")
  /\ content' = IF content[rev[o]] = "absent"
                  THEN [content EXCEPT ![rev[o]] = "whole"] ELSE content
  /\ GoTo(o, "verify")
  /\ UNCHANGED <<selected, path, inodes, owner, rev, keep, done, target,
                 resume, fd, childVars, launches, moves>>

(* The last check before the spawn.                                        *)
Verify(o) ==
  /\ At(o, "verify")
  /\ GoTo(o, IF Valid(rev[o]) THEN "s_guard" ELSE "idle")
  /\ UNCHANGED <<selected, content, path, inodes, owner, rev, keep, done,
                 target, resume, fd, childVars, launches, moves>>

(* Mutant: the launch opens the lock file without the guard.               *)
GuardForLaunchSkipped(o) ==
  /\ At(o, "s_guard")
  /\ GoTo(o, "s_open")
  /\ UNCHANGED <<selected, content, path, inodes, owner, rev, keep, done,
                 target, resume, fd, childVars, launches, moves>>

(* open_shared_revision_lock: flock(guard, LOCK_SH), open, flock(LOCK_SH). *)
GuardForLaunch(o) ==
  /\ At(o, "s_guard")
  /\ GuardExclusive = {}
  /\ GoTo(o, "s_open")
  /\ UNCHANGED <<selected, content, path, inodes, owner, rev, keep, done,
                 target, resume, fd, childVars, launches, moves>>

OpenForLaunch(o) ==
  /\ At(o, "s_open")
  /\ OpenLock(o, rev[o])
  /\ GoTo(o, "s_lock")
  /\ UNCHANGED <<selected, content, owner, rev, keep, done, target, resume,
                 childVars, launches, moves>>

LockShared(o) ==
  /\ At(o, "s_lock")
  /\ ~ExclusiveHeld(fd[o])
  /\ GoTo(o, "fork")
  /\ UNCHANGED <<selected, content, path, inodes, owner, rev, keep, done,
                 target, resume, fd, childVars, launches, moves>>

(* The child inherits the open file description; the parent closes its     *)
(* descriptor, which releases nothing.                                     *)
Fork(o, c) ==
  /\ At(o, "fork") /\ cstate[c] = "none"
  /\ cstate' = [cstate EXCEPT ![c] = "contract"]
  /\ crev' = [crev EXCEPT ![c] = rev[o]]
  /\ cfd' = [cfd EXCEPT ![c] = fd[o]]
  /\ fd' = [fd EXCEPT ![o] = 0]
  /\ GoTo(o, "idle")
  /\ UNCHANGED <<selected, content, path, inodes, owner, rev, keep, done,
                 target, resume, launches, moves>>

(* os.fork fails: the launch gives up and its descriptors close.           *)
ForkFails(o) ==
  /\ At(o, "fork")
  /\ GoTo(o, "idle")
  /\ fd' = [fd EXCEPT ![o] = 0]
  /\ UNCHANGED <<selected, content, path, inodes, owner, rev, keep, done,
                 target, resume, childVars, launches, moves>>

(* An operator dies at any point and the kernel drops its locks.           *)
OperatorDies(o) ==
  /\ ~At(o, "idle")
  /\ GoTo(o, "idle")
  /\ fd' = [fd EXCEPT ![o] = 0]
  /\ UNCHANGED <<selected, content, path, inodes, owner, rev, keep, done,
                 target, resume, childVars, launches, moves>>

(* The host-run contract of the child: the platform checkout must be a     *)
(* work tree with its packages, the engine bytes must match the receipt.   *)
ContractPasses(c) ==
  /\ cstate[c] = "contract"
  /\ content[crev[c]] \in {"whole", "stripped"}
  /\ cstate' = [cstate EXCEPT ![c] = "running"]
  /\ UNCHANGED <<selected, content, path, inodes, opVars, crev, cfd, launches, moves>>

ChildExits(c) ==
  /\ cstate[c] # "none"
  /\ cstate' = [cstate EXCEPT ![c] = "none"]
  /\ cfd' = [cfd EXCEPT ![c] = 0]
  /\ UNCHANGED <<selected, content, path, inodes, opVars, crev, launches, moves>>

(* The deployment's checkout moves to another revision (sync, pin advance). *)
Move(d) ==
  /\ moves < MaxMoves
  /\ moves' = moves + 1
  /\ \E r \in Revisions \ {selected[d]} : selected' = [selected EXCEPT ![d] = r]
  /\ UNCHANGED <<content, path, inodes, opVars, childVars, launches>>

LaunchStep(o) ==
  \/ SweepNext(o) \/ SweepEnd(o)
  \/ GuardForRemoval(o) \/ OpenForRemoval(o) \/ LockBusy(o) \/ LockExclusive(o)
  \/ RemoveBegin(o) \/ RemoveEnd(o) \/ UnlinkLock(o)
  \/ Build(o) \/ Materialise(o) \/ Verify(o)
  \/ GuardForLaunch(o) \/ OpenForLaunch(o) \/ LockShared(o)
  \/ ForkFails(o) \/ \E c \in Children : Fork(o, c)

Next ==
  \/ \E o \in Operators : LaunchStep(o) \/ OperatorDies(o)
  \/ \E o \in Operators, d \in Deployments : Begin(o, d)
  \/ \E c \in Children : ContractPasses(c) \/ ChildExits(c)
  \/ \E d \in Deployments : Move(d)

Spec == Init /\ [][Next]_vars
(* Operators are scheduled and flock wakes its waiters.                    *)
FairSpec == Spec /\ \A o \in Operators : WF_vars(LaunchStep(o))

-----------------------------------------------------------------------------
(* Every variable stays in its domain, and no descriptor or lock path      *)
(* names an inode that was not created.                                    *)
Phases == {"idle", "sweep", "x_guard", "build", "materialise", "verify",
           "s_guard", "fork"} \cup SharedGuardPhases \cup ExclusiveGuardPhases
TypeOK ==
  /\ selected \in [Deployments -> Revisions]
  /\ content \in [Revisions -> Contents]
  /\ inodes \in Nat
  /\ path \in [Revisions -> 0..inodes]
  /\ pc \in [Operators -> Phases]
  /\ owner \in [Operators -> Deployments \cup {None}]
  /\ rev \in [Operators -> Revisions \cup {None}]
  /\ keep \in [Operators -> SUBSET Revisions]
  /\ done \in [Operators -> SUBSET (Revisions \cup {None})]
  /\ target \in [Operators -> Revisions \cup {None}]
  /\ resume \in [Operators -> {"sweep", "materialise"}]
  /\ fd \in [Operators -> 0..inodes]
  /\ cstate \in [Children -> {"none", "contract", "running"}]
  /\ crev \in [Children -> Revisions \cup {None}]
  /\ cfd \in [Children -> 0..inodes]
  /\ launches \in 0..MaxLaunches
  /\ moves \in 0..MaxMoves

(* SPEC.md: "A stable guard serializes revision-lock creation and removal, *)
(* so internal cleanup cannot split lock identity".  The inode a child     *)
(* holds shared is the one a later cleanup finds at the lock path.         *)
LockIdentity == \A c \in LiveChildren : path[crev[c]] = cfd[c] /\ cfd[c] # 0

(* SPEC.md: cleanup "removes only revisions ... held by no live child".    *)
(* Nothing a cleanup or a rebuild does touches the files of a revision     *)
(* while a child that passed the contract on it lives.                     *)
RunningRevisionUntouched ==
  [][\A c \in Children : cstate[c] = "running" =>
       content'[crev[c]] = content[crev[c]]]_vars

(* The guard, the revision locks and the order they are taken in never     *)
(* leave operators waiting for one another: every launch ends.             *)
LaunchesEnd == \A o \in Operators : ~At(o, "idle") ~> At(o, "idle")
=============================================================================

---------------------------- MODULE EngineBuild ----------------------------
(***************************************************************************)
(* Engine builds: the hydration of watch/source_hydration.py, which brings *)
(* the artifacts of all declared deployments up to date one after the      *)
(* other, and the build operation of providers/engine.py, which makes one. *)
(* Both lock a checkout, detach it at the revision, build, copy the        *)
(* product, link the copy to the name of its revision and write a receipt  *)
(* with the digest of what is at that name.  A cleanup removes artifacts   *)
(* without those locks.  A process may be killed before any of its steps.  *)
(***************************************************************************)
EXTENDS Naturals, Nothing, Sequences

CONSTANTS
  Hydrations, Builders, \* processes of either kind
  Declared,             \* what each is asked for: a sequence of deployments
  Revisions, Checkouts, Commands,
  Variants,             \* builds of one revision that differ in their bytes
  MaxBuilds, MaxBuildFaults, MaxSweeps \* bounds: starts of a process, kills and failures, cleanups

Processes == Hydrations \cup Builders
Deployments == [rev : Revisions, checkout : Checkouts, command : Commands]
Bytes == [rev : Revisions, command : Commands, variant : Variants]
Receipts == [command : Commands, digest : Bytes]

ASSUME BuildAssumption ==
  /\ Hydrations \cap Builders = {}
  /\ Declared \in [Processes -> Seq(Deployments)]
  /\ \A p \in Processes : Len(Declared[p]) > 0
  /\ \A p \in Builders : Len(Declared[p]) = 1
  /\ None \notin Revisions \cup Bytes \cup Receipts \cup Deployments
  /\ MaxBuilds \in Nat /\ MaxBuildFaults \in Nat /\ MaxSweeps \in Nat

VARIABLES
  head,     \* the revision a checkout is detached at
  product,  \* what target/debug of a checkout holds
  binary, receipt, \* the artifact of a revision and its receipt
  step,     \* where a process is
  job,      \* the build it is at
  todo,     \* the declared deployments, by index, it has left
  held,     \* checkouts whose lock stream it references
  copy,     \* its temporary copy of the product
  digest,   \* what it read of the artifact for the receipt
  runs, faults,
  sweep,    \* the artifact a cleanup has unlinked and not yet its receipt
  sweeps

artifacts == <<binary, receipt>>
jobs == <<job, todo>>
own == <<step, jobs, held, copy, digest>>
buildVars == <<head, product, artifacts, own, runs, faults, sweep, sweeps>>

BuildInit ==
  /\ head = [c \in Checkouts |-> None] /\ product = [c \in Checkouts |-> None]
  /\ binary = [r \in Revisions |-> None] /\ receipt = [r \in Revisions |-> None]
  /\ step = [p \in Processes |-> "idle"]
  /\ job = [p \in Processes |-> None] /\ todo = [p \in Processes |-> {}]
  /\ held = [p \in Processes |-> {}]
  /\ copy = [p \in Processes |-> None] /\ digest = [p \in Processes |-> None]
  /\ runs = [p \in Processes |-> 0] /\ faults = 0
  /\ sweep = None /\ sweeps = 0

StepIs(p, s) == step[p] = s
StepTo(p, s) == step' = [step EXCEPT ![p] = s]
Running(p) == step[p] \notin {"idle", "done", "failed"}
CurrentWithoutReceipt(d) == binary[d.rev] # None \* a faulty variant
Current(d) ==
  /\ binary[d.rev] # None
  /\ receipt[d.rev] = [command |-> d.command, digest |-> binary[d.rev]]

-----------------------------------------------------------------------------
(* Two deployments that name one artifact must want it built alike; the    *)
(* builds are the different ones, in the order they were declared.         *)
Conflicting(ds) == \E i, j \in DOMAIN ds : ds[i].rev = ds[j].rev /\ ds[i] # ds[j]
Take(p, i, left) ==
  /\ job' = [job EXCEPT ![p] = Declared[p][i]]
  /\ todo' = [todo EXCEPT ![p] = {j \in left : Declared[p][j] # Declared[p][i]}]

BeginBuild(p) ==
  /\ ~Running(p) /\ runs[p] < MaxBuilds
  /\ runs' = [runs EXCEPT ![p] = @ + 1]
  /\ IF Conflicting(Declared[p])
       THEN StepTo(p, "failed") /\ UNCHANGED jobs
       ELSE StepTo(p, IF p \in Hydrations THEN "look" ELSE "lock") /\ Take(p, 1, DOMAIN Declared[p])
  /\ UNCHANGED <<head, product, artifacts, held, copy, digest, faults, sweep, sweeps>>

ExitLocked(p, s) == \* a faulty variant: the lock outlives its holder
  /\ StepTo(p, s) /\ UNCHANGED held
  /\ job' = [job EXCEPT ![p] = None] /\ todo' = [todo EXCEPT ![p] = {}]
  /\ copy' = [copy EXCEPT ![p] = None] /\ digest' = [digest EXCEPT ![p] = None]
(* Process exit, in whatever way, closes the lock streams.                 *)
ExitBuild(p, s) ==
  /\ StepTo(p, s) /\ held' = [held EXCEPT ![p] = {}]
  /\ job' = [job EXCEPT ![p] = None] /\ todo' = [todo EXCEPT ![p] = {}]
  /\ copy' = [copy EXCEPT ![p] = None] /\ digest' = [digest EXCEPT ![p] = None]
(* After a build, or a build that was current.  The lock of the checkout   *)
(* stays referenced until the variable is bound again.                     *)
NextJob(p) ==
  IF todo[p] = {}
    THEN ExitBuild(p, "done")
    ELSE /\ StepTo(p, "look")
         /\ \E i \in todo[p] : (\A j \in todo[p] : i <= j) /\ Take(p, i, todo[p])
         /\ copy' = [copy EXCEPT ![p] = None] /\ digest' = [digest EXCEPT ![p] = None]
         /\ UNCHANGED held

Look(p) ==
  /\ StepIs(p, "look")
  /\ IF Current(job[p]) THEN NextJob(p)
     ELSE StepTo(p, "lock") /\ UNCHANGED <<jobs, held, copy, digest>>
  /\ UNCHANGED <<head, product, artifacts, runs, faults, sweep, sweeps>>

LockOwnOnly(p) == \* a faulty variant: nobody waits
  /\ StepIs(p, "lock")
  /\ held' = [held EXCEPT ![p] = {job[p].checkout}]
  /\ StepTo(p, "source")
  /\ UNCHANGED <<head, product, artifacts, jobs, copy, digest, runs, faults, sweep, sweeps>>
(* flock blocks while any open stream holds it, also one of this process.  *)
LockCheckout(p) ==
  /\ StepIs(p, "lock")
  /\ \A q \in Processes : job[p].checkout \notin held[q]
  /\ held' = [held EXCEPT ![p] = {job[p].checkout}]
  /\ StepTo(p, "source")
  /\ UNCHANGED <<head, product, artifacts, jobs, copy, digest, runs, faults, sweep, sweeps>>

(* Clone, or fetch and detach.                                             *)
Source(p) ==
  /\ StepIs(p, "source")
  /\ head' = [head EXCEPT ![job[p].checkout] = job[p].rev]
  /\ StepTo(p, "build")
  /\ UNCHANGED <<product, artifacts, jobs, held, copy, digest, runs, faults, sweep, sweeps>>

(* Hydration looks again under the lock; the provider always builds.       *)
Build(p) ==
  /\ StepIs(p, "build")
  /\ IF p \in Hydrations /\ Current(job[p])
       THEN NextJob(p) /\ UNCHANGED product
       ELSE /\ \E v \in Variants :
                 product' = [product EXCEPT ![job[p].checkout] =
                   [rev |-> head[job[p].checkout], command |-> job[p].command, variant |-> v]]
            /\ StepTo(p, "verify") /\ UNCHANGED <<jobs, held, copy, digest>>
  /\ UNCHANGED <<head, artifacts, runs, faults, sweep, sweeps>>

Verify(p) ==
  /\ StepIs(p, "verify")
  /\ IF head[job[p].checkout] = job[p].rev
       THEN StepTo(p, "copy") /\ UNCHANGED <<jobs, held, copy, digest>>
       ELSE ExitBuild(p, "failed")
  /\ UNCHANGED <<head, product, artifacts, runs, faults, sweep, sweeps>>

Copy(p) ==
  /\ StepIs(p, "copy")
  /\ copy' = [copy EXCEPT ![p] = product[job[p].checkout]]
  /\ StepTo(p, "link")
  /\ UNCHANGED <<head, product, artifacts, jobs, held, digest, runs, faults, sweep, sweeps>>

LinkReplaces(p) == \* a faulty variant: rename instead of link
  /\ StepIs(p, "link")
  /\ binary' = [binary EXCEPT ![job[p].rev] = copy[p]]
  /\ StepTo(p, "digest") /\ UNCHANGED <<jobs, held, copy, digest>>
  /\ UNCHANGED <<head, product, receipt, runs, faults, sweep, sweeps>>
(* link(2) creates or fails; an artifact that exists must have the bytes.  *)
Link(p) ==
  /\ StepIs(p, "link")
  /\ \/ /\ binary[job[p].rev] = None
        /\ binary' = [binary EXCEPT ![job[p].rev] = copy[p]]
        /\ StepTo(p, "digest") /\ UNCHANGED <<jobs, held, copy, digest>>
     \/ /\ binary[job[p].rev] = copy[p]
        /\ StepTo(p, "digest") /\ UNCHANGED <<binary, jobs, held, copy, digest>>
     \/ /\ binary[job[p].rev] \notin {None, copy[p]}
        /\ ExitBuild(p, "failed") /\ UNCHANGED binary
  /\ UNCHANGED <<head, product, receipt, runs, faults, sweep, sweeps>>

DigestUnchecked(p) == \* a faulty variant: a receipt also of what is not there
  /\ StepIs(p, "digest")
  /\ digest' = [digest EXCEPT ![p] = binary[job[p].rev]] /\ StepTo(p, "receipt")
  /\ UNCHANGED <<head, product, artifacts, jobs, held, copy, runs, faults, sweep, sweeps>>
(* The receipt is about the bytes at the name, which a cleanup may have    *)
(* removed, and is put in place by a rename.                               *)
Digest(p) ==
  /\ StepIs(p, "digest")
  /\ IF binary[job[p].rev] = None
       THEN ExitBuild(p, "failed")
       ELSE /\ digest' = [digest EXCEPT ![p] = binary[job[p].rev]]
            /\ StepTo(p, "receipt") /\ UNCHANGED <<jobs, held, copy>>
  /\ UNCHANGED <<head, product, artifacts, runs, faults, sweep, sweeps>>

Receipt(p) ==
  /\ StepIs(p, "receipt")
  /\ receipt' = [receipt EXCEPT ![job[p].rev] = [command |-> job[p].command, digest |-> digest[p]]]
  /\ NextJob(p)
  /\ UNCHANGED <<head, product, binary, runs, faults, sweep, sweeps>>

(* A clone, fetch, build or copy that fails, or the death of the process.  *)
Fault(p) ==
  /\ Running(p) /\ faults < MaxBuildFaults
  /\ faults' = faults + 1
  /\ ExitBuild(p, "failed")
  /\ UNCHANGED <<head, product, artifacts, runs, sweep, sweeps>>

-----------------------------------------------------------------------------
(* Reclaim of an artifact no declaration selects: binary, then receipt.    *)
ReclaimBinary(r) ==
  /\ sweep = None /\ sweeps < MaxSweeps
  /\ sweep' = r /\ sweeps' = sweeps + 1
  /\ binary' = [binary EXCEPT ![r] = None]
  /\ UNCHANGED <<head, product, receipt, own, runs, faults>>
ReclaimReceipt ==
  /\ sweep # None
  /\ receipt' = [receipt EXCEPT ![sweep] = None]
  /\ sweep' = None
  /\ UNCHANGED <<head, product, binary, own, runs, faults, sweeps>>

Step(p) ==
  \/ Look(p) \/ LockCheckout(p) \/ Source(p) \/ Build(p) \/ Verify(p)
  \/ Copy(p) \/ Link(p) \/ Digest(p) \/ Receipt(p)
BuildNext ==
  \/ \E p \in Processes : BeginBuild(p) \/ Step(p) \/ Fault(p)
  \/ \E r \in Revisions : ReclaimBinary(r)
  \/ ReclaimReceipt

BuildSpec == BuildInit /\ [][BuildNext]_buildVars
BuildFairness == \A p \in Processes : WF_buildVars(Step(p))
FairBuildSpec == BuildSpec /\ BuildFairness

BuildTypeOK ==
  /\ head \in [Checkouts -> Revisions \cup {None}]
  /\ product \in [Checkouts -> Bytes \cup {None}]
  /\ binary \in [Revisions -> Bytes \cup {None}]
  /\ receipt \in [Revisions -> Receipts \cup {None}]
  /\ step \in [Processes -> {"idle", "look", "lock", "source", "build", "verify", "copy",
                             "link", "digest", "receipt", "done", "failed"}]
  /\ job \in [Processes -> Deployments \cup {None}]
  /\ todo \in [Processes -> SUBSET Nat]
  /\ \A p \in Processes : todo[p] \subseteq DOMAIN Declared[p]
  /\ held \in [Processes -> SUBSET Checkouts]
  /\ copy \in [Processes -> Bytes \cup {None}]
  /\ digest \in [Processes -> Bytes \cup {None}]
  /\ runs \in [Processes -> 0..MaxBuilds] /\ faults \in 0..MaxBuildFaults
  /\ sweep \in Revisions \cup {None} /\ sweeps \in 0..MaxSweeps

-----------------------------------------------------------------------------
(* An artifact whose receipt makes it current was built from the revision  *)
(* in its name, by the command in the receipt, whoever shares checkouts.   *)
CurrentIsBuilt ==
  \A r \in Revisions, k \in Commands :
    Current([rev |-> r, checkout |-> None, command |-> k])
      => binary[r].rev = r /\ binary[r].command = k
(* A published artifact keeps its bytes until a cleanup removes it: a      *)
(* child may be running from it.                                           *)
BytesStay == [][\A r \in Revisions : binary[r] # None => binary'[r] \in {binary[r], None}]_buildVars
(* A hydration or build that succeeded leaves its artifacts with a receipt *)
(* of their bytes, also over what a killed one left, unless a cleanup ran. *)
DoneIsPublished ==
  \A p \in Processes : step[p] = "done" /\ sweeps = 0 =>
    \A i \in DOMAIN Declared[p] : LET r == Declared[p][i].rev IN
      binary[r] # None /\ receipt[r] # None /\ receipt[r].digest = binary[r]
(* Hydrations and builds end: nobody waits for a checkout for ever.        *)
BuildsEnd == \A p \in Processes : Running(p) ~> ~Running(p)
=============================================================================

----------------------------- MODULE SourceProofs -----------------------------
(***************************************************************************)
(* The artifacts and checkouts a hydration leaves.  A current artifact is  *)
(* of its revision and a build that succeeded has published it, for any    *)
(* number of hydrations and builders, whatever checkouts, revisions and    *)
(* commands they share, with kills, failed builds and cleanups at any      *)
(* point.  A branch checkout that is accepted has what was at the remote,  *)
(* and loses no commit, whoever works in it.                               *)
(***************************************************************************)
EXTENDS EngineBuild, BranchCheckout, TLAPS

(* Engine builds: watch/source_hydration.py and providers/engine.py.       *)
(* Some declared deployment wants revision r built by command k.           *)
WantedFor(k, r) ==
  \E p \in Processes : \E i \in DOMAIN Declared[p] :
    Declared[p][i].rev = r /\ Declared[p][i].command = k
BuiltFor(b, r) == b \in Bytes /\ b.rev = r /\ WantedFor(b.command, r)

(* A process is at a build that was declared; until it has copied the      *)
(* product it holds the checkout, whose head and product are its own; what *)
(* it copied, and the digest it took, are of the revision it was asked for.*)
UnderLock == {"source", "build", "verify", "copy", "link", "digest", "receipt"}
Mine(p) ==
  /\ Running(p) => \E i \in DOMAIN Declared[p] : job[p] = Declared[p][i]
  /\ step[p] \in UnderLock => job[p].checkout \in held[p]
  /\ step[p] \in {"build", "verify", "copy"} => head[job[p].checkout] = job[p].rev
  /\ step[p] \in {"verify", "copy"} => BuiltFor(product[job[p].checkout], job[p].rev)
  /\ step[p] = "link" => BuiltFor(copy[p], job[p].rev)
  /\ step[p] = "receipt" => BuiltFor(digest[p], job[p].rev)

(* No checkout is locked twice.                                            *)
LockExcludes == \A p, q \in Processes : p # q => held[p] \cap held[q] = {}

ArtifactsBuilt ==
  \A r \in Revisions :
    /\ binary[r] # None => BuiltFor(binary[r], r)
    /\ receipt[r] # None => WantedFor(receipt[r].command, r)

BuildInv == BuildTypeOK /\ (\A p \in Processes : Mine(p)) /\ LockExcludes /\ ArtifactsBuilt

(* What is declared is a deployment, and wanted for its revision.          *)
LEMMA DeclaredWanted ==
  ASSUME NEW p \in Processes, NEW i \in DOMAIN Declared[p]
  PROVE  /\ Declared[p][i] \in Deployments
         /\ WantedFor(Declared[p][i].command, Declared[p][i].rev)
  BY BuildAssumption DEF WantedFor

LEMMA JobWanted ==
  ASSUME NEW p \in Processes, Mine(p), Running(p)
  PROVE  job[p] \in Deployments /\ WantedFor(job[p].command, job[p].rev)
  BY DeclaredWanted DEF Mine

LEMMA BuildInitInv == BuildInit => BuildInv
<1> SUFFICES ASSUME BuildInit PROVE BuildInv
  OBVIOUS
<1>1. BuildTypeOK
  BY BuildAssumption DEF BuildInit, BuildTypeOK
<1>2. \A p \in Processes : Mine(p)
  BY DEF BuildInit, Mine, Running, UnderLock
<1> QED BY <1>1, <1>2 DEF BuildInit, BuildInv, LockExcludes, ArtifactsBuilt

-----------------------------------------------------------------------------
(* The steps of one process do not disturb another, as they touch only     *)
(* checkouts it holds.                                                     *)
LEMMA OthersKeep ==
  ASSUME BuildInv, NEW p \in Processes, NEW q \in Processes, q # p,
         step'[q] = step[q], job'[q] = job[q], held'[q] = held[q],
         copy'[q] = copy[q], digest'[q] = digest[q],
         \A c \in Checkouts : c \notin held[p] => head'[c] = head[c] /\ product'[c] = product[c]
  PROVE  Mine(q)'
<1>1. step[q] \in UnderLock => job[q].checkout \in Checkouts /\ job[q].checkout \notin held[p]
  <2>1. step[q] \in UnderLock => Running(q)
    BY DEF UnderLock, Running
  <2> QED BY <2>1, JobWanted DEF BuildInv, Mine, LockExcludes, Deployments
<1>2. step[q] \in UnderLock =>
        head'[job[q].checkout] = head[job[q].checkout] /\
             product'[job[q].checkout] = product[job[q].checkout]
  BY <1>1
<1> QED BY <1>2 DEF BuildInv, Mine, UnderLock, Running

(* A process that exits leaves nothing of its own.                         *)
LEMMA ExitKeeps ==
  ASSUME BuildInv, NEW p \in Processes, NEW s \in {"done", "failed"}, ExitBuild(p, s),
         UNCHANGED <<head, product, artifacts>>, runs' \in [Processes -> 0..MaxBuilds],
         faults' \in 0..MaxBuildFaults, UNCHANGED <<sweep, sweeps>>
  PROVE  BuildInv'
<1>1. BuildTypeOK'
  BY DEF BuildInv, BuildTypeOK, ExitBuild, StepTo, artifacts
<1>2. Mine(p)'
  BY DEF BuildInv, BuildTypeOK, ExitBuild, StepTo, Mine, Running, UnderLock
<1>3. ASSUME NEW q \in Processes, q # p PROVE Mine(q)'
  BY <1>3, OthersKeep DEF BuildInv, BuildTypeOK, ExitBuild, StepTo
<1>4. LockExcludes'
  BY DEF BuildInv, BuildTypeOK, ExitBuild, LockExcludes
<1>5. ArtifactsBuilt'
  BY DEF BuildInv, ArtifactsBuilt, artifacts
<1> QED BY <1>1, <1>2, <1>3, <1>4, <1>5 DEF BuildInv

(* Taking the next build, the locks stay.                                  *)
LEMMA NextJobKeeps ==
  ASSUME BuildInv, NEW p \in Processes, NextJob(p), UNCHANGED <<head, product, binary>>,
         receipt' \in [Revisions -> Receipts \cup {None}], ArtifactsBuilt',
         UNCHANGED <<runs, faults, sweep, sweeps>>
  PROVE  BuildInv'
<1>1. CASE todo[p] = {}
  <2>1. ExitBuild(p, "done")
    BY <1>1 DEF NextJob
  <2>2. BuildTypeOK'
    BY <2>1 DEF BuildInv, BuildTypeOK, ExitBuild, StepTo
  <2>3. Mine(p)'
    BY <2>1 DEF BuildInv, BuildTypeOK, ExitBuild, StepTo, Mine, Running, UnderLock
  <2>4. ASSUME NEW q \in Processes, q # p PROVE Mine(q)'
    BY <2>1, <2>4, OthersKeep DEF BuildInv, BuildTypeOK, ExitBuild, StepTo
  <2>5. LockExcludes'
    BY <2>1 DEF BuildInv, BuildTypeOK, ExitBuild, LockExcludes
  <2> QED BY <2>2, <2>3, <2>4, <2>5 DEF BuildInv
<1>2. CASE todo[p] # {}
  <2>1. PICK i \in todo[p] : Take(p, i, todo[p])
    BY <1>2 DEF NextJob
  <2>2. /\ step' = [step EXCEPT ![p] = "look"] /\ held' = held
        /\ copy' = [copy EXCEPT ![p] = None] /\ digest' = [digest EXCEPT ![p] = None]
    BY <1>2 DEF NextJob, StepTo
  <2>3. i \in DOMAIN Declared[p] /\ Declared[p][i] \in Deployments
    BY DeclaredWanted DEF BuildInv, BuildTypeOK
  <2>4. BuildTypeOK'
    BY <2>1, <2>2, <2>3 DEF BuildInv, BuildTypeOK, Take
  <2>5. Mine(p)'
    BY <2>1, <2>2, <2>3 DEF BuildInv, BuildTypeOK, Take, Mine, Running, UnderLock
  <2>6. ASSUME NEW q \in Processes, q # p PROVE Mine(q)'
    BY <2>1, <2>2, <2>6, OthersKeep DEF BuildInv, BuildTypeOK, Take
  <2>7. LockExcludes'
    BY <2>2 DEF BuildInv, LockExcludes
  <2> QED BY <2>4, <2>5, <2>6, <2>7 DEF BuildInv
<1> QED BY <1>1, <1>2

-----------------------------------------------------------------------------
LEMMA BeginKeeps == ASSUME BuildInv, NEW p \in Processes, BeginBuild(p) PROVE BuildInv'
<1>1. runs' \in [Processes -> 0..MaxBuilds]
  BY BuildAssumption DEF BeginBuild, BuildInv, BuildTypeOK
<1>2. UNCHANGED <<head, product, binary, receipt, held, copy, digest, faults, sweep, sweeps>>
  BY DEF BeginBuild, artifacts
<1>3. CASE Conflicting(Declared[p])
  <2>1. step' = [step EXCEPT ![p] = "failed"] /\ UNCHANGED <<job, todo>>
    BY <1>3 DEF BeginBuild, StepTo, jobs
  <2>2. BuildTypeOK'
    BY <1>1, <1>2, <2>1 DEF BuildInv, BuildTypeOK
  <2>3. Mine(p)'
    BY <2>1 DEF BuildInv, BuildTypeOK, Mine, Running, UnderLock
  <2>4. ASSUME NEW q \in Processes, q # p PROVE Mine(q)'
    BY <1>2, <2>1, <2>4, OthersKeep DEF BuildInv, BuildTypeOK
  <2> QED BY <1>2, <2>2, <2>3, <2>4 DEF BuildInv, LockExcludes, ArtifactsBuilt
<1>4. CASE ~Conflicting(Declared[p])
  <2>1. PICK s \in {"look", "lock"} : step' = [step EXCEPT ![p] = s]
    BY <1>4 DEF BeginBuild, StepTo
  <2>2. /\ job' = [job EXCEPT ![p] = Declared[p][1]]
        /\ todo' = [todo EXCEPT ![p] = {j \in DOMAIN Declared[p] : Declared[p][j] # Declared[p][1]}]
    BY <1>4 DEF BeginBuild, Take
  <2>3. 1 \in DOMAIN Declared[p] /\ Declared[p][1] \in Deployments /\
             DOMAIN Declared[p] \subseteq Nat
    BY BuildAssumption
  <2>4. BuildTypeOK'
    BY <1>1, <1>2, <2>1, <2>2, <2>3 DEF BuildInv, BuildTypeOK
  <2>5. Mine(p)'
    BY <2>1, <2>2, <2>3 DEF BuildInv, BuildTypeOK, Mine, Running, UnderLock
  <2>6. ASSUME NEW q \in Processes, q # p PROVE Mine(q)'
    BY <1>2, <2>1, <2>2, <2>6, OthersKeep DEF BuildInv, BuildTypeOK
  <2> QED BY <1>2, <2>4, <2>5, <2>6 DEF BuildInv, LockExcludes, ArtifactsBuilt
<1> QED BY <1>3, <1>4

LEMMA LookKeeps == ASSUME BuildInv, NEW p \in Processes, Look(p) PROVE BuildInv'
<1>1. CASE Current(job[p])
  <2>1. UNCHANGED <<head, product, binary, receipt, runs, faults, sweep, sweeps>> /\ NextJob(p)
    BY <1>1 DEF Look, artifacts
  <2>2. ArtifactsBuilt' /\ receipt' \in [Revisions -> Receipts \cup {None}]
    BY <2>1 DEF BuildInv, BuildTypeOK, ArtifactsBuilt
  <2> QED BY <2>1, <2>2, NextJobKeeps
<1>2. CASE ~Current(job[p])
  <2>1. /\ step[p] = "look" /\ step' = [step EXCEPT ![p] = "lock"]
        /\ UNCHANGED <<head, product, binary, receipt, job, todo, held, copy, digest,
                       runs, faults, sweep, sweeps>>
    BY <1>2 DEF Look, StepIs, StepTo, jobs, artifacts
  <2>2. BuildTypeOK'
    BY <2>1 DEF BuildInv, BuildTypeOK
  <2>3. Mine(p)'
    BY <2>1 DEF BuildInv, BuildTypeOK, Mine, Running, UnderLock
  <2>4. ASSUME NEW q \in Processes, q # p PROVE Mine(q)'
    BY <2>1, <2>4, OthersKeep DEF BuildInv, BuildTypeOK
  <2> QED BY <2>1, <2>2, <2>3, <2>4 DEF BuildInv, LockExcludes, ArtifactsBuilt
<1> QED BY <1>1, <1>2

LEMMA LockKeeps == ASSUME BuildInv, NEW p \in Processes, LockCheckout(p) PROVE BuildInv'
<1>1. /\ step[p] = "lock" /\ step' = [step EXCEPT ![p] = "source"]
      /\ held' = [held EXCEPT ![p] = {job[p].checkout}]
      /\ \A q \in Processes : job[p].checkout \notin held[q]
      /\ UNCHANGED <<head, product, binary, receipt, job, todo, copy, digest, runs, faults, sweep, sweeps>>
  BY DEF LockCheckout, StepIs, StepTo, jobs, artifacts
<1>2. job[p] \in Deployments
  BY <1>1, JobWanted DEF BuildInv, Running
<1>3. BuildTypeOK'
  BY <1>1, <1>2 DEF BuildInv, BuildTypeOK, Deployments
<1>4. Mine(p)'
  BY <1>1 DEF BuildInv, BuildTypeOK, Mine, Running, UnderLock
<1>5. ASSUME NEW q \in Processes, q # p PROVE Mine(q)'
  BY <1>1, <1>5, OthersKeep DEF BuildInv, BuildTypeOK
<1>6. LockExcludes'
  BY <1>1 DEF BuildInv, BuildTypeOK, LockExcludes
<1> QED BY <1>1, <1>3, <1>4, <1>5, <1>6 DEF BuildInv, ArtifactsBuilt

LEMMA SourceKeeps == ASSUME BuildInv, NEW p \in Processes, Source(p) PROVE BuildInv'
<1>1. /\ step[p] = "source" /\ step' = [step EXCEPT ![p] = "build"]
      /\ head' = [head EXCEPT ![job[p].checkout] = job[p].rev]
      /\ UNCHANGED <<product, binary, receipt, job, todo, held, copy, digest, runs, faults, sweep, sweeps>>
  BY DEF Source, StepIs, StepTo, jobs, artifacts
<1>2. job[p] \in Deployments /\ job[p].checkout \in held[p]
  BY <1>1, JobWanted DEF BuildInv, Mine, Running, UnderLock
<1>3. job[p].checkout \in Checkouts /\ job[p].rev \in Revisions
  BY <1>2 DEF Deployments
<1>4. BuildTypeOK'
  BY <1>1, <1>3 DEF BuildInv, BuildTypeOK
<1>5. Mine(p)'
  BY <1>1, <1>3 DEF BuildInv, BuildTypeOK, Mine, Running, UnderLock
<1>6. ASSUME NEW q \in Processes, q # p PROVE Mine(q)'
  BY <1>1, <1>2, <1>6, OthersKeep DEF BuildInv, BuildTypeOK
<1> QED BY <1>1, <1>4, <1>5, <1>6 DEF BuildInv, LockExcludes, ArtifactsBuilt

LEMMA BuildKeeps == ASSUME BuildInv, NEW p \in Processes, Build(p) PROVE BuildInv'
<1>1. CASE p \in Hydrations /\ Current(job[p])
  <2>1. UNCHANGED <<head, product, binary, receipt, runs, faults, sweep, sweeps>> /\ NextJob(p)
    BY <1>1 DEF Build, artifacts
  <2>2. ArtifactsBuilt' /\ receipt' \in [Revisions -> Receipts \cup {None}]
    BY <2>1 DEF BuildInv, BuildTypeOK, ArtifactsBuilt
  <2> QED BY <2>1, <2>2, NextJobKeeps
<1>2. CASE ~(p \in Hydrations /\ Current(job[p]))
  <2>1. /\ step[p] = "build" /\ step' = [step EXCEPT ![p] = "verify"]
        /\ UNCHANGED <<head, binary, receipt, job, todo, held, copy, digest, runs, faults, sweep, sweeps>>
    BY <1>2 DEF Build, StepIs, StepTo, jobs, artifacts
  <2>2. PICK v \in Variants :
          product' = [product EXCEPT ![job[p].checkout] =
            [rev |-> head[job[p].checkout], command |-> job[p].command, variant |-> v]]
    BY <1>2 DEF Build
  <2>3. job[p] \in Deployments /\ job[p].checkout \in held[p] /\ WantedFor(job[p].command,
             job[p].rev)
    BY <2>1, JobWanted DEF BuildInv, Mine, Running, UnderLock
  <2>4. head[job[p].checkout] = job[p].rev
    BY <2>1 DEF BuildInv, Mine
  <2> DEFINE b == [rev |-> job[p].rev, command |-> job[p].command, variant |-> v]
  <2>5. BuiltFor(b, job[p].rev) /\ job[p].checkout \in Checkouts
    BY <2>3 DEF BuiltFor, Bytes, Deployments
  <2>6. product' = [product EXCEPT ![job[p].checkout] = b]
    BY <2>2, <2>4
  <2> HIDE DEF b
  <2>7. BuildTypeOK'
    BY <2>1, <2>5, <2>6 DEF BuildInv, BuildTypeOK, BuiltFor
  <2>8. Mine(p)'
    BY <2>1, <2>5, <2>6 DEF BuildInv, BuildTypeOK, Mine, Running, UnderLock
  <2>9. ASSUME NEW q \in Processes, q # p PROVE Mine(q)'
    BY <2>1, <2>3, <2>6, <2>9, OthersKeep DEF BuildInv, BuildTypeOK
  <2> QED BY <2>1, <2>7, <2>8, <2>9 DEF BuildInv, LockExcludes, ArtifactsBuilt
<1> QED BY <1>1, <1>2

LEMMA VerifyKeeps == ASSUME BuildInv, NEW p \in Processes, Verify(p) PROVE BuildInv'
<1>1. step[p] = "verify" /\ head[job[p].checkout] = job[p].rev
  BY DEF Verify, StepIs, BuildInv, Mine
<1>2. /\ step' = [step EXCEPT ![p] = "copy"]
      /\ UNCHANGED <<head, product, binary, receipt, job, todo, held, copy, digest, runs, faults, sweep, sweeps>>
  BY <1>1 DEF Verify, StepTo, jobs, artifacts
<1>3. BuildTypeOK'
  BY <1>2 DEF BuildInv, BuildTypeOK
<1>4. Mine(p)'
  BY <1>1, <1>2 DEF BuildInv, BuildTypeOK, Mine, Running, UnderLock
<1>5. ASSUME NEW q \in Processes, q # p PROVE Mine(q)'
  BY <1>2, <1>5, OthersKeep DEF BuildInv, BuildTypeOK
<1> QED BY <1>2, <1>3, <1>4, <1>5 DEF BuildInv, LockExcludes, ArtifactsBuilt

LEMMA CopyKeeps == ASSUME BuildInv, NEW p \in Processes, Copy(p) PROVE BuildInv'
<1>1. /\ step[p] = "copy" /\ step' = [step EXCEPT ![p] = "link"]
      /\ copy' = [copy EXCEPT ![p] = product[job[p].checkout]]
      /\ UNCHANGED <<head, product, binary, receipt, job, todo, held, digest, runs, faults, sweep, sweeps>>
  BY DEF Copy, StepIs, StepTo, jobs, artifacts
<1>2. BuiltFor(product[job[p].checkout], job[p].rev)
  BY <1>1 DEF BuildInv, Mine
<1>3. BuildTypeOK'
  BY <1>1, <1>2 DEF BuildInv, BuildTypeOK, BuiltFor
<1>4. Mine(p)'
  BY <1>1, <1>2 DEF BuildInv, BuildTypeOK, Mine, Running, UnderLock
<1>5. ASSUME NEW q \in Processes, q # p PROVE Mine(q)'
  BY <1>1, <1>5, OthersKeep DEF BuildInv, BuildTypeOK
<1> QED BY <1>1, <1>3, <1>4, <1>5 DEF BuildInv, LockExcludes, ArtifactsBuilt

LEMMA LinkKeeps == ASSUME BuildInv, NEW p \in Processes, Link(p) PROVE BuildInv'
<1>1. /\ step[p] = "link" /\ UNCHANGED <<head, product, receipt, runs, faults, sweep, sweeps>>
  BY DEF Link, StepIs
<1>2. job[p] \in Deployments /\ BuiltFor(copy[p], job[p].rev)
  BY <1>1, JobWanted DEF BuildInv, Mine, Running
<1>3. CASE ExitBuild(p, "failed") /\ UNCHANGED binary
  BY <1>1, <1>3, ExitKeeps DEF BuildInv, BuildTypeOK, artifacts
<1>4. CASE /\ binary' \in {binary, [binary EXCEPT ![job[p].rev] = copy[p]]}
           /\ StepTo(p, "digest") /\ UNCHANGED <<jobs, held, copy, digest>>
  <2>1. step' = [step EXCEPT ![p] = "digest"] /\ UNCHANGED <<job, todo, held, copy, digest>>
    BY <1>4 DEF StepTo, jobs
  <2>2. BuildTypeOK'
    BY <1>1, <1>2, <1>4, <2>1 DEF BuildInv, BuildTypeOK, BuiltFor, Deployments
  <2>3. Mine(p)'
    BY <1>1, <2>1 DEF BuildInv, BuildTypeOK, Mine, Running, UnderLock
  <2>4. ASSUME NEW q \in Processes, q # p PROVE Mine(q)'
    BY <1>1, <2>1, <2>4, OthersKeep DEF BuildInv, BuildTypeOK
  <2>5. ArtifactsBuilt'
    BY <1>1, <1>2, <1>4 DEF BuildInv, BuildTypeOK, ArtifactsBuilt
  <2> QED BY <2>1, <2>2, <2>3, <2>4, <2>5 DEF BuildInv, LockExcludes
<1> QED BY <1>3, <1>4 DEF Link

LEMMA DigestKeeps == ASSUME BuildInv, NEW p \in Processes, Digest(p) PROVE BuildInv'
<1>1. /\ step[p] = "digest"
      /\ UNCHANGED <<head, product, binary, receipt, runs, faults, sweep, sweeps>>
  BY DEF Digest, StepIs, artifacts
<1>2. CASE binary[job[p].rev] = None
  BY <1>1, <1>2, ExitKeeps DEF Digest, BuildInv, BuildTypeOK, artifacts
<1>3. CASE binary[job[p].rev] # None
  <2>1. /\ step' = [step EXCEPT ![p] = "receipt"] /\
             digest' = [digest EXCEPT ![p] = binary[job[p].rev]]
        /\ UNCHANGED <<job, todo, held, copy>>
    BY <1>3 DEF Digest, StepTo, jobs
  <2>2. job[p].rev \in Revisions
    BY <1>1, JobWanted DEF BuildInv, Running, Deployments
  <2>3. BuiltFor(binary[job[p].rev], job[p].rev)
    BY <1>3, <2>2 DEF BuildInv, ArtifactsBuilt
  <2>4. BuildTypeOK'
    BY <1>1, <2>1, <2>3 DEF BuildInv, BuildTypeOK, BuiltFor
  <2>5. Mine(p)'
    BY <1>1, <2>1, <2>3 DEF BuildInv, BuildTypeOK, Mine, Running, UnderLock
  <2>6. ASSUME NEW q \in Processes, q # p PROVE Mine(q)'
    BY <1>1, <2>1, <2>6, OthersKeep DEF BuildInv, BuildTypeOK
  <2> QED BY <1>1, <2>1, <2>4, <2>5, <2>6 DEF BuildInv, LockExcludes, ArtifactsBuilt
<1> QED BY <1>2, <1>3

LEMMA ReceiptKeeps == ASSUME BuildInv, NEW p \in Processes, Receipt(p) PROVE BuildInv'
<1> DEFINE new == [command |-> job[p].command, digest |-> digest[p]]
<1>1. /\ step[p] = "receipt" /\ receipt' = [receipt EXCEPT ![job[p].rev] = new]
      /\ NextJob(p) /\ UNCHANGED <<head, product, binary, runs, faults, sweep, sweeps>>
  BY DEF Receipt, StepIs
<1>2. job[p] \in Deployments /\ WantedFor(job[p].command, job[p].rev) /\ digest[p] \in Bytes
  BY <1>1, JobWanted DEF BuildInv, Mine, Running, BuiltFor
<1>3. new \in Receipts /\ new.command = job[p].command
  BY <1>2 DEF Receipts, Deployments
<1> HIDE DEF new
<1>4. receipt' \in [Revisions -> Receipts \cup {None}]
  BY <1>1, <1>3 DEF BuildInv, BuildTypeOK
<1>5. ArtifactsBuilt'
  BY <1>1, <1>2, <1>3 DEF BuildInv, BuildTypeOK, ArtifactsBuilt
<1> QED BY <1>1, <1>4, <1>5, NextJobKeeps

LEMMA FaultKeeps == ASSUME BuildInv, NEW p \in Processes, Fault(p) PROVE BuildInv'
<1>1. faults' \in 0..MaxBuildFaults
  BY BuildAssumption DEF Fault, BuildInv, BuildTypeOK
<1> QED BY <1>1, ExitKeeps DEF Fault, BuildInv, BuildTypeOK

(* A cleanup takes artifacts and touches no process.                       *)
LEMMA ReclaimKeeps ==
  ASSUME BuildInv, (\E r \in Revisions : ReclaimBinary(r)) \/ ReclaimReceipt PROVE BuildInv'
<1>1. UNCHANGED <<head, product, step, job, todo, held, copy, digest, runs, faults>>
  BY DEF ReclaimBinary, ReclaimReceipt, own, jobs
<1>2. BuildTypeOK'
  <2>1. ASSUME NEW r \in Revisions, ReclaimBinary(r) PROVE BuildTypeOK'
    <3>1. binary' = [binary EXCEPT ![r] = None] /\ receipt' = receipt
          /\ sweep' = r /\ sweeps' \in 0..MaxSweeps
      BY <2>1, BuildAssumption DEF ReclaimBinary, BuildInv, BuildTypeOK
    <3> QED BY <1>1, <3>1 DEF BuildInv, BuildTypeOK
  <2>2. CASE ReclaimReceipt
    BY <1>1, <2>2 DEF ReclaimReceipt, BuildInv, BuildTypeOK
  <2> QED BY <2>1, <2>2
<1>3. \A p \in Processes : Mine(p)'
  BY <1>1 DEF BuildInv, Mine, Running
<1>4. ArtifactsBuilt'
  BY DEF ReclaimBinary, ReclaimReceipt, BuildInv, BuildTypeOK, ArtifactsBuilt
<1> QED BY <1>1, <1>2, <1>3, <1>4 DEF BuildInv, LockExcludes

LEMMA BuildStepInv == BuildInv /\ [BuildNext]_buildVars => BuildInv'
<1> SUFFICES ASSUME BuildInv, [BuildNext]_buildVars PROVE BuildInv'
  OBVIOUS
<1>1. CASE \E p \in Processes : BeginBuild(p) \/ Step(p) \/ Fault(p)
  BY <1>1, BeginKeeps, LookKeeps, LockKeeps, SourceKeeps, BuildKeeps, VerifyKeeps, CopyKeeps,
     LinkKeeps, DigestKeeps, ReceiptKeeps, FaultKeeps DEF Step
<1>2. CASE (\E r \in Revisions : ReclaimBinary(r)) \/ ReclaimReceipt
  BY <1>2, ReclaimKeeps
<1>3. CASE UNCHANGED buildVars
  BY <1>3 DEF buildVars, own, jobs, artifacts, BuildInv, BuildTypeOK, Mine, Running,
       LockExcludes, ArtifactsBuilt
<1> QED BY <1>1, <1>2, <1>3 DEF BuildNext

-----------------------------------------------------------------------------
(* The invariant, and with it the type invariant, holds in every reachable *)
(* state.                                                                  *)
THEOREM BuildInvariantHolds == BuildSpec => []BuildInv
<1>1. BuildInit => BuildInv
  BY BuildInitInv
<1>2. BuildInv /\ [BuildNext]_buildVars => BuildInv'
  BY BuildStepInv
<1> QED BY <1>1, <1>2, PTL DEF BuildSpec

(* Every variable of the builds stays in its domain.                       *)
THEOREM BuildTypeCorrect == BuildSpec => []BuildTypeOK
<1>1. BuildInv => BuildTypeOK
  BY DEF BuildInv
<1> QED BY <1>1, BuildInvariantHolds, PTL

(* All who declare a revision, on all hydrations of the machine, want it   *)
(* built by one command.                                                   *)
OneCommand == \A r \in Revisions : \A k, l : WantedFor(k, r) /\ WantedFor(l, r) => k = l

(* CurrentIsBuilt: an artifact that build_is_current accepts was           *)
(* built from the revision in its name by the command in its receipt.      *)
THEOREM CurrentIsBuiltHolds ==
  ASSUME OneCommand PROVE BuildSpec => []CurrentIsBuilt
<1>1. BuildInv => CurrentIsBuilt
  <2> SUFFICES ASSUME BuildInv, NEW r \in Revisions, NEW k \in Commands,
                      Current([rev |-> r, checkout |-> None, command |-> k])
               PROVE  binary[r].rev = r /\ binary[r].command = k
    BY DEF CurrentIsBuilt
  <2>1. binary[r] # None /\ receipt[r] = [command |-> k, digest |-> binary[r]]
    BY DEF Current
  <2>2. BuiltFor(binary[r], r)
    BY <2>1 DEF BuildInv, ArtifactsBuilt
  <2>3. receipt[r] # None
    BY <2>1, <2>2, BuildAssumption DEF Receipts, BuiltFor
  <2>4. WantedFor(k, r)
    BY <2>1, <2>3 DEF BuildInv, ArtifactsBuilt
  <2> QED BY <2>2, <2>4 DEF BuiltFor, OneCommand
<1> QED BY <1>1, BuildInvariantHolds, PTL

(* BytesStay: whatever is published under a revision's name is not         *)
(* replaced, only removed: link(2) does not overwrite.                     *)
THEOREM BytesStayHolds == BuildSpec => BytesStay
<1>1. BuildInv /\ [BuildNext]_buildVars =>
        [\A r \in Revisions : binary[r] # None => binary'[r] \in {binary[r], None}]_buildVars
  <2> SUFFICES ASSUME BuildInv, [BuildNext]_buildVars, NEW r \in Revisions, binary[r] # None
               PROVE  binary'[r] \in {binary[r], None}
    OBVIOUS
  <2>1. binary \in [Revisions -> Bytes \cup {None}]
    BY DEF BuildInv, BuildTypeOK
  <2>2. ASSUME NEW p \in Processes, Link(p) PROVE binary'[r] = binary[r]
    BY <2>1, <2>2 DEF Link
  <2>3. ASSUME NEW p \in Processes, BeginBuild(p) \/ Step(p) \/ Fault(p), ~Link(p)
        PROVE binary' = binary
    BY <2>3 DEF BeginBuild, Step, Look, LockCheckout, Source, Build, Verify, Copy, Digest,
         Receipt, Fault, artifacts
  <2>4. ASSUME NEW s \in Revisions, ReclaimBinary(s) PROVE binary'[r] \in {binary[r], None}
    BY <2>1, <2>4 DEF ReclaimBinary
  <2>5. CASE ReclaimReceipt \/ UNCHANGED buildVars
    BY <2>5 DEF ReclaimReceipt, buildVars, artifacts
  <2> QED BY <2>2, <2>3, <2>4, <2>5 DEF BuildNext
<1> QED BY <1>1, BuildInvariantHolds, PTL DEF BuildSpec, BytesStay
-----------------------------------------------------------------------------
(* As long as no cleanup began, what has a receipt has an artifact with    *)
(* the receipt's bytes, and stays so.                                      *)
HasReceipt(r) == binary[r] # None /\ receipt[r] # None /\ receipt[r].digest = binary[r]

(* What a process was asked for is published, is left to do or is the      *)
(* build it is at; what it took a digest of is still there.                *)
Due(p) ==
  /\ step[p] \in {"digest", "receipt"} => binary[job[p].rev] # None
  /\ step[p] = "receipt" => digest[p] = binary[job[p].rev]
  /\ Running(p) =>
       \A i \in DOMAIN Declared[p] :
         HasReceipt(Declared[p][i].rev) \/ i \in todo[p] \/ Declared[p][i] = job[p]
  /\ step[p] = "done" => \A i \in DOMAIN Declared[p] : HasReceipt(Declared[p][i].rev)

PublicationInv ==
  sweeps = 0 =>
    /\ sweep = None
    /\ \A r \in Revisions : receipt[r] # None => HasReceipt(r)
    /\ \A p \in Processes : Due(p)

LEMMA DeclaredRevisions ==
  ASSUME NEW p \in Processes, NEW i \in DOMAIN Declared[p]
    PROVE Declared[p][i].rev \in Revisions
  BY DeclaredWanted DEF Deployments

(* Of the steps of a process, only a link and a receipt change artifacts:  *)
(* one where there is none, the other by the bytes that are there.         *)
LEMMA ArtifactsStay ==
  ASSUME BuildInv, PublicationInv, sweeps = 0, NEW p \in Processes,
         BeginBuild(p) \/ Step(p) \/ Fault(p)
  PROVE  /\ \A r \in Revisions : binary[r] # None => binary'[r] = binary[r]
         /\ \A r \in Revisions : HasReceipt(r) => HasReceipt(r)'
         /\ \A r \in Revisions : receipt'[r] # None => HasReceipt(r)'
         /\ UNCHANGED <<sweep, sweeps>>
<1>0. BuildTypeOK /\ Due(p) /\ \A r \in Revisions : receipt[r] # None => HasReceipt(r)
  BY DEF BuildInv, PublicationInv
<1>1. CASE UNCHANGED <<binary, receipt, sweep, sweeps>>
  BY <1>0, <1>1 DEF HasReceipt
<1>2. CASE Link(p)
  BY <1>0, <1>2 DEF Link, BuildTypeOK, HasReceipt
<1>3. CASE Receipt(p)
  <2> DEFINE new == [command |-> job[p].command, digest |-> digest[p]]
  <2>1. /\ step[p] = "receipt" /\ receipt' = [receipt EXCEPT ![job[p].rev] = new]
        /\ UNCHANGED <<binary, sweep, sweeps>>
    BY <1>3 DEF Receipt, StepIs
  <2>2. digest[p] = binary[job[p].rev] /\ binary[job[p].rev] # None
    BY <1>0, <2>1 DEF Due
  <2>3. new \in Receipts /\ new.digest = digest[p]
    <3>1. job[p] \in Deployments /\ digest[p] \in Bytes
      BY <2>1, JobWanted DEF BuildInv, Mine, Running, BuiltFor
    <3> QED BY <3>1 DEF Receipts, Deployments
  <2>4. new # None
    BY <2>3, BuildAssumption
  <2> HIDE DEF new
  <2> QED BY <1>0, <2>1, <2>2, <2>3, <2>4 DEF BuildTypeOK, HasReceipt
<1> QED
  BY <1>1, <1>2, <1>3 DEF BeginBuild, Step, Look, LockCheckout, Source, Build, Verify, Copy,
     Digest, Fault, artifacts

(* So a step of one process leaves the others what they rely on.           *)
LEMMA OthersStayDue ==
  ASSUME BuildInv, PublicationInv, sweeps = 0, NEW p \in Processes, NEW q \in Processes, q # p,
         BeginBuild(p) \/ Step(p) \/ Fault(p)
  PROVE  Due(q)'
<1>0. Due(q) /\ BuildTypeOK /\ Mine(q)
  BY DEF BuildInv, PublicationInv
<1>1. /\ step'[q] = step[q] /\ job'[q] = job[q] /\ todo'[q] = todo[q] /\ digest'[q] = digest[q]
  BY <1>0 DEF BeginBuild, Step, Look, LockCheckout, Source, Build, Verify, Copy, Link, Digest,
     Receipt, Fault, ExitBuild, NextJob, Take, StepTo, jobs, BuildTypeOK
<1>2. step[q] \in {"digest", "receipt"} => job[q].rev \in Revisions
  BY <1>0, JobWanted DEF Running, Deployments
<1> QED BY <1>0, <1>1, <1>2, ArtifactsStay, DeclaredRevisions DEF Due, Running

(* A process goes on to its next build when its build is published.        *)
LEMMA NextJobDue ==
  ASSUME BuildInv, NEW p \in Processes, Due(p), Running(p), NextJob(p),
         \A r \in Revisions : HasReceipt(r) => HasReceipt(r)',
         NEW r \in Revisions, r = job[p].rev, HasReceipt(r)'
  PROVE  Due(p)'
<1>0. BuildTypeOK
  BY DEF BuildInv
<1>1. \A i \in DOMAIN Declared[p] :
        HasReceipt(Declared[p][i].rev)' \/ (i \in todo[p] /\ Declared[p][i] # job[p])
  BY DeclaredRevisions DEF Due
<1>2. CASE todo[p] = {}
  <2>1. step' = [step EXCEPT ![p] = "done"]
    BY <1>2 DEF NextJob, ExitBuild, StepTo
  <2> QED BY <1>0, <1>1, <1>2, <2>1 DEF Due, Running, BuildTypeOK
<1>3. CASE todo[p] # {}
  <2>1. PICK i \in todo[p] : Take(p, i, todo[p])
    BY <1>3 DEF NextJob
  <2>2. /\ step' = [step EXCEPT ![p] = "look"] /\ job' = [job EXCEPT ![p] = Declared[p][i]]
        /\ todo' = [todo EXCEPT ![p] = {j \in todo[p] : Declared[p][j] # Declared[p][i]}]
    BY <1>3, <2>1 DEF NextJob, StepTo, Take
  <2> QED BY <1>0, <1>1, <2>2 DEF Due, BuildTypeOK
<1> QED BY <1>2, <1>3

(* A current artifact has a receipt, and it is of its bytes.               *)
LEMMA CurrentHasReceipt ==
  ASSUME NEW d \in Deployments, BuildTypeOK, Current(d) PROVE HasReceipt(d.rev)
<1>1. binary[d.rev] \in Bytes /\ d.command \in Commands
  BY DEF Current, BuildTypeOK, Deployments
<1>2. receipt[d.rev] \in Receipts
  BY <1>1 DEF Current, Receipts
<1> QED BY <1>2, BuildAssumption DEF Current, HasReceipt

LEMMA OwnStaysDue ==
  ASSUME BuildInv, PublicationInv, sweeps = 0, NEW p \in Processes,
         BeginBuild(p) \/ Step(p) \/ Fault(p)
  PROVE  Due(p)'
<1>0. Due(p) /\ BuildTypeOK
  BY DEF BuildInv, PublicationInv
<1>a. /\ \A r \in Revisions : binary[r] # None => binary'[r] = binary[r]
      /\ \A r \in Revisions : HasReceipt(r) => HasReceipt(r)'
  BY ArtifactsStay
<1>b. Running(p) => job[p] \in Deployments /\ job[p].rev \in Revisions
  BY JobWanted DEF BuildInv, Deployments
<1>1. CASE BeginBuild(p) /\ ~Conflicting(Declared[p])
  <2>1. PICK s \in {"look", "lock"} : step' = [step EXCEPT ![p] = s]
    BY <1>1 DEF BeginBuild, StepTo
  <2>2. /\ job' = [job EXCEPT ![p] = Declared[p][1]]
        /\ todo' = [todo EXCEPT ![p] = {j \in DOMAIN Declared[p] : Declared[p][j] # Declared[p][1]}]
    BY <1>1 DEF BeginBuild, Take
  <2> QED BY <1>0, <2>1, <2>2 DEF Due, BuildTypeOK
<1>2. CASE (BeginBuild(p) /\ Conflicting(Declared[p])) \/ \E s \in {"failed"} : ExitBuild(p, s)
  <2>1. step' = [step EXCEPT ![p] = "failed"]
    BY <1>2 DEF BeginBuild, ExitBuild, StepTo
  <2> QED BY <1>0, <2>1 DEF Due, Running, BuildTypeOK
<1>3. CASE NextJob(p) /\ Running(p) /\ Current(job[p])
  BY <1>0, <1>a, <1>b, <1>3, CurrentHasReceipt, NextJobDue
<1>4. CASE Receipt(p)
  <2>1. /\ step[p] = "receipt" /\ NextJob(p) /\ UNCHANGED binary
        /\ receipt' = [receipt EXCEPT ![job[p].rev] = [command |-> job[p].command,
             digest |-> digest[p]]]
    BY <1>4 DEF Receipt, StepIs
  <2>2. Running(p) /\ job[p].rev \in Revisions
    BY <1>b, <2>1 DEF Running
  <2>3. binary[job[p].rev] # None /\ digest[p] = binary[job[p].rev]
    BY <1>0, <2>1 DEF Due
  <2> DEFINE new == [command |-> job[p].command, digest |-> digest[p]]
  <2>4. new # None /\ new.digest = digest[p]
    <3>1. job[p] \in Deployments /\ digest[p] \in Bytes
      BY <1>b, <2>1, <2>2 DEF BuildInv, Mine, BuiltFor
    <3>2. new \in Receipts
      BY <3>1 DEF Receipts, Deployments
    <3> QED BY <3>2, BuildAssumption
  <2>5. receipt' = [receipt EXCEPT ![job[p].rev] = new]
    BY <2>1
  <2> HIDE DEF new
  <2>6. PICK r \in Revisions : r = job[p].rev
    BY <2>2
  <2>7. HasReceipt(r)'
    BY <1>0, <2>1, <2>3, <2>4, <2>5, <2>6 DEF HasReceipt, BuildTypeOK
  <2> QED BY <1>0, <1>a, <2>1, <2>2, <2>6, <2>7, NextJobDue
<1>5. CASE Link(p) /\ ~ExitBuild(p, "failed")
  <2>1. /\ step[p] = "link" /\ step' = [step EXCEPT ![p] = "digest"]
        /\ UNCHANGED <<job, todo, digest>>
        /\ binary'[job[p].rev] = copy[p]
    BY <1>0, <1>b, <1>5 DEF Link, StepIs, StepTo, jobs, Running, BuildTypeOK
  <2>2. copy[p] # None
    BY <2>1, BuildAssumption DEF BuildInv, Mine, BuiltFor
  <2> QED BY <1>0, <1>a, <2>1, <2>2, DeclaredRevisions DEF Due, Running, BuildTypeOK
<1>6. CASE Digest(p) /\ ~ExitBuild(p, "failed")
  <2>1. /\ step[p] = "digest" /\ step' = [step EXCEPT ![p] = "receipt"]
        /\ UNCHANGED <<job, todo, binary, receipt>>
        /\ digest' = [digest EXCEPT ![p] = binary[job[p].rev]]
    BY <1>6 DEF Digest, StepIs, StepTo, jobs, artifacts
  <2> QED BY <1>0, <1>a, <2>1, DeclaredRevisions DEF Due, Running, BuildTypeOK
<1>7. CASE /\ Running(p) /\ UNCHANGED <<job, todo>>
           /\ \E s \in {"lock", "source", "build", "verify", "copy", "link"} : StepTo(p, s)
  BY <1>0, <1>a, <1>7, DeclaredRevisions DEF Due, Running, StepTo, BuildTypeOK
<1>8. CASE Look(p) \/ Build(p) \/ Verify(p)
  BY <1>2, <1>3, <1>7, <1>8 DEF Look, Build, Verify, StepIs, Running, jobs
<1>9. CASE LockCheckout(p) \/ Source(p) \/ Copy(p)
  BY <1>7, <1>9 DEF LockCheckout, Source, Copy, StepIs, Running, jobs
<1> QED
  BY <1>1, <1>2, <1>4, <1>5, <1>6, <1>8, <1>9 DEF Step, Fault

LEMMA PublicationStep ==
  BuildInv /\ PublicationInv /\ [BuildNext]_buildVars => PublicationInv'
<1> SUFFICES ASSUME BuildInv, PublicationInv, [BuildNext]_buildVars, sweeps' = 0
             PROVE  PublicationInv'
  BY DEF PublicationInv
<1>1. ASSUME NEW p \in Processes, BeginBuild(p) \/ Step(p) \/ Fault(p) PROVE PublicationInv'
  <2>1. sweeps = 0
    BY <1>1 DEF BeginBuild, Step, Look, LockCheckout, Source, Build, Verify, Copy, Link, Digest,
       Receipt, Fault
  <2>2. sweep' = None /\ \A r \in Revisions : receipt'[r] # None => HasReceipt(r)'
    BY <1>1, <2>1, ArtifactsStay DEF PublicationInv
  <2>3. \A q \in Processes : Due(q)'
    BY <1>1, <2>1, OwnStaysDue, OthersStayDue
  <2> QED BY <2>2, <2>3 DEF PublicationInv
<1>2. ASSUME NEW r \in Revisions, ReclaimBinary(r) PROVE FALSE
  BY <1>2 DEF ReclaimBinary, BuildInv, BuildTypeOK
<1>3. CASE ReclaimReceipt
  BY <1>3 DEF ReclaimReceipt, PublicationInv
<1>4. CASE UNCHANGED buildVars
  BY <1>4 DEF buildVars, own, jobs, artifacts, PublicationInv, HasReceipt, Due, Running
<1> QED BY <1>1, <1>2, <1>3, <1>4 DEF BuildNext

(* DoneIsPublished: a hydration or build that succeeded leaves artifacts   *)
(* with a receipt of their bytes, also over what a killed one left, as     *)
(* long as no cleanup began.                                               *)
THEOREM DoneIsPublishedHolds == BuildSpec => []DoneIsPublished
<1>1. BuildInit => PublicationInv
  BY DEF BuildInit, PublicationInv, Due, Running
<1>2. BuildInv /\ PublicationInv /\ [BuildNext]_buildVars => PublicationInv'
  BY PublicationStep
<1>3. PublicationInv => DoneIsPublished
  BY DEF PublicationInv, Due, HasReceipt, DoneIsPublished
<1> QED BY <1>1, <1>2, <1>3, BuildInvariantHolds, PTL DEF BuildSpec
-----------------------------------------------------------------------------
(* The branch checkouts: watch/source_hydration.py.                        *)

(* A hydration that goes on has a checkout in front of it.                 *)
There == {"fetch", "compare", "merge", "valid", "done"}
CheckoutThere == \A h \in Refreshers : place[h] \in There => tips # Absent

(* What was at the remote when a hydration began is tracked when it        *)
(* compares, and is in the clone it puts in place.                         *)
RemoteTracked ==
  /\ tracking <= remote
  /\ \A h \in Refreshers :
       /\ since[h] <= remote
       /\ place[h] \in {"compare", "merge", "valid"} => since[h] <= tracking
       /\ place[h] = "place" => clone[h] \in 0..remote /\ since[h] <= clone[h]

BranchInv == BranchTypeOK /\ CheckoutThere /\ RemoteTracked /\ Refreshed

LEMMA BranchInitInv == BranchInit => BranchInv
<1> SUFFICES ASSUME BranchInit PROVE BranchInv
  OBVIOUS
<1>1. BranchTypeOK
  <2>1. [b \in Branches |-> [at |-> 0, own |-> 0]] \in [Branches -> Tips]
    BY CheckoutAssumption DEF Tips
  <2>2. 0 \in 0..MaxPush /\ 0 \in 0..MaxSwitch
    BY CheckoutAssumption
  <2>3. tips \in [Branches -> Tips] \cup {Absent} /\ onBranch \in Branches /\
             declaredOrigin \in BOOLEAN
    BY <2>1, CheckoutAssumption DEF BranchInit
  <2> QED BY <2>2, <2>3 DEF BranchInit, BranchTypeOK
<1> QED
  BY <1>1 DEF BranchInit, BranchInv, CheckoutThere, There, RemoteTracked, Refreshed, In

(* A step of one hydration that leaves the checkout where it is, or takes  *)
(* its declared branch further, keeps what the others rely on.             *)
LEMMA MoveKeeps ==
  ASSUME BranchInv, BranchTypeOK', NEW h \in Refreshers,
         UNCHANGED <<remote, since>>, tracking <= tracking', tracking' <= remote,
         tips # Absent => tips' # Absent /\ tips'[Run].at >= tips[Run].at,
         \A g \in Refreshers \ {h} : place'[g] = place[g] /\ clone'[g] = clone[g],
         place'[h] \in There => tips' # Absent,
         place'[h] \in {"compare", "merge", "valid"} => since[h] <= tracking',
         place'[h] = "place" => clone'[h] \in 0..remote /\ since[h] <= clone'[h],
         place'[h] = "done" => tips'[Run].at >= since[h]
  PROVE  BranchInv'
<1> USE DEF BranchInv, BranchTypeOK
<1>0. Run \in Branches
  BY CheckoutAssumption
<1>1. CheckoutThere'
  BY DEF CheckoutThere
<1>2. RemoteTracked'
  BY DEF RemoteTracked
<1>3. ASSUME NEW g \in Refreshers, place'[g] = "done" PROVE tips'[Run].at >= since'[g]
  <2>1. CASE g = h
    BY <1>3, <2>1
  <2>2. CASE g # h
    <3>1. tips # Absent /\ tips[Run].at >= since[g]
      BY <1>3, <2>2 DEF CheckoutThere, There, Refreshed, In
    <3>2. tips[Run].at \in Nat /\ tips'[Run].at \in Nat /\ since[g] \in Nat
      BY <1>0, <3>1 DEF Tips
    <3> QED BY <3>1, <3>2
  <2> QED BY <2>1, <2>2
<1> QED BY <1>1, <1>2, <1>3 DEF Refreshed, In

LEMMA RefreshKeeps == ASSUME BranchInv, NEW h \in Refreshers, Refresh(h) PROVE BranchInv'
<1> USE DEF Move, In, theirs
<1>0. BranchTypeOK /\ CheckoutThere /\ RemoteTracked /\ Refreshed /\ Run \in Branches
  BY CheckoutAssumption DEF BranchInv
<1>a. tips # Absent => \A b \in Branches : tips[b] \in Tips
  BY <1>0 DEF BranchTypeOK
<1>b. /\ remote \in Nat /\ tracking \in Nat /\ since[h] \in Nat
      /\ tips # Absent => tips[Run].at \in Nat
  BY <1>0, <1>a, CheckoutAssumption DEF BranchTypeOK, Tips
<1>1. CASE Start(h)
  <2>1. BranchTypeOK'
    BY <1>0, <1>1 DEF Start, BranchTypeOK
  <2>2. CheckoutThere' /\ RemoteTracked' /\ Refreshed'
    BY <1>0, <1>1 DEF Start, BranchTypeOK, CheckoutThere, There, RemoteTracked, Refreshed
  <2> QED BY <2>1, <2>2 DEF BranchInv
<1>2. CASE Exists(h)
  <2>1. BranchTypeOK'
    BY <1>0, <1>2 DEF Exists, BranchTypeOK
  <2> QED
    BY <1>0, <1>b, <1>2, <2>1, MoveKeeps DEF Exists, BranchTypeOK, RemoteTracked, There
<1>3. CASE Fetch(h)
  <2>1. BranchTypeOK'
    BY <1>0, <1>3 DEF Fetch, BranchTypeOK
  <2> QED
    BY <1>0, <1>b, <1>3, <2>1, MoveKeeps DEF Fetch, BranchTypeOK, RemoteTracked, There
<1>4. CASE Compare(h) \/ Confirm(h)
  <2>1. BranchTypeOK'
    BY <1>0, <1>4 DEF Compare, Confirm, BranchTypeOK
  <2>2. tips # Absent /\ since[h] <= tracking
    BY <1>0, <1>4 DEF Compare, Confirm, CheckoutThere, There, RemoteTracked
  <2>3. Valid => tips[Run].at >= since[h]
    BY <1>b, <2>2 DEF Valid
  <2> QED
    BY <1>0, <1>b, <1>4, <2>1, <2>2, <2>3, MoveKeeps
       DEF Compare, Confirm, BranchTypeOK, RemoteTracked, There
<1>5. CASE FastForward(h)
  <2>1. tips # Absent /\ since[h] <= tracking /\ onBranch \in Branches /\
             tracking \in 0..MaxPush
    BY <1>0, <1>5 DEF FastForward, CheckoutThere, There, RemoteTracked, BranchTypeOK
  <2> DEFINE forward == [tips EXCEPT ![onBranch].at = tracking]
  <2>2. /\ forward \in [Branches -> Tips]
        /\ Behind => \A b \in Branches : forward[b].at >= tips[b].at
    <3>1. tips \in [Branches -> Tips]
      BY <1>0, <2>1 DEF BranchTypeOK
    <3>2. \A b \in Branches : tips[b].at \in Nat /\ tips[b].own \in 0..MaxOwn
      BY <3>1 DEF Tips
    <3> QED BY <1>b, <2>1, <3>1, <3>2 DEF Tips, Behind
  <2>3. tips' \in {tips, forward} /\ (tips' # tips => Behind)
    BY <1>5 DEF FastForward
  <2> HIDE DEF forward
  <2>4. BranchTypeOK'
    BY <1>0, <1>5, <2>2, <2>3 DEF FastForward, BranchTypeOK
  <2>5. tips' # Absent /\ tips'[Run].at >= tips[Run].at
    BY <1>0, <1>b, <2>1, <2>2, <2>3, CheckoutAssumption
  <2> QED
    BY <1>0, <1>b, <1>5, <2>1, <2>4, <2>5, MoveKeeps
       DEF FastForward, BranchTypeOK, RemoteTracked, There
<1>6. CASE Clone(h)
  <2>1. BranchTypeOK'
    BY <1>0, <1>6 DEF Clone, BranchTypeOK
  <2> QED
    BY <1>0, <1>b, <1>6, <2>1, MoveKeeps DEF Clone, BranchTypeOK, RemoteTracked, There
<1>7. CASE Place(h)
  <2>1. clone[h] \in 0..remote /\ since[h] <= clone[h]
    BY <1>0, <1>7 DEF Place, RemoteTracked
  <2>2. CASE tips # Absent
    <3>1. BranchTypeOK'
      BY <1>0, <1>7, <2>2 DEF Place, BranchTypeOK
    <3> QED
      BY <1>0, <1>b, <1>7, <2>2, <3>1, MoveKeeps DEF Place, BranchTypeOK, RemoteTracked, There
  <2>3. CASE tips = Absent
    <3> DEFINE new == [b \in Branches |-> [at |-> IF b = Run THEN clone[h] ELSE 0, own |-> 0]]
    <3>1. new \in [Branches -> Tips] /\ new # Absent /\ new[Run].at = clone[h]
      BY <1>0, <1>b, <2>1, CheckoutAssumption DEF Tips, BranchTypeOK
    <3>2. /\ tips' = new /\ onBranch' = Run /\ tracking' = clone[h]
          /\ place' = [place EXCEPT ![h] = "done"] /\ clone' = [clone EXCEPT ![h] = Absent]
          /\ UNCHANGED <<remote, declaredOrigin, since, switches>>
      BY <1>7, <2>3 DEF Place
    <3> HIDE DEF new
    <3>3. BranchTypeOK'
      <4>1. clone[h] \in 0..MaxPush
        BY <1>0, <2>1, CheckoutAssumption DEF BranchTypeOK
      <4> QED BY <1>0, <3>1, <3>2, <4>1 DEF BranchTypeOK
    <3>4. \A g \in Refreshers : place[g] \notin There
      BY <1>0, <2>3 DEF CheckoutThere
    <3>5. CheckoutThere'
      BY <3>1, <3>2 DEF CheckoutThere
    <3>6. RemoteTracked'
      BY <1>0, <2>1, <3>2, <3>4 DEF RemoteTracked, There, BranchTypeOK
    <3>7. Refreshed'
      BY <1>0, <2>1, <3>1, <3>2, <3>4 DEF Refreshed, There, BranchTypeOK
    <3> QED BY <3>3, <3>5, <3>6, <3>7 DEF BranchInv
  <2> QED BY <2>2, <2>3
<1>8. CASE GitFails(h)
  <2>1. BranchTypeOK'
    BY <1>0, <1>8 DEF GitFails, BranchTypeOK
  <2> QED
    BY <1>0, <1>b, <1>8, <2>1, MoveKeeps DEF GitFails, BranchTypeOK, RemoteTracked, There
<1> QED BY <1>1, <1>2, <1>3, <1>4, <1>5, <1>6, <1>7, <1>8 DEF Refresh

(* People push, commit and switch; none of it takes a commit away.         *)
LEMMA PeopleKeep == ASSUME BranchInv, Push \/ Commit \/ Switch PROVE BranchInv'
<1>0. BranchTypeOK /\ CheckoutThere /\ RemoteTracked /\ Refreshed /\ Run \in Branches
  BY CheckoutAssumption DEF BranchInv
<1> USE DEF theirs, mine
<1>1. CASE Push
  <2>1. BranchTypeOK' /\ remote \in Nat
    BY <1>0, <1>1, CheckoutAssumption DEF Push, BranchTypeOK
  <2>2. RemoteTracked'
    BY <1>0, <1>1, CheckoutAssumption DEF Push, BranchTypeOK, RemoteTracked
  <2> QED
    BY <1>0, <1>1, <2>1, <2>2 DEF Push, BranchInv, CheckoutThere, Refreshed, In
<1>2. CASE Commit
  <2> DEFINE more == [tips EXCEPT ![onBranch].own = @ + 1]
  <2>1. tips \in [Branches -> Tips] /\ onBranch \in Branches /\ tips[onBranch].own < MaxOwn
    BY <1>0, <1>2 DEF Commit, BranchTypeOK
  <2>2. more \in [Branches -> Tips] /\ \A b \in Branches : more[b].at = tips[b].at
    <3>1. \A b \in Branches : tips[b].at \in 0..MaxPush /\ tips[b].own \in 0..MaxOwn
      BY <2>1 DEF Tips
    <3> QED BY <2>1, <3>1, CheckoutAssumption DEF Tips
  <2>3. tips' = more /\ UNCHANGED <<remote, onBranch, declaredOrigin, tracking, mine, switches>>
    BY <1>2 DEF Commit
  <2> HIDE DEF more
  <2>4. BranchTypeOK'
    BY <1>0, <2>2, <2>3 DEF BranchTypeOK
  <2> QED
    BY <1>0, <2>2, <2>3, <2>4, CheckoutAssumption
       DEF BranchInv, CheckoutThere, RemoteTracked, Refreshed, In
<1>3. CASE Switch
  <2>1. BranchTypeOK'
    BY <1>0, <1>3, CheckoutAssumption DEF Switch, BranchTypeOK
  <2> QED
    BY <1>0, <1>3, <2>1 DEF Switch, BranchInv, CheckoutThere, RemoteTracked, Refreshed, In
<1> QED BY <1>1, <1>2, <1>3

(* In every behaviour of the refreshes a hydration that goes on has a      *)
(* checkout in front of it, and the remote's history is tracked in time.   *)
THEOREM BranchInvariantHolds == BranchSpec => []BranchInv
<1>1. BranchInv /\ [BranchNext]_branchVars => BranchInv'
  <2> SUFFICES ASSUME BranchInv, [BranchNext]_branchVars PROVE BranchInv'
    OBVIOUS
  <2>1. CASE UNCHANGED branchVars
    BY <2>1 DEF branchVars, theirs, mine, BranchInv, BranchTypeOK, CheckoutThere, RemoteTracked,
         Refreshed, In
  <2> QED BY <2>1, RefreshKeeps, PeopleKeep DEF BranchNext
<1> QED BY <1>1, BranchInitInv, PTL DEF BranchSpec

(* Every variable of the refreshes stays in its domain.                    *)
THEOREM BranchTypeCorrect == BranchSpec => []BranchTypeOK
<1>1. BranchInv => BranchTypeOK
  BY DEF BranchInv
<1> QED BY <1>1, BranchInvariantHolds, PTL

(* Refreshed: the checkout a hydration accepts has all that was at the     *)
(* remote when the hydration began, however many refresh it at once and    *)
(* whoever commits and switches in it.                                     *)
THEOREM RefreshedHolds == BranchSpec => []Refreshed
<1>1. BranchInv => Refreshed
  BY DEF BranchInv
<1> QED BY <1>1, BranchInvariantHolds, PTL

(* WorkKept: a merge moves only a branch without commits of its own, and   *)
(* forward; a clone is put only where there is nothing.                    *)
THEOREM WorkKeptHolds == BranchSpec => WorkKept
<1> DEFINE Kept ==
      tips # Absent =>
        /\ tips' # Absent
        /\ \A b \in Branches : tips'[b].at >= tips[b].at /\ tips'[b].own >= tips[b].own
<1>1. BranchInv /\ [BranchNext]_branchVars => [Kept]_branchVars
  <2> SUFFICES ASSUME BranchInv, [BranchNext]_branchVars, tips # Absent PROVE Kept
    OBVIOUS
  <2>1. /\ tips \in [Branches -> Tips] /\ onBranch \in Branches /\ tracking \in 0..MaxPush
        /\ \A b \in Branches : tips[b].at \in 0..MaxPush /\ tips[b].own \in 0..MaxOwn
    BY DEF BranchInv, BranchTypeOK, Tips
  <2>2. CASE tips' = tips
    BY <2>1, <2>2
  <2>3. ASSUME NEW h \in Refreshers, FastForward(h), tips' # tips PROVE Kept
    <3> DEFINE forward == [tips EXCEPT ![onBranch].at = tracking]
    <3>1. tips' = forward /\ Behind
      BY <2>3 DEF FastForward
    <3>2. forward \in [Branches -> Tips]
      BY <2>1 DEF Tips
    <3>3. \A b \in Branches : forward[b].at >= tips[b].at /\ forward[b].own = tips[b].own
      BY <2>1, <3>1 DEF Behind
    <3> HIDE DEF forward
    <3> QED BY <2>1, <3>1, <3>2, <3>3, CheckoutAssumption
  <2>4. CASE Commit
    <3> DEFINE more == [tips EXCEPT ![onBranch].own = @ + 1]
    <3>1. tips' = more /\ tips[onBranch].own < MaxOwn
      BY <2>4 DEF Commit
    <3>2. more \in [Branches -> Tips]
      BY <2>1, <3>1, CheckoutAssumption DEF Tips
    <3>3. \A b \in Branches : more[b].at = tips[b].at /\ more[b].own >= tips[b].own
      BY <2>1
    <3> HIDE DEF more
    <3> QED BY <2>1, <3>1, <3>2, <3>3, CheckoutAssumption
  <2> QED
    BY <2>2, <2>3, <2>4 DEF BranchNext, Refresh, Start, Exists, Fetch, Compare, Confirm, Clone,
       Place, GitFails, Push, Switch, branchVars, theirs
<1> QED BY <1>1, BranchInvariantHolds, PTL DEF BranchSpec, WorkKept
===============================================================================

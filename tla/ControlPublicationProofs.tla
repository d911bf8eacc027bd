---------------------- MODULE ControlPublicationProofs ----------------------
(***************************************************************************)
(* A reader of the control files finds one whole generation, for any       *)
(* number of publishers, files and publications, with deaths and failing   *)
(* launchctl calls at any point.                                           *)
(***************************************************************************)
EXTENDS ControlPublication, TLAPS

(* Hypotheses on the faults: the removal of an unused generation does not   *)
(* fail; no behaviour has both deaths and failing bootouts.                *)
RemovalsSucceed == \A S \in FaultCases : "prune" \notin S
OneOfTwoFaults == \A S \in FaultCases : ~({"death", "bootout"} \subseteq S)

(* Whatever fails: what has files, and what publishers remember, was made, *)
NamesMade ==
  /\ \A g \in Generations : files[g] # {} => g \in made
  /\ current \in made \cup {None}
  /\ \A p \in Publishers : previous[p] \in made \cup {None}

(* it is publishing until it rolls back, its view of the selection is the  *)
(* selection until it switches, and it loads only what it unloaded.        *)
ModesMatch ==
  \A p \in Publishers :
    /\ pc[p] \in {"prepare", "baseline", "link", "fill", "rollback"} => mode[p] = "publish"
    /\ pc[p] \in {"link", "fill"} => current = previous[p]
    /\ pc[p] = "load" => ~sched.live

(* What the publisher is about to select.                                  *)
BaselineReady ==
  \A p \in Publishers : pc[p] = "baseline" =>
    /\ current = None
    /\ gen[p] \in kept /\ files[gen[p]] = Files
    /\ origin[gen[p]] = IF SomeFile THEN "legacy" ELSE "empty"

GenerationApart ==
  \A p \in Publishers : pc[p] = "fill" =>
    gen[p] \in kept /\ gen[p] # current /\ origin[gen[p]] = "published"

(* The public paths are links before anything is switched.                 *)
LinkedFirst ==
  \A p \in Publishers :
    /\ pc[p] \in {"fill", "unload", "load", "prune", "rollback", "ended"} => AllLinked
    /\ pc[p] = "link" /\ current = None => ~SomeFile

(* Which public paths may be regular files, or absent, beside links.       *)
LinkShape ==
  /\ SomeFile => \A f \in Files : link[f] # "absent"
  /\ SomeFile /\ current = None => \A f \in Files : link[f] = "file"
  /\ SomeFile /\ current # None => origin[current] = "legacy"
  /\ (\E f \in Files : link[f] = "absent") /\ current # None => origin[current] = "empty"

Orderly ==
  NamesMade /\ ModesMatch /\ BaselineReady /\ GenerationApart /\ LinkedFirst /\ LinkShape

(* A publisher before its removals, and one that may still restore.        *)
Working == {"prepare", "baseline", "link", "fill", "unload", "load", "rollback"}
MayRestore(p) == pc[p] \in Working \/ (pc[p] = "prune" /\ mode[p] = "publish")

(* The regular LaunchAgent a publisher found loaded becomes the baseline   *)
(* it would select again.                                                  *)
LegacyKept(p) ==
  \/ pc[p] \in {"prepare", "baseline", "link"} /\ link[Agent] = "file"
  \/ /\ pc[p] \notin {"prepare", "baseline"}
     /\ previous[p] # None /\ origin[previous[p]] = "legacy"

(* What is at the source of the schedule a publisher found is what launchd *)
(* ran, if it was so when the publisher looked.                            *)
PriorFound ==
  \A p \in Publishers : MayRestore(p) /\ prior[p].live /\ prior[p].true =>
    /\ prior[p].source # "nowhere"
    /\ prior[p].source \in {"public", "outside"} => prior[p].job = "legacy"
    /\ prior[p].source = "public" => LegacyKept(p)
    /\ prior[p].source \in Generations =>
         /\ prior[p].source \in made
         /\ prior[p].job = IF origin[prior[p].source] = "published" THEN prior[p].source
                           ELSE origin[prior[p].source]

(* A restoration that has not failed has done what it is past.             *)
Restored(p) ==
  /\ current = previous[p]
  /\ ~unrestored[p] /\ prior[p].true =>
       /\ sched.live = prior[p].live
       /\ sched.live => sched.job = prior[p].job
Restoring ==
  \A p \in Publishers :
    /\ MayRestore(p) => ~unrestored[p]
    /\ pc[p] \in {"unload", "load"} /\ mode[p] = "restore" => current = previous[p]
    /\ pc[p] \in {"prune", "ended"} /\ mode[p] = "restore" => Restored(p)

RestoreInv == TypeOK /\ Orderly /\ PriorFound /\ Restoring

(* When removals succeed: until the old generations go, the one a publisher *)
(* found selected is whole, and what does not exist has no files.          *)
Whole(g) == g # None => g \in kept /\ files[g] = Files
PreviousWhole ==
  \A p \in Publishers :
    pc[p] \in {"unload", "load", "rollback"} /\ mode[p] = "publish" => Whole(previous[p])
FilesKept == \A g \in Generations : files[g] # {} => g \in kept
Wholes == SelectedWhole /\ PreviousWhole /\ FilesKept

IInv == TypeOK /\ Orderly /\ Wholes

(* What a loaded schedule runs on, and what a publisher would load again,  *)
(* is whole.                                                               *)
SchedWhole ==
  sched.live =>
    /\ sched.job \in Generations => Whole(sched.job) /\ origin[sched.job] = "published"
    /\ sched.via \in Generations => Whole(sched.via)
PriorWhole ==
  \A p \in Publishers :
    pc[p] \in Working /\ prior[p].source \in Generations => Whole(prior[p].source)

(* launchd runs what the file it was loaded from says.  A death after the  *)
(* switch leaves it with the job of an earlier generation, and so does a   *)
(* bootout that failed, which the rollback makes good; neither is so when  *)
(* generations are removed.                                                *)
Synced == sched.live /\ sched.job \in Generations => Resolve(sched.via) = sched.job
Switching(p) == pc[p] \in {"unload", "rollback"} /\ mode[p] = "publish"
SyncedBefore(p) ==
  sched.live /\ sched.job \in Generations =>
    sched.job = IF sched.via = "public" THEN previous[p] ELSE sched.via
SyncedWhen ==
  /\ \A p \in Publishers : pc[p] = "prune" => Synced
  /\ "death" \notin faults =>
       /\ (\A p \in Publishers : ~Switching(p)) => Synced
       /\ \A p \in Publishers : Switching(p) => SyncedBefore(p)
Loaded == SchedWhole /\ PriorWhole /\ SyncedWhen

-----------------------------------------------------------------------------
(* What the helpers return.                                                *)
LEMMA FreshIsNew == NameLeft => Fresh \in Generations /\ Fresh \notin made
  BY DEF NameLeft, Fresh

LEMMA ResolveType ==
  ASSUME TypeOK, NEW path \in Sources
  PROVE  Resolve(path) \in Sources
  BY DEF TypeOK, Resolve, Sources

LEMMA JobType ==
  ASSUME TypeOK, NEW source \in Sources
  PROVE  JobAt(source) \in Jobs \cup {"empty"}
  BY ControlAssumption DEF TypeOK, JobAt, Sources, Jobs, Marks

LEMMA InitInvariant == Init => IInv /\ PriorFound /\ Restoring /\ Loaded
<1> SUFFICES ASSUME Init PROVE IInv /\ PriorFound /\ Restoring /\ Loaded
  OBVIOUS
<1> USE ControlAssumption DEF Init
<1>1. TypeOK
  <2>1. link \in [Files -> {"absent", "file", "link"}]
    OBVIOUS
  <2>2. sched \in [live : BOOLEAN, via : Sources, job : Jobs]
    BY DEF Sources, Jobs
  <2>3. prior \in [Publishers -> [live : BOOLEAN, source : Sources, job : Jobs,
                                   true : BOOLEAN]]
    BY DEF NoPrior, Sources, Jobs
  <2>q. QED BY <2>1, <2>2, <2>3 DEF TypeOK, Inside
<1>2. Orderly
  BY DEF Orderly, NamesMade, ModesMatch, BaselineReady, GenerationApart, LinkedFirst,
         LinkShape, SomeFile
<1>3. Wholes
  BY DEF Wholes, SelectedWhole, PreviousWhole, FilesKept
<1>4. PriorFound /\ Restoring
  BY DEF PriorFound, Restoring, MayRestore, Working
<1>5. Loaded
  <2>1. sched.job \notin Generations /\ sched.via \notin Generations
    BY DEF Marks
  <2>2. SchedWhole
    BY <2>1 DEF SchedWhole
  <2>3. PriorWhole
    BY DEF PriorWhole, Working
  <2>4. SyncedWhen
    BY <2>1 DEF SyncedWhen, Synced, Switching
  <2>q. QED BY <2>2, <2>3, <2>4 DEF Loaded
<1>q. QED BY <1>1, <1>2, <1>3, <1>4, <1>5 DEF IInv

-----------------------------------------------------------------------------
(* Every step of a publisher keeps the variables in their domains.         *)
LEMMA PublisherTypeOK ==
  ASSUME TypeOK, NEW p \in Publishers, Begin(p) \/ Publish(p) \/ Die(p)
  PROVE  TypeOK'
<1> USE DEF TypeOK, At, GoTo, Inside, diskVars, ownVars
<1>1. CASE Begin(p)
  BY <1>1, ControlAssumption DEF Begin
<1>2. CASE Acquire(p)
  <2>1. prior'[p] \in [live : BOOLEAN, source : Sources, job : Jobs, true : BOOLEAN]
    BY <1>2, ResolveType DEF Acquire, Sources
  <2>q. QED BY <1>2, <2>1 DEF Acquire
<1>3. CASE Prepare(p)
  <2>1. CASE current = None /\ ~AllAbsent
    <3>1. /\ Fresh \in Generations
          /\ kept' = kept \cup {Fresh} /\ made' = made \cup {Fresh}
          /\ files' = [files EXCEPT ![Fresh] = Files]
          /\ gen' = [gen EXCEPT ![p] = Fresh]
      BY <1>3, <2>1, FreshIsNew DEF Prepare, NewGeneration
    <3>2. origin' \in [Generations -> {"published", "legacy", "empty"}]
      BY <1>3, <2>1, <3>1 DEF Prepare, NewGeneration
    <3>3. /\ kept' \subseteq made' /\ made' \subseteq Generations
          /\ files' \in [Generations -> SUBSET Files]
          /\ gen' \in [Publishers -> Generations \cup {None}]
      BY <3>1
    <3>q. QED BY SMTT(30), <1>3, <2>1, <3>2, <3>3 DEF Prepare
  <2>2. CASE ~(current = None /\ ~AllAbsent)
    BY SMTT(30), <1>3, <2>2 DEF Prepare
  <2>q. QED BY <2>1, <2>2
<1>4. CASE SelectBaseline(p)
  BY <1>4 DEF SelectBaseline
<1>5. CASE \E f \in Files : LinkPublic(p, f)
  <2>1. PICK f \in Files : LinkPublic(p, f)
    BY <1>5
  <2>2. /\ link' \in [Files -> {"absent", "file", "link"}]
        /\ \E where \in {"idle", "link"} : GoTo(p, where)
    BY <2>1 DEF LinkPublic
  <2>q. QED BY <2>1, <2>2 DEF LinkPublic
<1>6. CASE MakeGeneration(p)
  BY <1>6, FreshIsNew DEF MakeGeneration, NewGeneration
<1>7. CASE \E f \in Files : MoveFile(p, f)
  <2>1. PICK f \in Files : MoveFile(p, f)
    BY <1>7
  <2>2. files' = [files EXCEPT ![gen[p]] = files[gen[p]] \cup {f}]
    BY <2>1 DEF MoveFile
  <2>3. files' \in [Generations -> SUBSET Files]
    BY <2>2
  <2>q. QED BY <2>1, <2>3 DEF MoveFile
<1>8. CASE Select(p)
  BY <1>8 DEF Select
<1>9. CASE Unload(p)
  <2>1. sched' \in [live : BOOLEAN, via : Sources, job : Jobs]
    BY <1>9 DEF Unload
  <2>2. /\ unrestored' \in [Publishers -> BOOLEAN]
        /\ \E where \in {"load", "rollback", "prune"} : GoTo(p, where)
    BY <1>9 DEF Unload, LaunchctlFails
  <2>q. QED BY <1>9, <2>1, <2>2 DEF Unload
<1>10. CASE Load(p)
  <2>1. LoadPath(p) \in Sources
    BY DEF LoadPath, Sources
  <2>2. JobAt(Resolve(LoadPath(p))) \in Jobs \cup {"empty"}
    BY <2>1, ResolveType, JobType
  <2>3. Wanted(p) \in BOOLEAN
    BY DEF Wanted
  <2>4. sched' \in [live : BOOLEAN, via : Sources, job : Jobs]
    <3>1. CASE UNCHANGED sched
      BY <3>1
    <3>2. CASE ~UNCHANGED sched
      <4>1. /\ JobAt(Resolve(LoadPath(p))) \in Jobs
            /\ sched' = [live |-> TRUE, via |-> LoadPath(p),
                         job |-> JobAt(Resolve(LoadPath(p)))]
        BY <1>10, <2>2, <3>2 DEF Load
      <4>q. QED BY <2>1, <4>1
    <3>q. QED BY <3>1, <3>2
  <2>5. /\ unrestored' \in [Publishers -> BOOLEAN]
        /\ \E where \in {"rollback", "prune"} : GoTo(p, where)
    BY <1>10 DEF Load, LaunchctlFails
  <2>q. QED BY <1>10, <2>4, <2>5 DEF Load
<1>11. CASE \E g \in Generations : Prune(p, g)
  <2>1. files' \in [Generations -> SUBSET Files] /\ kept' \subseteq made
    <3>1. PICK g \in Generations : Prune(p, g)
      BY <1>11
    <3>2. \/ \E rest \in SUBSET files[g] : files' = [files EXCEPT ![g] = rest]
          \/ files' = [files EXCEPT ![g] = {}]
      BY <3>1 DEF Prune
    <3>3. kept' \subseteq kept
      BY <3>1 DEF Prune
    <3>q. QED BY <3>2, <3>3
  <2>2. \E where \in {"rollback", "ended", "prune"} : GoTo(p, where)
    BY <1>11 DEF Prune
  <2>q. QED BY <1>11, <2>1, <2>2 DEF Prune
<1>12. CASE PruneEnd(p)
  BY <1>12 DEF PruneEnd
<1>13. CASE Rollback(p)
  BY <1>13 DEF Rollback
<1>14. CASE End(p)
  BY <1>14 DEF End
<1>15. CASE Die(p)
  BY <1>15 DEF Die
<1>q. QED
  BY <1>1, <1>2, <1>3, <1>4, <1>5, <1>6, <1>7, <1>8, <1>9, <1>10, <1>11, <1>12,
     <1>13, <1>14, <1>15
  DEF Publish

-----------------------------------------------------------------------------
(* Only one publisher is inside, so a step of p leaves what is said of any *)
(* other publisher true of an idle or waiting one.                         *)
LEMMA OthersOutside ==
  ASSUME TypeOK, NEW p \in Inside, NEW q \in Publishers, q # p
  PROVE  pc[q] \in {"idle", "wait"}
  BY DEF TypeOK, Inside

(* The order of a publication, whatever fails.                             *)
LEMMA PublisherOrderly ==
  ASSUME TypeOK, Orderly, NEW p \in Publishers, Begin(p) \/ Publish(p) \/ Die(p)
  PROVE  Orderly'
<1> USE DEF TypeOK, Orderly, At, GoTo, diskVars, ownVars, SomeFile, AllLinked,
            NamesMade, ModesMatch, BaselineReady, GenerationApart, LinkedFirst, LinkShape
<1>0. ASSUME p \in Inside, NEW q \in Publishers, q # p
      PROVE  pc[q] \in {"idle", "wait"}
  BY <1>0, OthersOutside
<1>00. None \notin Generations
  BY ControlAssumption
<1>1. CASE Begin(p)
  BY <1>1 DEF Begin
<1>2. CASE Acquire(p)
  BY <1>2 DEF Acquire
<1>3. CASE Prepare(p)
  <2>0. \A q \in Publishers : q # p => pc[q] \in {"idle", "wait"}
    BY <1>3, <1>0 DEF Prepare, Inside
  <2>1. CASE current = None /\ ~AllAbsent
    <3>1. /\ NameLeft /\ kept' = kept \cup {Fresh} /\ made' = made \cup {Fresh}
          /\ files' = [files EXCEPT ![Fresh] = Files]
          /\ origin' = [origin EXCEPT ![Fresh] = IF SomeFile THEN "legacy" ELSE "empty"]
          /\ gen' = [gen EXCEPT ![p] = Fresh]
          /\ pc' = [pc EXCEPT ![p] = "baseline"]
          /\ UNCHANGED <<current, link, sched, mode, previous>>
      BY <1>3, <2>1 DEF Prepare, NewGeneration
    <3>2. BaselineReady'
      BY <2>0, <2>1, <3>1, FreshIsNew
    <3>3. NamesMade' /\ ModesMatch' /\ GenerationApart'
      BY <1>3, <2>0, <2>1, <3>1 DEF Prepare
    <3>4. LinkedFirst' /\ LinkShape'
      BY <2>0, <2>1, <3>1
    <3>q. QED BY <3>2, <3>3, <3>4
  <2>2. CASE current # None \/ AllAbsent
    <3>1. /\ previous' = [previous EXCEPT ![p] = current]
          /\ pc' = [pc EXCEPT ![p] = "link"] /\ pc[p] = "prepare"
          /\ UNCHANGED <<kept, made, files, origin, current, link, sched, mode, gen>>
      BY <1>3, <2>2 DEF Prepare, NewGeneration
    <3>2. NamesMade' /\ ModesMatch' /\ GenerationApart' /\ BaselineReady'
      BY <2>0, <3>1
    <3>3. LinkedFirst' /\ LinkShape'
      BY <2>0, <2>2, <3>1 DEF AllAbsent
    <3>q. QED BY <3>2, <3>3
  <2>q. QED BY <2>1, <2>2
<1>4. CASE SelectBaseline(p)
  <2>0. \A q \in Publishers : q # p => pc[q] \in {"idle", "wait"}
    BY <1>4, <1>0 DEF SelectBaseline, Inside
  <2>1. gen[p] \in made /\ gen[p] # None
    BY <1>4, <1>00 DEF SelectBaseline
  <2>2. NamesMade' /\ ModesMatch'
    BY <1>4, <2>0, <2>1 DEF SelectBaseline
  <2>3. GenerationApart' /\ BaselineReady'
    BY <1>4, <2>0, <2>1 DEF SelectBaseline
  <2>4. LinkedFirst' /\ LinkShape'
    BY <1>4, <2>0, <2>1 DEF SelectBaseline
  <2>q. QED BY <2>2, <2>3, <2>4
<1>5. CASE \E f \in Files : LinkPublic(p, f)
  BY <1>5, <1>0 DEF LinkPublic, Inside
<1>6. CASE MakeGeneration(p)
  <2>0. \A q \in Publishers : q # p => pc[q] \in {"idle", "wait"}
    BY <1>6, <1>0 DEF MakeGeneration, Inside
  <2>1. /\ Fresh \in Generations /\ Fresh \notin made
        /\ kept' = kept \cup {Fresh} /\ made' = made \cup {Fresh} /\ AllLinked
        /\ files' = [files EXCEPT ![Fresh] = {}]
        /\ origin' = [origin EXCEPT ![Fresh] = "published"]
        /\ gen' = [gen EXCEPT ![p] = Fresh]
        /\ pc' = [pc EXCEPT ![p] = "fill"] /\ pc[p] = "link"
        /\ UNCHANGED <<current, link, sched, mode, previous>>
    BY <1>6, FreshIsNew DEF MakeGeneration, NewGeneration
  <2>2. current # Fresh
    BY <1>00, <2>1
  <2>3. NamesMade' /\ ModesMatch' /\ GenerationApart' /\ BaselineReady'
    BY <2>0, <2>1, <2>2
  <2>4. LinkedFirst' /\ LinkShape'
    BY <2>0, <2>1, <2>2
  <2>q. QED BY <2>3, <2>4
<1>7. CASE \E f \in Files : MoveFile(p, f)
  BY <1>7, <1>0 DEF MoveFile, Inside
<1>8. CASE Select(p)
  <2>1. /\ gen[p] \in made /\ current' = gen[p] /\ pc[p] = "fill"
        /\ pc' = [pc EXCEPT ![p] = "unload"]
        /\ UNCHANGED <<kept, files, origin, made, link, sched, gen, mode, previous>>
    BY <1>8 DEF Select
  <2>2. \A q \in Publishers : q # p => pc[q] \in {"idle", "wait"}
    BY <2>1, <1>0 DEF Inside
  <2>3. NamesMade' /\ ModesMatch'
    BY SMTT(30), <2>1, <2>2
  <2>4. GenerationApart' /\ BaselineReady'
    BY SMTT(30), <2>1, <2>2
  <2>5. LinkedFirst' /\ LinkShape'
    BY <2>1, <2>2
  <2>q. QED BY <2>3, <2>4, <2>5
<1>9. CASE Unload(p)
  BY <1>9, <1>0 DEF Unload, LaunchctlFails, Inside
<1>10. CASE Load(p)
  BY <1>10, <1>0 DEF Load, LaunchctlFails, Inside
<1>11. CASE \E g \in Generations : Prune(p, g)
  <2>0. \A g \in Generations : files'[g] \subseteq files[g]
    BY <1>11 DEF Prune
  <2>1. /\ UNCHANGED <<origin, made, current, link, sched, gen, mode, previous>>
        /\ pc[p] = "prune"
        /\ pc' \in {pc, [pc EXCEPT ![p] = IF mode[p] = "publish" THEN "rollback" ELSE "ended"]}
    BY <1>11 DEF Prune
  <2>2. \A q \in Publishers : q # p => pc[q] \in {"idle", "wait"}
    BY <2>1, <1>0 DEF Inside
  <2>3. NamesMade' /\ ModesMatch'
    BY <2>0, <2>1, <2>2
  <2>4. GenerationApart' /\ BaselineReady'
    BY <2>1, <2>2
  <2>5. LinkedFirst' /\ LinkShape'
    BY <2>1, <2>2
  <2>q. QED BY <2>3, <2>4, <2>5
<1>12. CASE PruneEnd(p)
  BY <1>12 DEF PruneEnd
<1>13. CASE Rollback(p)
  <2>0. \A q \in Publishers : q # p => pc[q] \in {"idle", "wait"}
    BY <1>13, <1>0 DEF Rollback, Inside
  <2>1. NamesMade' /\ ModesMatch'
    BY <1>13, <2>0 DEF Rollback
  <2>3. GenerationApart' /\ BaselineReady'
    BY SMTT(30), <1>13, <2>0 DEF Rollback
  <2>2. LinkedFirst' /\ LinkShape'
    BY <1>13, <2>0 DEF Rollback
  <2>q. QED BY <2>1, <2>2, <2>3
<1>14. CASE End(p)
  BY <1>14 DEF End
<1>15. CASE Die(p)
  BY <1>15 DEF Die
<1>q. QED
  BY <1>1, <1>2, <1>3, <1>4, <1>5, <1>6, <1>7, <1>8, <1>9, <1>10, <1>11, <1>12,
     <1>13, <1>14, <1>15
  DEF Publish

(* What a generation holds, while removals succeed.                        *)
LEMMA PublisherWhole ==
  ASSUME RemovalsSucceed, IInv, NEW p \in Publishers, Begin(p) \/ Publish(p) \/ Die(p)
  PROVE  Wholes'
<1> USE DEF IInv, TypeOK, Wholes, At, GoTo, diskVars, ownVars, Whole, SelectedWhole,
            PreviousWhole, FilesKept
<1>0. ASSUME p \in Inside PROVE \A q \in Publishers : q # p => pc[q] \in {"idle", "wait"}
  BY <1>0, OthersOutside
<1>00. None \notin Generations
  BY ControlAssumption
<1>1. CASE Begin(p)
  BY <1>1 DEF Begin
<1>2. CASE Acquire(p)
  BY <1>2 DEF Acquire
<1>3. CASE Prepare(p)
  <2>0. \A q \in Publishers : q # p => pc[q] \in {"idle", "wait"}
    BY <1>3, <1>0 DEF Prepare, Inside
  <2>1. CASE current = None /\ ~AllAbsent
    <3>1. /\ NameLeft /\ kept' = kept \cup {Fresh}
          /\ files' = [files EXCEPT ![Fresh] = Files]
          /\ pc' = [pc EXCEPT ![p] = "baseline"]
          /\ UNCHANGED <<current, mode, previous>>
      BY <1>3, <2>1 DEF Prepare, NewGeneration
    <3>q. QED BY <2>0, <2>1, <3>1, FreshIsNew
  <2>2. CASE current # None \/ AllAbsent
    <3>1. /\ previous' = [previous EXCEPT ![p] = current]
          /\ pc' = [pc EXCEPT ![p] = "link"]
          /\ UNCHANGED <<kept, files, current, mode>>
      BY <1>3, <2>2 DEF Prepare
    <3>q. QED BY <2>0, <3>1
  <2>q. QED BY <2>1, <2>2
<1>4. CASE SelectBaseline(p)
  <2>1. gen[p] \in Generations /\ gen[p] \in kept /\ files[gen[p]] = Files
    BY <1>4, <1>00 DEF SelectBaseline, Orderly, BaselineReady
  <2>2. \A q \in Publishers : q # p => pc[q] \in {"idle", "wait"}
    BY <1>4, <1>0 DEF SelectBaseline, Inside
  <2>q. QED BY <1>4, <2>1, <2>2 DEF SelectBaseline
<1>5. CASE \E f \in Files : LinkPublic(p, f)
  BY <1>5 DEF LinkPublic
<1>6. CASE MakeGeneration(p)
  <2>1. /\ Fresh \in Generations /\ Fresh \notin made
        /\ kept' = kept \cup {Fresh}
        /\ files' = [files EXCEPT ![Fresh] = {}]
        /\ pc' = [pc EXCEPT ![p] = "fill"] /\ pc[p] = "link"
        /\ UNCHANGED <<current, mode, previous>>
    BY <1>6, FreshIsNew DEF MakeGeneration, NewGeneration
  <2>2. \A q \in Publishers : q # p => pc[q] \in {"idle", "wait"}
    BY <2>1, <1>0 DEF Inside
  <2>q. QED BY <2>1, <2>2
<1>7. CASE \E f \in Files : MoveFile(p, f)
  <2>1. PICK f \in Files : MoveFile(p, f)
    BY <1>7
  <2>2. gen[p] \in Generations /\ gen[p] \in kept /\ gen[p] # current
    BY <2>1, <1>00 DEF MoveFile, Orderly, GenerationApart
  <2>3. files' = [files EXCEPT ![gen[p]] = files[gen[p]] \cup {f}]
    BY <2>1 DEF MoveFile
  <2>4. /\ UNCHANGED <<current, kept, mode, previous, pc>> /\ pc[p] = "fill"
    BY <2>1 DEF MoveFile
  <2>5. \A q \in Publishers : q # p => pc[q] \in {"idle", "wait"}
    BY <2>4, <1>0 DEF Inside
  <2>6. SelectedWhole' /\ FilesKept'
    BY <2>2, <2>3, <2>4
  <2>7. PreviousWhole'
    BY <2>4, <2>5
  <2>q. QED BY <2>6, <2>7
<1>8. CASE Select(p)
  <2>1. gen[p] \in Generations /\ gen[p] \in kept /\ files[gen[p]] = Files
    BY <1>8, <1>00 DEF Select, Orderly, GenerationApart
  <2>2. mode[p] = "publish" /\ Whole(previous[p])
    BY <1>8 DEF Select, Orderly, ModesMatch
  <2>q. QED BY <1>8, <2>1, <2>2 DEF Select
<1>9. CASE Unload(p)
  BY <1>9 DEF Unload, LaunchctlFails
<1>10. CASE Load(p)
  BY <1>10 DEF Load, LaunchctlFails
<1>11. CASE \E g \in Generations : Prune(p, g)
  <2>1. PICK g \in Generations : Prune(p, g)
    BY <1>11
  <2>2. g # current
    BY <2>1 DEF Prune, Prunable, Protected
  <2>3. "prune" \notin faults
    BY DEF RemovalsSucceed
  <2>4. /\ pc[p] = "prune" /\ UNCHANGED pc
        /\ files' = [files EXCEPT ![g] = {}] /\ kept' = kept \ {g}
        /\ UNCHANGED <<current, mode, previous>>
    BY <2>1, <2>3 DEF Prune
  <2>5. \A q \in Publishers : q # p => pc[q] \in {"idle", "wait"}
    BY <2>4, <1>0 DEF Inside
  <2>q. QED BY <2>2, <2>4, <2>5
<1>12. CASE PruneEnd(p)
  BY <1>12 DEF PruneEnd
<1>13. CASE Rollback(p)
  <2>1. Whole(previous[p])
    BY <1>13, <1>0 DEF Rollback, Orderly, ModesMatch
  <2>2. \A q \in Publishers : q # p => pc[q] \in {"idle", "wait"}
    BY <1>13, <1>0 DEF Rollback, Inside
  <2>q. QED BY <1>13, <2>1, <2>2 DEF Rollback
<1>14. CASE End(p)
  BY <1>14 DEF End
<1>15. CASE Die(p)
  BY <1>15 DEF Die
<1>q. QED
  BY <1>1, <1>2, <1>3, <1>4, <1>5, <1>6, <1>7, <1>8, <1>9, <1>10, <1>11, <1>12,
     <1>13, <1>14, <1>15
  DEF Publish

(* What a publisher found loaded, and the restoration of it.               *)
LEMMA PublisherPrior ==
  ASSUME TypeOK, Orderly, PriorFound, NEW p \in Publishers, Begin(p) \/ Publish(p) \/ Die(p)
  PROVE  PriorFound'
<1> USE DEF TypeOK, At, GoTo, diskVars, ownVars, PriorFound, MayRestore, Working, LegacyKept
<1>0. ASSUME p \in Inside PROVE \A q \in Publishers : q # p => pc[q] \in {"idle", "wait"}
  BY <1>0, OthersOutside
<1>00. None \notin Generations /\ "empty" \notin Jobs /\ "public" \notin Generations
       /\ "outside" \notin Generations /\ "nowhere" \notin Generations
  BY ControlAssumption DEF Jobs, Marks
<1>1. CASE Begin(p)
  BY <1>1 DEF Begin
<1>2. CASE Acquire(p)
  <2>0. \A q \in Publishers : q # p => pc[q] \in {"idle", "wait"}
    BY <1>2 DEF Acquire, Inside
  <2>1. ASSUME prior'[p].live, prior'[p].true
        PROVE  /\ prior'[p].source # "nowhere"
               /\ prior'[p].source \in {"public", "outside"} => prior'[p].job = "legacy"
               /\ prior'[p].source = "public" => link[Agent] = "file"
               /\ prior'[p].source \in Generations =>
                    /\ prior'[p].source \in made
                    /\ prior'[p].job = IF origin[prior'[p].source] = "published"
                                         THEN prior'[p].source ELSE origin[prior'[p].source]
    <3>1. /\ sched.live /\ prior'[p].source = Resolve(sched.via)
          /\ prior'[p].job = sched.job /\ JobAt(Resolve(sched.via)) = sched.job
      BY ZenonT(30), <1>2, <2>1 DEF Acquire
    <3>2. sched.job # "empty" /\ Resolve(sched.via) \in Sources
      BY <1>00, ResolveType
    <3>3. JobAt("nowhere") = "empty" /\ JobAt("outside") = "legacy"
      BY <1>00 DEF JobAt
    <3>4. JobAt("public") = IF link[Agent] = "file" THEN "legacy" ELSE "empty"
      BY <1>00 DEF JobAt
    <3>5. ASSUME NEW g \in Generations
          PROVE  JobAt(g) = IF Agent \notin files[g] THEN "empty"
                            ELSE IF origin[g] = "published" THEN g ELSE origin[g]
      BY <1>00 DEF JobAt
    <3>q. QED
      <4>1. CASE Resolve(sched.via) = "nowhere"
        BY <4>1, <3>1, <3>2, <3>3
      <4>2. CASE Resolve(sched.via) = "outside"
        BY <4>2, <3>1, <3>2, <3>3, <1>00
      <4>3. CASE Resolve(sched.via) = "public"
        BY <4>3, <3>1, <3>2, <3>4, <1>00
      <4>4. CASE Resolve(sched.via) \in Generations
        BY <4>4, <3>1, <3>2, <3>5, <1>00 DEF Orderly, NamesMade
      <4>q. QED BY <3>2, <4>1, <4>2, <4>3, <4>4 DEF Sources
  <2>2. pc' = [pc EXCEPT ![p] = "prepare"] /\ UNCHANGED <<made, origin, link>>
        /\ \A q \in Publishers : q # p => prior'[q] = prior[q]
    BY <1>2 DEF Acquire
  <2>q. QED BY <2>0, <2>1, <2>2
<1>3. CASE Prepare(p)
  <2>0. \A q \in Publishers : q # p => pc[q] \in {"idle", "wait"}
    BY <1>3, <1>0 DEF Prepare, Inside
  <2>1. CASE current = None /\ ~AllAbsent
    <3>1. /\ NameLeft /\ made' = made \cup {Fresh}
          /\ origin' = [origin EXCEPT ![Fresh] = IF SomeFile THEN "legacy" ELSE "empty"]
          /\ pc' = [pc EXCEPT ![p] = "baseline"] /\ pc[p] = "prepare"
          /\ UNCHANGED <<prior, previous, link>>
      BY <1>3, <2>1 DEF Prepare, NewGeneration
    <3>q. QED BY <2>0, <3>1, FreshIsNew
  <2>2. CASE current # None \/ AllAbsent
    <3>1. /\ pc' = [pc EXCEPT ![p] = "link"] /\ pc[p] = "prepare"
          /\ UNCHANGED <<prior, link, made, origin>>
      BY <1>3, <2>2 DEF Prepare
    <3>q. QED BY <2>0, <3>1
  <2>q. QED BY <2>1, <2>2
<1>4. CASE SelectBaseline(p)
  <2>0. \A q \in Publishers : q # p => pc[q] \in {"idle", "wait"}
    BY <1>4, <1>0 DEF SelectBaseline, Inside
  <2>q. QED BY <1>4, <2>0 DEF SelectBaseline
<1>5. CASE \E f \in Files : LinkPublic(p, f)
  <2>1. PICK f \in Files : LinkPublic(p, f)
    BY <1>5
  <2>2. CASE link[f] = "file" /\ previous[p] # None /\ origin[previous[p]] # "legacy"
    BY <2>1, <2>2 DEF LinkPublic
  <2>3. CASE ~(link[f] = "file" /\ previous[p] # None /\ origin[previous[p]] # "legacy")
    <3>1. /\ link' = [link EXCEPT ![f] = "link"] /\ UNCHANGED pc /\ pc[p] = "link"
          /\ UNCHANGED <<prior, previous, made, origin>>
      BY <2>1, <2>3 DEF LinkPublic
    <3>2. link[f] = "file" => previous[p] # None /\ origin[previous[p]] = "legacy"
      BY <2>3, <3>1 DEF Orderly, ModesMatch, LinkedFirst, SomeFile
    <3>3. \A q \in Publishers : q # p => pc[q] \in {"idle", "wait"}
      BY <3>1, <1>0 DEF Inside
    <3>q. QED BY <3>1, <3>2, <3>3
  <2>q. QED BY <2>2, <2>3
<1>6. CASE MakeGeneration(p)
  <2>1. /\ Fresh \in Generations /\ Fresh \notin made /\ AllLinked
        /\ made' = made \cup {Fresh}
        /\ origin' = [origin EXCEPT ![Fresh] = "published"]
        /\ pc' = [pc EXCEPT ![p] = "fill"] /\ pc[p] = "link"
        /\ UNCHANGED <<link, prior, previous>>
    BY <1>6, FreshIsNew DEF MakeGeneration, NewGeneration
  <2>2. \A q \in Publishers : q # p => pc[q] \in {"idle", "wait"}
    BY <2>1, <1>0 DEF Inside
  <2>3. link[Agent] = "link"
    BY <2>1, ControlAssumption DEF AllLinked
  <2>4. previous[p] # None => previous[p] \in made /\ previous[p] \in Generations
    BY DEF Orderly, NamesMade
  <2>q. QED BY <2>1, <2>2, <2>3, <2>4
<1>7. CASE \E f \in Files : MoveFile(p, f)
  BY <1>7 DEF MoveFile
<1>8. CASE Select(p)
  BY <1>8 DEF Select
<1>9. CASE Unload(p)
  BY <1>9 DEF Unload, LaunchctlFails
<1>10. CASE Load(p)
  BY <1>10 DEF Load, LaunchctlFails
<1>11. CASE \E g \in Generations : Prune(p, g)
  <2>1. /\ UNCHANGED <<origin, made, link, prior, previous, mode>> /\ pc[p] = "prune"
        /\ pc' \in {pc, [pc EXCEPT ![p] = IF mode[p] = "publish" THEN "rollback" ELSE "ended"]}
    BY <1>11 DEF Prune
  <2>2. \A q \in Publishers : q # p => pc[q] \in {"idle", "wait"}
    BY <2>1, <1>0 DEF Inside
  <2>q. QED BY <2>1, <2>2
<1>12. CASE PruneEnd(p)
  BY <1>12 DEF PruneEnd
<1>13. CASE Rollback(p)
  BY <1>13 DEF Rollback
<1>14. CASE End(p)
  BY <1>14 DEF End
<1>15. CASE Die(p)
  BY <1>15 DEF Die
<1>q. QED
  BY <1>1, <1>2, <1>3, <1>4, <1>5, <1>6, <1>7, <1>8, <1>9, <1>10, <1>11, <1>12,
     <1>13, <1>14, <1>15
  DEF Publish

(* What a restoration has done.                                            *)
LEMMA PublisherRestoring ==
  ASSUME RestoreInv, NEW p \in Publishers, Begin(p) \/ Publish(p) \/ Die(p)
  PROVE  Restoring'
<1> USE DEF RestoreInv, TypeOK, At, GoTo, diskVars, ownVars, Restoring, MayRestore,
            Working, Restored
<1>0. ASSUME p \in Inside PROVE \A q \in Publishers : q # p => pc[q] \in {"idle", "wait"}
  BY <1>0, OthersOutside
<1>1. CASE Begin(p)
  BY <1>1 DEF Begin
<1>2. CASE Acquire(p)
  BY <1>2 DEF Acquire, Inside
<1>3. CASE Prepare(p)
  <2>0. \A q \in Publishers : q # p => pc[q] \in {"idle", "wait"}
    BY <1>3, <1>0 DEF Prepare, Inside
  <2>1. /\ pc[p] = "prepare" /\ UNCHANGED <<mode, unrestored, current, sched, prior>>
        /\ \E where \in {"baseline", "link"} : pc' = [pc EXCEPT ![p] = where]
    BY <1>3 DEF Prepare
  <2>q. QED BY <2>0, <2>1
<1>4. CASE SelectBaseline(p)
  <2>0. \A q \in Publishers : q # p => pc[q] \in {"idle", "wait"}
    BY <1>4, <1>0 DEF SelectBaseline, Inside
  <2>q. QED BY <1>4, <2>0 DEF SelectBaseline
<1>5. CASE \E f \in Files : LinkPublic(p, f)
  <2>1. /\ pc[p] = "link" /\ UNCHANGED <<mode, unrestored, current, sched, prior, previous>>
        /\ \E where \in {"idle", "link"} : pc' = [pc EXCEPT ![p] = where]
    BY <1>5 DEF LinkPublic
  <2>q. QED BY <2>1
<1>6. CASE MakeGeneration(p)
  BY <1>6 DEF MakeGeneration
<1>7. CASE \E f \in Files : MoveFile(p, f)
  BY <1>7 DEF MoveFile
<1>8. CASE Select(p)
  <2>0. \A q \in Publishers : q # p => pc[q] \in {"idle", "wait"}
    BY <1>8, <1>0 DEF Select, Inside
  <2>q. QED BY <1>8, <2>0 DEF Select, Orderly, ModesMatch
<1>9. CASE Unload(p)
  <2>0. \A q \in Publishers : q # p => pc[q] \in {"idle", "wait"}
    BY <1>9, <1>0 DEF Unload, Inside
  <2>1. pc[p] = "unload" /\ UNCHANGED <<current, previous, prior, mode>>
    BY <1>9 DEF Unload
  <2>2. \/ /\ mode[p] = "publish" /\ pc' = [pc EXCEPT ![p] = "rollback"]
           /\ UNCHANGED unrestored
        \/ /\ mode[p] = "restore" /\ pc' = [pc EXCEPT ![p] = "prune"]
           /\ unrestored' = [unrestored EXCEPT ![p] = TRUE]
        \/ pc' = [pc EXCEPT ![p] = "load"] /\ UNCHANGED unrestored
    BY <1>9 DEF Unload, LaunchctlFails
  <2>q. QED BY <2>0, <2>1, <2>2
<1>10. CASE Load(p)
  <2>0. \A q \in Publishers : q # p => pc[q] \in {"idle", "wait"}
    BY <1>10, <1>0 DEF Load, Inside
  <2>1. /\ pc[p] = "load" /\ ~sched.live
        /\ UNCHANGED <<current, previous, prior, mode, files, origin, link>>
    BY <1>10 DEF Load, Orderly, ModesMatch
  <2>2. \/ /\ mode[p] = "publish" /\ pc' = [pc EXCEPT ![p] = "rollback"]
           /\ UNCHANGED unrestored
        \/ /\ mode[p] = "restore" /\ pc' = [pc EXCEPT ![p] = "prune"]
           /\ unrestored' = [unrestored EXCEPT ![p] = TRUE]
        \/ pc' = [pc EXCEPT ![p] = "prune"] /\ UNCHANGED unrestored
    BY <1>10 DEF Load, LaunchctlFails
  <2>3. ASSUME mode[p] = "restore", prior[p].true, ~unrestored'[p]
        PROVE  /\ sched'.live = prior[p].live
               /\ sched'.live => sched'.job = prior[p].job
    <3>1. CASE ~prior[p].live
      <4>1. UNCHANGED sched
        BY <1>10, <2>1, <2>3, <3>1 DEF Load, Wanted, LaunchctlFails
      <4>q. QED BY <2>1, <3>1, <4>1
    <3>2. CASE prior[p].live
      <4>1. /\ JobAt(Resolve(prior[p].source)) # "empty"
            /\ sched' = [live |-> TRUE, via |-> prior[p].source,
                         job |-> JobAt(Resolve(prior[p].source))]
        BY <1>10, <2>1, <2>3, <3>2 DEF Load, Wanted, LoadPath, LaunchctlFails
      <4>2. /\ prior[p].source # "nowhere"
            /\ prior[p].source \in {"public", "outside"} => prior[p].job = "legacy"
            /\ prior[p].source = "public" =>
                 previous[p] # None /\ origin[previous[p]] = "legacy"
            /\ prior[p].source \in Generations =>
                 prior[p].job = IF origin[prior[p].source] = "published" THEN prior[p].source
                                ELSE origin[prior[p].source]
        BY <2>1, <2>3, <3>2 DEF PriorFound, LegacyKept
      <4>3. current = previous[p] /\ link[Agent] = "link"
        BY <2>1, <2>3, ControlAssumption DEF Orderly, LinkedFirst, AllLinked
      <4>4. ASSUME NEW g \in Generations, JobAt(g) # "empty"
            PROVE  JobAt(g) = IF origin[g] = "published" THEN g ELSE origin[g]
        BY <4>4, ControlAssumption DEF JobAt, Marks
      <4>5. CASE prior[p].source = "public"
        <5>1. Resolve(prior[p].source) = current /\ current \in Generations
          BY <4>2, <4>3, <4>5 DEF Resolve
        <5>q. QED BY <4>1, <4>2, <4>3, <4>4, <4>5, <5>1, <3>2
      <4>6. CASE prior[p].source = "outside"
        BY <4>1, <4>2, <4>6, <3>2, ControlAssumption DEF Resolve, JobAt
      <4>7. CASE prior[p].source \in Generations
        <5>1. Resolve(prior[p].source) = prior[p].source
          BY <4>7, ControlAssumption DEF Resolve, Marks
        <5>q. QED BY <4>1, <4>2, <4>4, <4>7, <5>1, <3>2
      <4>q. QED BY <4>2, <4>5, <4>6, <4>7 DEF Sources
    <3>q. QED BY <3>1, <3>2
  <2>q. QED BY <2>0, <2>1, <2>2, <2>3
<1>11. CASE \E g \in Generations : Prune(p, g)
  <2>1. /\ UNCHANGED <<current, sched, unrestored, prior, previous, mode>> /\ pc[p] = "prune"
        /\ pc' \in {pc, [pc EXCEPT ![p] = IF mode[p] = "publish" THEN "rollback" ELSE "ended"]}
    BY <1>11 DEF Prune
  <2>q. QED BY <2>1
<1>12. CASE PruneEnd(p)
  BY <1>12 DEF PruneEnd
<1>13. CASE Rollback(p)
  <2>0. \A q \in Publishers : q # p => pc[q] \in {"idle", "wait"}
    BY <1>13, <1>0 DEF Rollback, Inside
  <2>q. QED BY <1>13, <2>0 DEF Rollback
<1>14. CASE End(p)
  BY <1>14 DEF End
<1>15. CASE Die(p)
  BY <1>15 DEF Die
<1>q. QED
  BY <1>1, <1>2, <1>3, <1>4, <1>5, <1>6, <1>7, <1>8, <1>9, <1>10, <1>11, <1>12,
     <1>13, <1>14, <1>15
  DEF Publish

(* The job in the file at a source: the generation itself, if it is one.   *)
LEMMA JobIsSource ==
  ASSUME TypeOK, NEW source \in Sources, JobAt(source) \in Generations
  PROVE  /\ source \in Generations /\ JobAt(source) = source
         /\ origin[source] = "published" /\ Agent \in files[source]
  BY ControlAssumption DEF TypeOK, Sources, JobAt, Marks

(* What launchd runs on stays, if it does not both fail and let publishers *)
(* die.                                                                    *)
LEMMA PublisherLoaded ==
  ASSUME RemovalsSucceed, OneOfTwoFaults, IInv, Loaded,
         NEW p \in Publishers, Begin(p) \/ Publish(p) \/ Die(p)
  PROVE  Loaded'
<1> USE DEF IInv, TypeOK, Loaded, At, GoTo, diskVars, ownVars, Whole, Working, SchedWhole,
            PriorWhole, SyncedWhen, Synced, Switching, SyncedBefore
<1>0. ASSUME p \in Inside PROVE \A q \in Publishers : q # p => pc[q] \in {"idle", "wait"}
  BY <1>0, OthersOutside
<1>00. /\ None \notin Generations /\ "public" \notin Generations /\ Agent \in Files
       /\ "outside" \notin Generations /\ "nowhere" \notin Generations
       /\ "legacy" \notin Generations /\ "empty" \notin Generations
  BY ControlAssumption DEF Marks
<1>1. CASE Begin(p)
  BY <1>1 DEF Begin, Resolve
<1>2. CASE Acquire(p)
  <2>0. \A q \in Publishers : q # p => pc[q] \in {"idle", "wait"}
    BY <1>2 DEF Acquire, Inside
  <2>1. /\ pc' = [pc EXCEPT ![p] = "prepare"] /\ pc[p] = "wait"
        /\ \A q \in Publishers : q # p => prior'[q] = prior[q]
        /\ prior'[p].source = IF sched.live THEN Resolve(sched.via) ELSE "public"
        /\ mode' = [mode EXCEPT ![p] = "publish"]
        /\ UNCHANGED <<kept, files, origin, current, link, sched, previous, faults>>
    BY <1>2 DEF Acquire
  <2>2. prior'[p].source \in Generations => Whole(prior'[p].source)
    BY <2>1, <1>00 DEF Resolve, Wholes, SelectedWhole
  <2>3. SchedWhole' /\ PriorWhole'
    BY <2>0, <2>1, <2>2
  <2>4. SyncedWhen'
    BY <2>0, <2>1 DEF Resolve
  <2>q. QED BY <2>3, <2>4
<1>3. CASE Prepare(p)
  <2>0. \A q \in Publishers : q # p => pc[q] \in {"idle", "wait"}
    BY <1>3, <1>0 DEF Prepare, Inside
  <2>1. CASE current = None /\ ~AllAbsent
    <3>1. /\ Fresh \in Generations /\ Fresh \notin kept
          /\ kept' = kept \cup {Fresh}
          /\ files' = [files EXCEPT ![Fresh] = Files]
          /\ origin' = [origin EXCEPT ![Fresh] = IF SomeFile THEN "legacy" ELSE "empty"]
          /\ pc' = [pc EXCEPT ![p] = "baseline"] /\ pc[p] = "prepare"
          /\ UNCHANGED <<current, link, sched, prior, previous, mode, faults>>
      BY <1>3, <2>1, FreshIsNew DEF Prepare, NewGeneration
    <3>2. ASSUME NEW g \in Generations, Whole(g)
          PROVE  Whole(g)' /\ origin'[g] = origin[g]
      BY <3>1, <3>2, <1>00
    <3>3. SchedWhole'
      BY <3>1, <3>2
    <3>4. PriorWhole'
      BY <2>0, <3>1, <3>2
    <3>5. SyncedWhen'
      BY <2>0, <3>1 DEF Resolve
    <3>q. QED BY <3>3, <3>4, <3>5
  <2>2. CASE current # None \/ AllAbsent
    <3>1. /\ pc' = [pc EXCEPT ![p] = "link"] /\ pc[p] = "prepare"
          /\ UNCHANGED <<kept, files, origin, current, link, sched, prior, mode, faults>>
      BY <1>3, <2>2 DEF Prepare
    <3>q. QED BY <2>0, <3>1 DEF Resolve
  <2>q. QED BY <2>1, <2>2
<1>4. CASE SelectBaseline(p)
  <2>0. \A q \in Publishers : q # p => pc[q] \in {"idle", "wait"}
    BY <1>4, <1>0 DEF SelectBaseline, Inside
  <2>1. /\ pc' = [pc EXCEPT ![p] = "link"] /\ pc[p] = "baseline" /\ current = None
        /\ UNCHANGED <<kept, files, origin, link, sched, prior, mode, faults>>
    BY <1>4 DEF SelectBaseline, Orderly, BaselineReady
  <2>2. SchedWhole' /\ PriorWhole'
    BY <2>0, <2>1
  <2>3. SyncedWhen'
    BY <2>0, <2>1, <1>00 DEF Resolve
  <2>q. QED BY <2>2, <2>3
<1>5. CASE \E f \in Files : LinkPublic(p, f)
  <2>0. \A q \in Publishers : q # p => pc[q] \in {"idle", "wait"}
    BY <1>5, <1>0 DEF LinkPublic, Inside
  <2>1. /\ pc[p] = "link" /\ \E where \in {"idle", "link"} : pc' = [pc EXCEPT ![p] = where]
        /\ link[Agent] = "link" => link'[Agent] = "link"
        /\ UNCHANGED <<kept, files, origin, current, sched, prior, previous, mode, faults>>
    BY <1>5, <1>00 DEF LinkPublic
  <2>2. SchedWhole' /\ PriorWhole'
    BY <2>0, <2>1
  <2>3. SyncedWhen'
    BY <2>0, <2>1, <1>00 DEF Resolve
  <2>q. QED BY <2>2, <2>3
<1>6. CASE MakeGeneration(p)
  <2>0. \A q \in Publishers : q # p => pc[q] \in {"idle", "wait"}
    BY <1>6, <1>0 DEF MakeGeneration, Inside
  <2>1. /\ Fresh \in Generations /\ Fresh \notin kept
        /\ kept' = kept \cup {Fresh}
        /\ files' = [files EXCEPT ![Fresh] = {}]
        /\ origin' = [origin EXCEPT ![Fresh] = "published"]
        /\ pc' = [pc EXCEPT ![p] = "fill"] /\ pc[p] = "link"
        /\ UNCHANGED <<current, link, sched, prior, previous, mode, faults>>
    BY <1>6, FreshIsNew DEF MakeGeneration, NewGeneration
  <2>2. SchedWhole' /\ PriorWhole'
    BY <2>0, <2>1
  <2>3. SyncedWhen'
    BY <2>0, <2>1 DEF Resolve
  <2>q. QED BY <2>2, <2>3
<1>7. CASE \E f \in Files : MoveFile(p, f)
  <2>1. PICK f \in Files : MoveFile(p, f)
    BY <1>7
  <2>2. /\ files' = [files EXCEPT ![gen[p]] = files[gen[p]] \cup {f}]
        /\ UNCHANGED <<kept, origin, current, link, sched, prior, previous, mode, pc, faults>>
    BY <2>1 DEF MoveFile
  <2>3. \A g \in Generations : files[g] = Files => files'[g] = Files
    BY <2>2
  <2>4. SchedWhole' /\ PriorWhole'
    BY <2>2, <2>3
  <2>5. SyncedWhen'
    BY <2>2 DEF Resolve
  <2>q. QED BY <2>4, <2>5
<1>8. CASE Select(p)
  <2>0. \A q \in Publishers : q # p => pc[q] \in {"idle", "wait"}
    BY <1>8, <1>0 DEF Select, Inside
  <2>1. /\ pc' = [pc EXCEPT ![p] = "unload"] /\ pc[p] = "fill"
        /\ mode[p] = "publish" /\ current = previous[p]
        /\ UNCHANGED <<kept, files, origin, link, sched, prior, previous, mode, faults>>
    BY <1>8 DEF Select, Orderly, ModesMatch
  <2>2. SchedWhole' /\ PriorWhole'
    BY <2>0, <2>1
  <2>3. ASSUME "death" \notin faults PROVE SyncedBefore(p)
    <3>1. Synced
      BY <2>0, <2>1, <2>3
    <3>q. QED BY <2>1, <3>1, <1>00 DEF Resolve
  <2>4. SyncedWhen'
    BY <2>0, <2>1, <2>3
  <2>q. QED BY <2>2, <2>4
<1>9. CASE Unload(p)
  <2>0. \A q \in Publishers : q # p => pc[q] \in {"idle", "wait"}
    BY <1>9, <1>0 DEF Unload, Inside
  <2>1. /\ pc[p] = "unload"
        /\ UNCHANGED <<kept, files, origin, current, link, prior, previous, mode, faults>>
    BY <1>9 DEF Unload
  <2>2. CASE UNCHANGED sched /\ "bootout" \in faults /\ LaunchctlFails(p)
    <3>1. "death" \notin faults
      BY <2>2 DEF OneOfTwoFaults
    <3>2. \/ mode[p] = "publish" /\ pc' = [pc EXCEPT ![p] = "rollback"]
          \/ mode[p] = "restore" /\ pc' = [pc EXCEPT ![p] = "prune"]
      BY <2>2 DEF LaunchctlFails
    <3>3. SchedWhole' /\ PriorWhole'
      BY <2>0, <2>1, <2>2, <3>2
    <3>4. /\ \A q \in Publishers : q # p => pc'[q] = pc[q]
          /\ Synced' = Synced /\ SyncedBefore(p)' = SyncedBefore(p)
      BY <2>1, <2>2, <3>2 DEF Resolve
    <3>5. ASSUME mode[p] = "publish" PROVE SyncedWhen'
      <4>1. pc'[p] = "rollback" /\ Switching(p) /\ Switching(p)'
        BY <2>1, <3>2, <3>5
      <4>2. SyncedBefore(p)'
        BY <3>1, <3>4, <4>1
      <4>q. QED BY <2>0, <2>1, <3>4, <4>1, <4>2
    <3>6. ASSUME mode[p] = "restore" PROVE SyncedWhen'
      <4>1. pc'[p] = "prune" /\ \A q \in Publishers : ~Switching(q) /\ ~Switching(q)'
        BY <2>0, <2>1, <3>2, <3>4, <3>6
      <4>2. Synced'
        BY <3>1, <3>4, <4>1
      <4>q. QED BY <2>0, <3>1, <3>4, <4>1, <4>2
    <3>q. QED BY <3>2, <3>3, <3>5, <3>6
  <2>3. CASE sched' = [sched EXCEPT !.live = FALSE] /\ pc' = [pc EXCEPT ![p] = "load"]
    BY <2>0, <2>1, <2>3
  <2>q. QED BY <1>9, <2>2, <2>3 DEF Unload
<1>10. CASE Load(p)
  <2>0. \A q \in Publishers : q # p => pc[q] \in {"idle", "wait"}
    BY <1>10, <1>0 DEF Load, Inside
  <2>1. /\ pc[p] = "load" /\ ~sched.live /\ AllLinked
        /\ \E where \in {"rollback", "prune"} : pc' = [pc EXCEPT ![p] = where]
        /\ UNCHANGED <<kept, files, origin, current, link, prior, previous, mode, faults>>
    BY <1>10 DEF Load, LaunchctlFails, Orderly, ModesMatch, LinkedFirst
  <2>2. CASE UNCHANGED sched
    BY <2>0, <2>1, <2>2
  <2>3. CASE ~UNCHANGED sched
    <3>1. /\ JobAt(Resolve(LoadPath(p))) # "empty" /\ pc' = [pc EXCEPT ![p] = "prune"]
          /\ sched' = [live |-> TRUE, via |-> LoadPath(p),
                       job |-> JobAt(Resolve(LoadPath(p)))]
      BY <1>10, <2>3 DEF Load
    <3>2. LoadPath(p) \in Sources /\ Resolve(LoadPath(p)) \in Sources
      <4>1. LoadPath(p) \in Sources
        BY DEF LoadPath, Sources
      <4>q. QED BY <4>1, ResolveType
    <3>3. LoadPath(p) \in Generations => Whole(LoadPath(p))
      BY <2>1, <1>00 DEF LoadPath
    <3>4. Resolve(LoadPath(p)) \in Generations => Whole(Resolve(LoadPath(p)))
      BY <3>3, <1>00 DEF Resolve, Wholes, SelectedWhole
    <3>5. sched'.job \in Generations =>
            sched'.job = Resolve(LoadPath(p)) /\ origin[sched'.job] = "published"
      BY <3>1, <3>2, JobIsSource
    <3>6. Resolve(sched.via)' = Resolve(LoadPath(p))
      BY <2>1, <3>1 DEF Resolve
    <3>7. SchedWhole' /\ PriorWhole'
      BY <2>0, <2>1, <3>1, <3>3, <3>4, <3>5
    <3>8. SyncedWhen'
      BY <2>0, <2>1, <3>1, <3>5, <3>6
    <3>q. QED BY <3>7, <3>8
  <2>q. QED BY <2>2, <2>3
<1>11. CASE \E g \in Generations : Prune(p, g)
  <2>1. PICK g \in Generations : Prune(p, g)
    BY <1>11
  <2>2. "prune" \notin faults
    BY DEF RemovalsSucceed
  <2>3. /\ pc[p] = "prune" /\ UNCHANGED pc
        /\ files' = [files EXCEPT ![g] = {}] /\ kept' = kept \ {g}
        /\ UNCHANGED <<origin, current, link, sched, prior, previous, mode, faults>>
    BY <2>1, <2>2 DEF Prune
  <2>4. sched.live => g # Resolve(sched.via)
    BY <2>1 DEF Prune, Prunable, Protected
  <2>5. \A q \in Publishers : q # p => pc[q] \in {"idle", "wait"}
    BY <2>3, <1>0 DEF Inside
  <2>6. SchedWhole'
    BY <2>3, <2>4, <1>00 DEF Resolve
  <2>7. PriorWhole'
    BY <2>3, <2>5
  <2>8. SyncedWhen'
    BY <2>3, <2>5 DEF Resolve
  <2>q. QED BY <2>6, <2>7, <2>8
<1>12. CASE PruneEnd(p)
  <2>0. \A q \in Publishers : q # p => pc[q] \in {"idle", "wait"}
    BY <1>12, <1>0 DEF PruneEnd, Inside
  <2>q. QED BY <1>12, <2>0 DEF PruneEnd, Resolve
<1>13. CASE Rollback(p)
  <2>0. \A q \in Publishers : q # p => pc[q] \in {"idle", "wait"}
    BY <1>13, <1>0 DEF Rollback, Inside
  <2>1. /\ pc' = [pc EXCEPT ![p] = "unload"] /\ pc[p] = "rollback"
        /\ mode[p] = "publish" /\ mode' = [mode EXCEPT ![p] = "restore"]
        /\ current' = previous[p] /\ AllLinked
        /\ UNCHANGED <<kept, files, origin, link, sched, prior, previous, faults>>
    BY <1>13 DEF Rollback, Orderly, ModesMatch, LinkedFirst
  <2>2. SchedWhole' /\ PriorWhole'
    BY <2>0, <2>1
  <2>3. link[Agent] = "link"
    BY <2>1, <1>00 DEF AllLinked
  <2>4. SyncedWhen'
    BY <2>0, <2>1, <2>3, <1>00 DEF Resolve
  <2>q. QED BY <2>2, <2>4
<1>14. CASE End(p)
  <2>0. \A q \in Publishers : q # p => pc[q] \in {"idle", "wait"}
    BY <1>14, <1>0 DEF End, Inside
  <2>q. QED BY <1>14, <2>0 DEF End, Resolve
<1>15. CASE Die(p)
  <2>1. "death" \in faults /\ pc' = [pc EXCEPT ![p] = "idle"]
    BY <1>15 DEF Die
  <2>q. QED BY <1>15, <2>1 DEF Die, Resolve
<1>q. QED
  BY <1>1, <1>2, <1>3, <1>4, <1>5, <1>6, <1>7, <1>8, <1>9, <1>10, <1>11, <1>12,
     <1>13, <1>14, <1>15
  DEF Publish

-----------------------------------------------------------------------------
(* Type correctness and mutual exclusion of publishers, whatever fails.    *)
THEOREM TypeCorrect == Spec => []TypeOK
<1>1. Init => TypeOK
  BY InitInvariant DEF IInv
<1>2. TypeOK /\ [Next]_vars => TypeOK'
  <2>1. CASE UNCHANGED vars
    BY <2>1 DEF TypeOK, Inside, vars, diskVars, ownVars
  <2>q. QED BY <2>1, PublisherTypeOK DEF Next
<1>q. QED BY <1>1, <1>2, PTL DEF Spec

LEMMA StepInvariant == RemovalsSucceed /\ IInv /\ [Next]_vars => IInv'
<1> SUFFICES ASSUME RemovalsSucceed, IInv, [Next]_vars PROVE IInv'
  OBVIOUS
<1>1. CASE UNCHANGED vars
  BY <1>1
  DEF IInv, TypeOK, Inside, vars, diskVars, ownVars, Orderly, NamesMade, ModesMatch,
      BaselineReady, GenerationApart, LinkedFirst, LinkShape, SomeFile, AllLinked,
      Wholes, Whole, SelectedWhole, PreviousWhole, FilesKept
<1>2. CASE \E p \in Publishers : Begin(p) \/ Publish(p) \/ Die(p)
  <2>1. TypeOK'
    BY <1>2, PublisherTypeOK DEF IInv
  <2>2. Orderly'
    BY <1>2, PublisherOrderly DEF IInv
  <2>3. Wholes'
    BY <1>2, PublisherWhole
  <2>q. QED BY <2>1, <2>2, <2>3 DEF IInv
<1>q. QED BY <1>1, <1>2 DEF Next

(* The inductive invariant, when removals succeed.                         *)
THEOREM InvariantHolds ==
  ASSUME RemovalsSucceed
  PROVE  Spec => []IInv
<1>1. IInv /\ [Next]_vars => IInv'
  BY StepInvariant
<1>q. QED BY <1>1, InitInvariant, PTL DEF Spec

(* What control/current names is always a complete generation, through any *)
(* death, failed reload and rollback, as long as removals succeed.         *)
THEOREM SelectedWholeHolds ==
  ASSUME RemovalsSucceed
  PROVE  Spec => []SelectedWhole
<1>1. IInv => SelectedWhole
  BY DEF IInv, Wholes
<1>q. QED BY <1>1, InvariantHolds, PTL

(* No reader of the public paths finds content of two generations, or a    *)
(* part of one.                                                            *)
THEOREM OneGenerationHolds ==
  ASSUME RemovalsSucceed
  PROVE  Spec => []OneGeneration
<1>1. IInv => OneGeneration
  <2> SUFFICES ASSUME IInv PROVE OneGeneration
    OBVIOUS
  <2> USE DEF IInv, TypeOK, Orderly, LinkShape, SomeFile, Wholes, SelectedWhole, Value
  <2>1. CASE \E f \in Files : link[f] = "absent"
    BY <2>1 DEF OneGeneration, Blank
  <2>2. CASE \A f \in Files : link[f] # "absent"
    BY <2>2 DEF OneGeneration, NeverMixed
  <2>q. QED BY <2>1, <2>2
<1>q. QED BY <1>1, InvariantHolds, PTL

(* A publication that failed leaves the selection it found and, unless the  *)
(* restoration failed as well, the schedule it found: whatever fails and   *)
(* whoever dies.                                                           *)
THEOREM FailureRestoresHolds == Spec => []FailureRestores
<1>1. Init => RestoreInv
  BY InitInvariant DEF IInv, RestoreInv
<1>2. RestoreInv /\ [Next]_vars => RestoreInv'
  <2> SUFFICES ASSUME RestoreInv, [Next]_vars PROVE RestoreInv'
    OBVIOUS
  <2>1. CASE UNCHANGED vars
    BY <2>1
    DEF RestoreInv, TypeOK, Inside, vars, diskVars, ownVars, Orderly, NamesMade, ModesMatch,
        BaselineReady, GenerationApart, LinkedFirst, LinkShape, SomeFile, AllLinked,
        PriorFound, LegacyKept, Restoring, Restored, MayRestore
  <2>2. CASE \E p \in Publishers : Begin(p) \/ Publish(p) \/ Die(p)
    <3>1. TypeOK' /\ Orderly'
      BY <2>2, PublisherTypeOK, PublisherOrderly DEF RestoreInv
    <3>2. PriorFound'
      BY <2>2, PublisherPrior DEF RestoreInv
    <3>3. Restoring'
      BY <2>2, PublisherRestoring
    <3>q. QED BY <3>1, <3>2, <3>3 DEF RestoreInv
  <2>q. QED BY <2>1, <2>2 DEF Next
<1>3. RestoreInv => FailureRestores
  BY DEF RestoreInv, Restoring, Restored, FailureRestores, At
<1>q. QED BY <1>1, <1>2, <1>3, PTL DEF Spec

(* The generation a loaded schedule runs on is never removed nor left      *)
(* incomplete, when removals succeed and no behaviour has both deaths and  *)
(* failing bootouts.                                                       *)
THEOREM ScheduledKeptHolds ==
  ASSUME RemovalsSucceed, OneOfTwoFaults
  PROVE  Spec => []ScheduledKept
<1>1. Init => IInv /\ Loaded
  BY InitInvariant
<1>2. IInv /\ Loaded /\ [Next]_vars => (IInv /\ Loaded)'
  <2> SUFFICES ASSUME IInv, Loaded, [Next]_vars PROVE (IInv /\ Loaded)'
    OBVIOUS
  <2>1. IInv'
    BY StepInvariant
  <2>2. CASE UNCHANGED vars
    BY <2>1, <2>2
    DEF vars, diskVars, ownVars, Loaded, SchedWhole, PriorWhole, Whole, SyncedWhen, Synced,
        Switching, SyncedBefore, Resolve
  <2>3. CASE \E p \in Publishers : Begin(p) \/ Publish(p) \/ Die(p)
    BY <2>1, <2>3, PublisherLoaded
  <2>q. QED BY <2>2, <2>3 DEF Next
<1>3. IInv /\ Loaded => ScheduledKept
  BY ControlAssumption DEF Loaded, SchedWhole, Whole, ScheduledKept
<1>q. QED BY <1>1, <1>2, <1>3, PTL DEF Spec
=============================================================================

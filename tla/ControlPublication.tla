------------------------- MODULE ControlPublication -------------------------
(***************************************************************************)
(* The publication of a control generation (watch/generate_artifacts.py):  *)
(* the machine profile, the declaration manifest and the LaunchAgent of a  *)
(* deployment repository.  Three public paths are symlinks through         *)
(* control/current into one directory below control/generations, so one    *)
(* rename switches all three.  The transaction runs under the flock of     *)
(* control/.publish.lock: it links the public paths, fills a new           *)
(* generation, selects it, reloads the schedule in launchd and removes the *)
(* generations nobody uses; a failure selects the previous generation      *)
(* again and restores the schedule.  launchd is external.                  *)
(***************************************************************************)
EXTENDS Naturals, FiniteSets

CONSTANTS
  Publishers,       \* processes that may publish side by side
  Generations,      \* names of generation directories
  None,             \* no generation
  Files,            \* the public control files
  Agent,            \* the LaunchAgent among them
  FaultCases,       \* sets of faults, one of which a behaviour may meet
  MaxPublications   \* bound: publications begun in a behaviour

Faults == {"death", "bootout", "prune"}
Marks == {"public", "outside", "nowhere", "legacy", "empty", "absent"}

ASSUME ControlAssumption ==
  /\ Agent \in Files
  /\ None \notin Generations
  /\ (Generations \cup {None}) \cap Marks = {}
  /\ FaultCases \subseteq SUBSET Faults
  /\ MaxPublications \in Nat
  /\ \A S \in SUBSET Generations :
       Cardinality(S) < 2 * MaxPublications => Generations \ S # {}

VARIABLES
  kept,      \* generation directories that exist
  files,     \* the files each generation holds
  origin,    \* what they are: published, or the baseline of earlier files
  made,      \* generations made so far
  current,   \* the generation control/current names
  link,      \* each public path: absent, an earlier regular file, or a link
  sched,     \* the schedule launchd has loaded, and from which path
  pc,        \* where a publisher is
  enabled,   \* the schedule its declarations ask for
  gen,       \* the generation it makes
  previous,  \* the generation it found selected
  prior,     \* the schedule it found
  mode,      \* is it publishing or restoring
  unrestored,\* did the restoration of the schedule fail
  begun,     \* publications begun
  faults     \* the faults of this behaviour

diskVars == <<kept, files, origin, made, current, link>>
ownVars == <<enabled, gen, previous, prior, mode, unrestored>>
vars == <<diskVars, sched, pc, ownVars, begun, faults>>

NoPrior == [live |-> FALSE, source |-> "public", job |-> "legacy", true |-> TRUE]

(* The live machine root, whose publications reconcile launchd.            *)
(* A machine before its first generation has no control files, or regular   *)
(* ones; an earlier schedule may be loaded from the public path or from    *)
(* elsewhere.                                                              *)
Init ==
  /\ kept = {}
  /\ files = [g \in Generations |-> {}]
  /\ origin = [g \in Generations |-> "published"]
  /\ made = {}
  /\ current = None
  /\ \E found \in {"absent", "file"} : link = [f \in Files |-> found]
  /\ \E live \in BOOLEAN, via \in {"public", "outside"} :
       /\ sched = [live |-> live, via |-> via, job |-> "legacy"]
       /\ via = "public" /\ live => link[Agent] = "file"
       /\ via = "outside" => live
  /\ pc = [p \in Publishers |-> "idle"]
  /\ enabled = [p \in Publishers |-> FALSE]
  /\ gen = [p \in Publishers |-> None]
  /\ previous = [p \in Publishers |-> None]
  /\ prior = [p \in Publishers |-> NoPrior]
  /\ mode = [p \in Publishers |-> "publish"]
  /\ unrestored = [p \in Publishers |-> FALSE]
  /\ begun = 0
  /\ faults \in FaultCases

-----------------------------------------------------------------------------
At(p, where) == pc[p] = where
GoTo(p, where) == pc' = [pc EXCEPT ![p] = where]
Inside == {p \in Publishers : pc[p] \notin {"idle", "wait"}}
SomeFile == \E f \in Files : link[f] = "file"
AllAbsent == \A f \in Files : link[f] = "absent"
AllLinked == \A f \in Files : link[f] = "link"

(* The file a path to a LaunchAgent resolves to.                           *)
Resolve(path) ==
  IF path # "public" \/ link[Agent] # "link" THEN path
  ELSE IF current = None THEN "nowhere" ELSE current

(* The job a readable LaunchAgent there describes; "empty" if there is none. *)
JobAt(source) ==
  CASE source = "outside" -> "legacy"
    [] source = "public"  -> IF link[Agent] = "file" THEN "legacy" ELSE "empty"
    [] source = "nowhere" -> "empty"
    [] OTHER -> IF Agent \notin files[source] THEN "empty"
                ELSE IF origin[source] = "published" THEN source ELSE origin[source]

(* What a reader of a public path finds.                                   *)
Value(f) ==
  CASE link[f] = "absent" -> "absent"
    [] link[f] = "file"   -> "legacy"
    [] link[f] = "link"   ->
         IF current = None THEN "absent"
         ELSE IF f \notin files[current] THEN "absent"
         ELSE IF origin[current] = "published" THEN current ELSE origin[current]

(* A new directory; the names are a bound of the model.                    *)
NameLeft == Generations \ made # {}
Fresh == CHOOSE g \in Generations \ made : TRUE

NewGeneration(g, contents, kind) ==
  /\ NameLeft
  /\ kept' = kept \cup {g}
  /\ made' = made \cup {g}
  /\ files' = [files EXCEPT ![g] = contents]
  /\ origin' = [origin EXCEPT ![g] = kind]

-----------------------------------------------------------------------------
Begin(p) ==
  /\ At(p, "idle") /\ begun < MaxPublications
  /\ begun' = begun + 1
  /\ \E wanted \in BOOLEAN : enabled' = [enabled EXCEPT ![p] = wanted]
  /\ GoTo(p, "wait")
  /\ UNCHANGED <<diskVars, sched, gen, previous, prior, mode, unrestored, faults>>

(* Mutant: the transaction does not wait for the lock.                     *)
AcquireUnlocked(p) ==
  /\ At(p, "wait")
  /\ prior' = [prior EXCEPT ![p] =
       [live |-> sched.live,
        source |-> IF sched.live THEN Resolve(sched.via) ELSE "public",
        job |-> sched.job,
        true |-> sched.live => JobAt(Resolve(sched.via)) = sched.job]]
  /\ mode' = [mode EXCEPT ![p] = "publish"]
  /\ unrestored' = [unrestored EXCEPT ![p] = FALSE]
  /\ GoTo(p, "prepare")
  /\ UNCHANGED <<diskVars, sched, enabled, gen, previous, begun, faults>>

(* flock(lock, LOCK_EX), then the state of the schedule.  `true' remembers *)
(* whether launchd runs what the file at its source says.                  *)
Acquire(p) ==
  /\ At(p, "wait") /\ Inside = {}
  /\ prior' = [prior EXCEPT ![p] =
       [live |-> sched.live,
        source |-> IF sched.live THEN Resolve(sched.via) ELSE "public",
        job |-> sched.job,
        true |-> sched.live => JobAt(Resolve(sched.via)) = sched.job]]
  /\ mode' = [mode EXCEPT ![p] = "publish"]
  /\ unrestored' = [unrestored EXCEPT ![p] = FALSE]
  /\ GoTo(p, "prepare")
  /\ UNCHANGED <<diskVars, sched, enabled, gen, previous, begun, faults>>

(* Without a selected generation the files found at the public paths become *)
(* a baseline generation; a missing one becomes an empty file.             *)
Prepare(p) ==
  /\ At(p, "prepare")
  /\ \/ /\ current = None /\ ~AllAbsent
        /\ NewGeneration(Fresh, Files, IF SomeFile THEN "legacy" ELSE "empty")
        /\ gen' = [gen EXCEPT ![p] = Fresh]
        /\ GoTo(p, "baseline")
        /\ UNCHANGED previous
     \/ /\ current # None \/ AllAbsent
        /\ previous' = [previous EXCEPT ![p] = current]
        /\ GoTo(p, "link")
        /\ UNCHANGED <<kept, made, files, origin, gen>>
  /\ UNCHANGED <<current, link, sched, enabled, prior, mode, unrestored, begun, faults>>

SelectBaseline(p) ==
  /\ At(p, "baseline")
  /\ current' = gen[p]
  /\ previous' = [previous EXCEPT ![p] = gen[p]]
  /\ GoTo(p, "link")
  /\ UNCHANGED <<kept, files, origin, made, link, sched, enabled, gen, prior,
                 mode, unrestored, begun, faults>>

(* _relative_symlink: one public path at a time, by rename.  A regular file *)
(* that is not what the selected generation holds ends the publication.    *)
LinkPublic(p, f) ==
  /\ At(p, "link") /\ link[f] # "link"
  /\ IF link[f] = "file" /\ previous[p] # None /\ origin[previous[p]] # "legacy"
       THEN GoTo(p, "idle") /\ UNCHANGED link
       ELSE GoTo(p, "link") /\ link' = [link EXCEPT ![f] = "link"]
  /\ UNCHANGED <<kept, files, origin, made, current, sched, ownVars, begun, faults>>

MakeGeneration(p) ==
  /\ At(p, "link") /\ AllLinked
  /\ NewGeneration(Fresh, {}, "published")
  /\ gen' = [gen EXCEPT ![p] = Fresh]
  /\ GoTo(p, "fill")
  /\ UNCHANGED <<current, link, sched, enabled, previous, prior, mode, unrestored,
                 begun, faults>>

MoveFile(p, f) ==
  /\ At(p, "fill") /\ f \in Files \ files[gen[p]]
  /\ files' = [files EXCEPT ![gen[p]] = @ \cup {f}]
  /\ GoTo(p, "fill")
  /\ UNCHANGED <<kept, origin, made, current, link, sched, ownVars, begun, faults>>

(* Mutant: a generation is selected while it is being filled.              *)
SelectUnfilled(p) ==
  /\ At(p, "fill") /\ files[gen[p]] # {}
  /\ current' = gen[p]
  /\ GoTo(p, IF files[gen[p]] = Files THEN "unload" ELSE "fill")
  /\ UNCHANGED <<kept, files, origin, made, link, sched, ownVars, begun, faults>>

Select(p) ==
  /\ At(p, "fill") /\ files[gen[p]] = Files
  /\ current' = gen[p]
  /\ GoTo(p, "unload")
  /\ UNCHANGED <<kept, files, origin, made, link, sched, ownVars, begun, faults>>

-----------------------------------------------------------------------------
(* _launchctl, for the publication and for the restoration.                *)
Wanted(p) == IF mode[p] = "publish" THEN enabled[p] ELSE prior[p].live
LoadPath(p) == IF mode[p] = "publish" THEN "public" ELSE prior[p].source

(* Mutant: a restoration that fails starts over.                           *)
LaunchctlFailsAgain(p) == GoTo(p, "rollback") /\ UNCHANGED unrestored

(* A launchctl that fails ends the publication and starts the rollback; in *)
(* the restoration it is remembered.                                       *)
LaunchctlFails(p) ==
  IF mode[p] = "publish"
    THEN GoTo(p, "rollback") /\ UNCHANGED unrestored
    ELSE GoTo(p, "prune") /\ unrestored' = [unrestored EXCEPT ![p] = TRUE]

(* Mutant: the old generations go before the schedule is reloaded.         *)
UnloadAfterPrune(p) ==
  /\ At(p, "unload")
  /\ kept' = kept \cap {current}
  /\ files' = [g \in Generations |-> IF g = current THEN files[g] ELSE {}]
  /\ \/ /\ sched.live /\ "bootout" \in faults
        /\ LaunchctlFails(p) /\ UNCHANGED sched
     \/ /\ sched' = [sched EXCEPT !.live = FALSE]
        /\ GoTo(p, "load") /\ UNCHANGED unrestored
  /\ UNCHANGED <<origin, made, current, link, enabled, gen, previous, prior, mode,
                 begun, faults>>

Unload(p) ==
  /\ At(p, "unload")
  /\ \/ /\ sched.live /\ "bootout" \in faults
        /\ LaunchctlFails(p) /\ UNCHANGED sched
     \/ /\ sched' = [sched EXCEPT !.live = FALSE]
        /\ GoTo(p, "load") /\ UNCHANGED unrestored
  /\ UNCHANGED <<diskVars, enabled, gen, previous, prior, mode, begun, faults>>

(* enable and bootstrap, or disable; each may fail.                        *)
Load(p) ==
  /\ At(p, "load")
  /\ \/ LaunchctlFails(p) /\ UNCHANGED sched
     \/ /\ ~Wanted(p)
        /\ GoTo(p, "prune") /\ UNCHANGED <<sched, unrestored>>
     \/ /\ Wanted(p) /\ JobAt(Resolve(LoadPath(p))) # "empty"
        /\ sched' = [live |-> TRUE, via |-> LoadPath(p),
                     job |-> JobAt(Resolve(LoadPath(p)))]
        /\ GoTo(p, "prune") /\ UNCHANGED unrestored
  /\ UNCHANGED <<diskVars, enabled, gen, previous, prior, mode, begun, faults>>

(* Mutant: only what the schedule uses is kept.                            *)
ProtectedByScheduleOnly ==
  IF sched.live THEN {Resolve(sched.via), JobAt(Resolve(sched.via))} ELSE {}

(* The selected generation is kept, and those the live schedule's file is   *)
(* in and names; if that file cannot be read nothing is removed.           *)
Protected ==
  {current} \cup
  (IF sched.live THEN {Resolve(sched.via), JobAt(Resolve(sched.via))} ELSE {})
Prunable ==
  IF sched.live /\ JobAt(Resolve(sched.via)) = "empty" THEN {} ELSE kept \ Protected

(* rmtree of one generation; it may fail half way.                         *)
Prune(p, g) ==
  /\ At(p, "prune") /\ g \in Prunable
  /\ \/ /\ "prune" \in faults
        /\ \E rest \in SUBSET files[g] : files' = [files EXCEPT ![g] = rest]
        /\ GoTo(p, IF mode[p] = "publish" THEN "rollback" ELSE "ended")
        /\ UNCHANGED kept
     \/ /\ files' = [files EXCEPT ![g] = {}]
        /\ kept' = kept \ {g}
        /\ GoTo(p, "prune")
  /\ UNCHANGED <<origin, made, current, link, sched, ownVars, begun, faults>>

PruneEnd(p) ==
  /\ At(p, "prune") /\ Prunable = {}
  /\ GoTo(p, "ended")
  /\ UNCHANGED <<diskVars, sched, ownVars, begun, faults>>

(* Mutant: the schedule is restored, the selection is not.                 *)
RollbackScheduleOnly(p) ==
  /\ At(p, "rollback")
  /\ mode' = [mode EXCEPT ![p] = "restore"]
  /\ GoTo(p, "unload")
  /\ UNCHANGED <<diskVars, sched, enabled, gen, previous, prior, unrestored,
                 begun, faults>>

Rollback(p) ==
  /\ At(p, "rollback")
  /\ current' = previous[p]
  /\ mode' = [mode EXCEPT ![p] = "restore"]
  /\ GoTo(p, "unload")
  /\ UNCHANGED <<kept, files, origin, made, link, sched, enabled, gen, previous,
                 prior, unrestored, begun, faults>>

(* The lock is released.                                                   *)
End(p) ==
  /\ At(p, "ended")
  /\ GoTo(p, "idle")
  /\ UNCHANGED <<diskVars, sched, ownVars, begun, faults>>

(* The publisher is killed; an error before the selection ends it alike.   *)
Die(p) ==
  /\ "death" \in faults /\ p \in Inside
  /\ GoTo(p, "idle")
  /\ UNCHANGED <<diskVars, sched, ownVars, begun, faults>>

Publish(p) ==
  \/ Acquire(p) \/ Prepare(p) \/ SelectBaseline(p) \/ MakeGeneration(p) \/ Select(p)
  \/ (\E f \in Files : LinkPublic(p, f) \/ MoveFile(p, f))
  \/ Unload(p) \/ Load(p) \/ (\E g \in Generations : Prune(p, g)) \/ PruneEnd(p)
  \/ Rollback(p) \/ End(p)

Next == \E p \in Publishers : Begin(p) \/ Publish(p) \/ Die(p)

Spec == Init /\ [][Next]_vars
(* Publishers are scheduled; a released flock wakes a waiter.              *)
FairSpec == Spec /\ \A p \in Publishers : WF_vars(Publish(p))

-----------------------------------------------------------------------------
Sources == Generations \cup {"public", "outside", "nowhere"}
Jobs == Generations \cup {"legacy"}
(* Every variable stays in its domain, and only one publisher is inside.   *)
TypeOK ==
  /\ kept \subseteq made /\ made \subseteq Generations
  /\ files \in [Generations -> SUBSET Files]
  /\ origin \in [Generations -> {"published", "legacy", "empty"}]
  /\ current \in Generations \cup {None}
  /\ link \in [Files -> {"absent", "file", "link"}]
  /\ sched \in [live : BOOLEAN, via : Sources, job : Jobs]
  /\ pc \in [Publishers -> {"idle", "wait", "prepare", "baseline", "link", "fill",
                            "unload", "load", "prune", "rollback", "ended"}]
  /\ enabled \in [Publishers -> BOOLEAN]
  /\ gen \in [Publishers -> Generations \cup {None}]
  /\ previous \in [Publishers -> Generations \cup {None}]
  /\ prior \in [Publishers -> [live : BOOLEAN, source : Sources, job : Jobs,
                               true : BOOLEAN]]
  /\ mode \in [Publishers -> {"publish", "restore"}]
  /\ unrestored \in [Publishers -> BOOLEAN]
  /\ begun \in 0..MaxPublications
  /\ faults \in FaultCases
  /\ \A p, q \in Inside : p = q

(* tests/watch/test_generate_artifacts_publication.py: "abrupt death never *)
(* exposes mixed control generation".  Whoever reads the public paths      *)
(* between any two steps finds the same in all of them.                    *)
NeverMixed == \A e, f \in Files : Value(e) = Value(f)

(* The same, but for the empty files of a baseline, which say as little as *)
(* absent ones: content comes from one generation, and then all of it.     *)
Blank == {"absent", "empty"}
OneGeneration ==
  (\A f \in Files : Value(f) \in Blank) \/ NeverMixed

(* README.md: the generator "atomically publishes the control generation". *)
(* What control/current names is a complete generation.                    *)
SelectedWhole == current # None => current \in kept /\ files[current] = Files

(* "generation retention protects selected and running generations": the   *)
(* files a loaded schedule runs on are there.                              *)
ScheduledKept ==
  sched.live /\ sched.job \in Generations => files[sched.job] = Files

(* "reconciliation failure restores exact legacy schedule or surfaces both *)
(* failures": a publication that failed, and whose restoration did not,    *)
(* leaves the selection and the schedule it found.                         *)
FailureRestores ==
  \A p \in Publishers :
    At(p, "ended") /\ mode[p] = "restore" =>
      /\ current = previous[p]
      /\ ~unrestored[p] /\ prior[p].true =>
           /\ sched.live = prior[p].live
           /\ sched.live => sched.job = prior[p].job

(* Every publication ends and releases the lock, whatever fails in it.     *)
PublicationsEnd == \A p \in Publishers : ~At(p, "idle") ~> At(p, "idle")
=============================================================================

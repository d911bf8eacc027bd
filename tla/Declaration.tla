---------------------------- MODULE Declaration ----------------------------
(***************************************************************************)
(* The generation of a machine's control files from the declarations of a  *)
(* deployment repository (watch/generate_artifacts.py, generate): they are *)
(* parsed, hashed into the manifest, validated without the file system     *)
(* (schema/validator.py), hydrated as they were parsed                     *)
(* (watch/source_hydration.py), validated again with what hydration made,  *)
(* and published.  Every step but the hydration reads the files anew, and  *)
(* somebody may edit them meanwhile.                                       *)
(***************************************************************************)
EXTENDS FiniteSets, SequencesExt, Nothing

CONSTANTS
  Inputs,    \* what the repository may hold: sequences of declarations
  Lock,      \* the entries of fkst.lock: a sequence of [id, role, git, pin], None where none is pinned
  Holds,     \* the package and entry point names in the checkouts of each source
  Derives,   \* the engine revisions files of checkouts may name: a set of [git, ref, path, rev]
  Published, \* provider_surface.py: the kind of each published entry point
  Bot,       \* --bot-login
  MaxGenerations, MaxEdits, MaxFailures \* bounds: generations, edits, failures of git

Roles == {"target", "platform", "engine"}
Fields == {"credential", "engine", "durable", "control"} \* each names the kind it needs
DeclaredFiles == UNION {Range(i) : i \in Inputs}
DeclaredDeployments == UNION {Range(f.deployments) : f \in DeclaredFiles}
Roots == UNION {Range(d.roots) \cup {x.root : x \in Range(d.extra)} : d \in DeclaredDeployments}
Mechanism == "mechanism"
(* A login: its name in lower case, how its case is, and its suffix.       *)
Logins == [name : STRING, case : STRING, suffix : STRING]

ASSUME DeclarationAssumption ==
  /\ \A i \in Inputs : i \in Seq(Range(i)) /\ Len(i) > 0
  /\ \A f \in DeclaredFiles : f.deployments \in Seq(Range(f.deployments))
  /\ \A d \in DeclaredDeployments :
       /\ DOMAIN d.roots = Roles /\ DOMAIN d.sources = Roles
       /\ d.extra \in Seq(Range(d.extra)) /\ d.packages \in Seq(Range(d.packages))
       /\ \A x \in Range(d.extra) : x.packages \in Seq(Range(x.packages))
       /\ d.roster \in Seq(Logins)
  /\ Bot \in Logins
  /\ \A e \in Range(Lock) : None \notin {e.git, e.id}
  /\ Mechanism \notin Roots
  /\ MaxGenerations \in Nat /\ MaxEdits \in Nat /\ MaxFailures \in Nat

VARIABLES
  files,     \* the declarations as they are in the repository
  parsed,    \* as generate parsed them
  manifest,  \* as it hashed them
  progress, index, \* where generate is, and at which declaration
  wanted,    \* roots it has left to hydrate
  builds,    \* engines it has left to build
  locked,    \* the checkout whose lock it holds
  root,      \* the checkout at each root: its source, and its branch or detached revision
  touched,   \* has this generation changed a root
  published, \* the manifest that is published
  edits, generations, failures

hydration == <<wanted, builds, locked>>
generateVars ==
  <<files, parsed, manifest, progress, index, hydration, root, touched, published, edits, generations, failures>>

-----------------------------------------------------------------------------
(* Logins.  The board compares them as they are, without a trailing [bot]; *)
(* authorization ignores case and suffix.                                  *)
DomainB(l) == [l EXCEPT !.suffix = IF @ = "[bot]" THEN "" ELSE @]
DomainA(l) == l.name

Distinct(s) == \A i, j \in DOMAIN s : s[i] = s[j] => i = j
DistinctBy(s, Key(_)) == \A i, j \in DOMAIN s : Key(s[i]) = Key(s[j]) => i = j
Entry(l) == CHOOSE e \in Range(Lock) : e.id = l
Locked(l) == \E e \in Range(Lock) : e.id = l
Operated(l) == Locked(l) /\ Entry(l).role = "deployment-operated"

LockAccepted ==
  /\ DistinctBy(Lock, LAMBDA e : e.id)
  /\ \A e \in Range(Lock) : e.role \in {"deployment-operated", "mechanism"}
       /\ (e.role = "mechanism" => e.pin # None)

ProvidersAccepted(f) ==
  /\ DistinctBy(f.providers, LAMBDA p : p.id)
  /\ \A p \in Range(f.providers) : p.kind \in Fields /\ Locked(p.lock)

RosterAccepted(d) == d.roster # << >> /\ DistinctBy(d.roster, DomainA) /\ DistinctBy(d.roster, DomainB)
AuthorsAccepted(d) == DistinctBy(d.authors, DomainA) /\ Distinct(d.authors)
(* The login of this machine is one of the roster, and no other of it.     *)
ActorAccepted(d) ==
  /\ \E l \in Range(d.roster) : DomainB(l) = DomainB(Bot)
  /\ \A l \in Range(d.roster) : DomainB(l) = DomainB(Bot) \/ DomainA(l) # DomainA(Bot)

SourcesAccepted(d) == \A r \in Roles : Operated(d.sources[r])
PackageSourcesAccepted(d) ==
  /\ \A x \in Range(d.extra) :
       Operated(x.lock) /\ x.lock \notin Range(d.sources) /\ x.packages # << >> /\ Distinct(x.packages)
  /\ DistinctBy(d.extra, LAMBDA x : x.lock)
(* The package at each place of the composed list: the platform's places,  *)
(* and those of each package source.                                       *)
Composed(d) ==
  [place \in ({0} \X DOMAIN d.packages) \cup UNION {{i} \X DOMAIN d.extra[i].packages : i \in DOMAIN d.extra} |->
     IF place[1] = 0 THEN d.packages[place[2]] ELSE d.extra[place[1]].packages[place[2]]]
PackagesAcceptedApart(d) == Len(d.packages) > 0 /\ Distinct(d.packages) \* a faulty variant
PackagesAccepted(d) == Len(d.packages) > 0 /\ Distinct(Composed(d)) /\ "host" \notin Range(Composed(d))

Provider(f, id) == CHOOSE p \in Range(f.providers) : p.id = id
BindingsAccepted(f, d) ==
  /\ \A a, b \in Fields : d.bindings[a] = d.bindings[b] => a = b
  /\ \A a \in Fields : \E p \in Range(f.providers) : p.id = d.bindings[a] /\ p.kind = a

(* The machine profile has the roots the parsed declarations name.         *)
RootsNamed(d) == Range(d.roots) \cup {x.root : x \in Range(d.extra)}
Profile(s) == UNION {RootsNamed(d) : d \in UNION {Range(f.deployments) : f \in Range(s)}}

(* validate_and_resolve without the file system.                           *)
ValuesAccepted(f, profile) ==
  /\ LockAccepted /\ ProvidersAccepted(f)
  /\ Len(f.deployments) > 0
  /\ DistinctBy(f.deployments, LAMBDA d : d.id) /\ DistinctBy(f.deployments, LAMBDA d : d.target)
  /\ \A d \in Range(f.deployments) :
       /\ RosterAccepted(d) /\ AuthorsAccepted(d) /\ SourcesAccepted(d)
       /\ PackageSourcesAccepted(d) /\ PackagesAccepted(d)
       /\ BindingsAccepted(f, d) /\ ActorAccepted(d) /\ RootsNamed(d) \subseteq profile

-----------------------------------------------------------------------------
(* _validate_resolved_paths, on the roots as they are.                     *)
Contents(at, r) == IF r = Mechanism THEN DOMAIN Published
                   ELSE IF at[r] = None THEN {} ELSE Holds[at[r].git]
SeparateRoots(d) ==
  /\ d.roots["engine"] \notin {d.roots["target"], d.roots["platform"]}
  /\ \A x \in Range(d.extra) : x.root \notin Range(d.roots)
  /\ DistinctBy(d.extra, LAMBDA x : x.root)
PackagesPresent(d, at) ==
  /\ \A r \in Roles : at[d.roots[r]] # None
  /\ Range(d.packages) \subseteq Contents(at, d.roots["platform"])
  /\ \A x \in Range(d.extra) : at[x.root] # None /\ Range(x.packages) \subseteq Contents(at, x.root)
(* Where the entry point of a provider is looked for.                      *)
RootsOf(d, l) ==
  IF Entry(l).role = "mechanism" THEN {Mechanism} ELSE {d.roots[r] : r \in {r \in Roles : d.sources[r] = l}}
ExecutablesFound(f, d, at) ==
  \A a \in Fields : LET p == Provider(f, d.bindings[a]) IN
    /\ Cardinality(RootsOf(d, p.lock)) = 1
    /\ \A r \in RootsOf(d, p.lock) : p.entry \in Contents(at, r)
         /\ (r = Mechanism => Published[p.entry] = p.kind)

PathsAccepted(f, at) ==
  \A d \in Range(f.deployments) : SeparateRoots(d) /\ PackagesPresent(d, at) /\ ExecutablesFound(f, d, at)

-----------------------------------------------------------------------------
(* What a declaration wants at a root.  A source without a pin is wanted   *)
(* at the integration branch.  The revision an engine is wanted at is read *)
(* from the platform's checkout, once there is one.                        *)
Wanted(l, branch) ==
  [git |-> Entry(l).git, ref |-> IF Entry(l).pin = None THEN branch ELSE Entry(l).pin,
   attached |-> Entry(l).pin = None]
SourceBindings(d) ==
  {[root |-> d.roots[r], lock |-> d.sources[r]] : r \in {"target", "platform"}}
    \cup {[root |-> x.root, lock |-> x.lock] : x \in Range(d.extra)}
Deployed(s) == UNION {Range(f.deployments) : f \in Range(s)}
WantsOf(d) == {[root |-> b.root, spec |-> Wanted(b.lock, d.branch)] : b \in SourceBindings(d)}
Wants(s) == UNION {WantsOf(d) : d \in Deployed(s)}
(* The conflict keys of hydrate.  What an engine is wanted at is not known *)
(* yet.                                                                    *)
KeysOf(d) ==
  {[root |-> b.root, lock |-> b.lock, specs |-> {Wanted(b.lock, d.branch)}] : b \in SourceBindings(d)}
    \cup {[root |-> d.roots["engine"], lock |-> d.sources["engine"], specs |-> {}]}
Keys(s) == UNION {KeysOf(d) : d \in Deployed(s)}
(* The sources of engines are looked up later, before any is built.        *)
SourcesKnown(s) == \A d \in Deployed(s) : \A b \in SourceBindings(d) : Locked(b.lock)
ConflictFreeBySource(s) == \* a faulty variant: one source at a root
  \A v, w \in Wants(s) : v.root = w.root => v.spec.git = w.spec.git
ConflictFree(s) == \A v, w \in Keys(s) : v.root = w.root => v = w

GenerateInit ==
  /\ files \in Inputs
  /\ parsed = << >> /\ manifest = << >>
  /\ progress = "idle" /\ index = 0
  /\ wanted = {} /\ builds = {} /\ locked = None
  /\ root = [r \in Roots |-> None] /\ touched = FALSE /\ published = << >>
  /\ edits = 0 /\ generations = 0 /\ failures = 0

ProgressIs(s) == progress = s
ProgressTo(s) == progress' = s
Refuse ==
  /\ ProgressTo("idle") /\ index' = 0 /\ wanted' = {} /\ builds' = {} /\ locked' = None
  /\ touched' = FALSE /\ parsed' = << >> /\ manifest' = << >>

(* _load_declarations and the generation of the profile, which finds this  *)
(* machine's login in every roster.                                        *)
Load ==
  /\ ProgressIs("idle") /\ generations < MaxGenerations /\ generations' = generations + 1
  /\ IF \A d \in UNION {Range(f.deployments) : f \in Range(files)} :
          \E l \in Range(d.roster) : DomainB(l) = DomainB(Bot)
       THEN parsed' = files /\ ProgressTo("hash") ELSE UNCHANGED <<parsed, progress>>
  /\ UNCHANGED <<files, manifest, index, hydration, root, touched, published, edits, failures>>

HashInputs ==
  /\ ProgressIs("hash") /\ manifest' = files /\ ProgressTo("preflight") /\ index' = 1
  /\ UNCHANGED <<files, parsed, hydration, root, touched, published, edits, generations, failures>>

(* All declarations, one after the other, each read anew.                  *)
Each(accepted, then) ==
  IF ~accepted THEN Refuse
  ELSE /\ IF index = Len(parsed) THEN ProgressTo(then) /\ index' = 0 ELSE index' = index + 1 /\ UNCHANGED progress
       /\ UNCHANGED <<hydration, touched, parsed, manifest>>
PreflightFirst == \* a faulty variant: one declaration stands for all
  /\ ProgressIs("preflight") /\ (index = 1 => Each(ValuesAccepted(files[1], Profile(parsed)), "merge"))
  /\ (index # 1 => ProgressTo("merge") /\ index' = 0 /\ UNCHANGED <<hydration, touched, parsed, manifest>>)
  /\ UNCHANGED <<files, root, published, edits, generations, failures>>
Preflight ==
  /\ ProgressIs("preflight") /\ Each(ValuesAccepted(files[index], Profile(parsed)), "merge")
  /\ UNCHANGED <<files, root, published, edits, generations, failures>>

Merge ==
  /\ ProgressIs("merge")
  /\ IF SourcesKnown(parsed) /\ ConflictFree(parsed)
       THEN ProgressTo("hydrate") /\ wanted' = Wants(parsed)
            /\ UNCHANGED <<index, builds, locked, touched, parsed, manifest>>
       ELSE Refuse
  /\ UNCHANGED <<files, root, published, edits, generations, failures>>

(* A checkout of another source is refused, and one of another branch where*)
(* a branch is wanted.  A detached revision replaces any other, and, unless*)
(* it is an engine's, a branch.                                            *)
Replaces(old, spec, branchToo) ==
  \/ old = None
  \/ /\ old.git = spec.git
     /\ IF spec.attached THEN old = spec ELSE branchToo \/ ~old.attached
(* Branches come first, then pins.                                         *)
Hydrate(w) ==
  /\ ProgressIs("hydrate") /\ w \in wanted
  /\ ~w.spec.attached => \A v \in wanted : ~v.spec.attached
  /\ IF Replaces(root[w.root], w.spec, TRUE)
       THEN /\ root' = [root EXCEPT ![w.root] = w.spec] /\ wanted' = wanted \ {w} /\ touched' = TRUE
            /\ UNCHANGED <<builds, locked, progress, index, parsed, manifest>>
       ELSE Refuse /\ UNCHANGED root
  /\ UNCHANGED <<files, published, edits, generations, failures>>

(* The engine a deployment may turn out to want: of its source, at a       *)
(* revision its platform's checkout names, in a binary of that name.       *)
EnginesOf(d) ==
  LET platform == root[d.roots["platform"]]
      revisions ==
        {x.rev : x \in {x \in Derives : x.git = platform.git /\ x.ref = platform.ref /\ x.path = d.path}}
  IN {[root |-> d.roots["engine"], binary |-> d.binary,
       spec |-> [git |-> Entry(d.sources["engine"]).git, ref |-> v, attached |-> FALSE]] : v \in revisions}
EnginesKnown == \A d \in Deployed(parsed) : Locked(d.sources["engine"]) /\ EnginesOf(d) # {}
EnginesAccepted(engine) ==
  /\ \A d \in DOMAIN engine : Entry(d.sources["engine"]).pin \in {None, engine[d].spec.ref}
  /\ \A a, b \in Range(engine) : a.binary = b.binary /\ a.spec.ref = b.spec.ref => a = b
(* Each platform's checkout is read once, after all are hydrated; one that *)
(* follows a branch may have moved since.                                  *)
Derive ==
  /\ ProgressIs("hydrate") /\ wanted = {}
  /\ IF EnginesKnown
       THEN \E engine \in [Deployed(parsed) -> UNION {EnginesOf(d) : d \in Deployed(parsed)}] :
              /\ \A d \in Deployed(parsed) : engine[d] \in EnginesOf(d)
              /\ IF EnginesAccepted(engine)
                   THEN ProgressTo("build") /\ builds' = Range(engine)
                        /\ UNCHANGED <<index, wanted, locked, touched, parsed, manifest>>
                   ELSE Refuse
       ELSE Refuse
  /\ UNCHANGED <<files, root, published, edits, generations, failures>>

(* A binary that is current is not built again, and the checkout left as it*)
(* is: which are is what EngineBuild is about.                             *)
SkipBuild(b) ==
  /\ ProgressIs("build") /\ b \in builds /\ builds' = builds \ {b}
  /\ UNCHANGED <<files, parsed, manifest, progress, index, wanted, locked, root, touched>>
  /\ UNCHANGED <<published, edits, generations, failures>>
(* The lock of the checkout is taken while the one of the build before is  *)
(* held: of the same checkout it is never got.                             *)
BuildEngine(b) ==
  /\ ProgressIs("build") /\ b \in builds /\ locked # b.root
  /\ IF Replaces(root[b.root], b.spec, FALSE)
       THEN /\ root' = [root EXCEPT ![b.root] = b.spec] /\ builds' = builds \ {b}
            /\ locked' = b.root /\ touched' = TRUE
            /\ UNCHANGED <<wanted, progress, index, parsed, manifest>>
       ELSE Refuse /\ UNCHANGED root
  /\ UNCHANGED <<files, published, edits, generations, failures>>
EndHydration ==
  /\ ProgressIs("build") /\ builds = {} /\ ProgressTo("validate") /\ index' = 1 /\ locked' = None
  /\ UNCHANGED <<files, parsed, manifest, wanted, builds, root, touched, published, edits, generations, failures>>
(* Git or a build fails, after what it did was done or before.             *)
HydrationFails ==
  /\ progress \in {"hydrate", "build"} /\ failures < MaxFailures /\ failures' = failures + 1
  /\ Refuse
  /\ UNCHANGED <<files, root, published, edits, generations>>

Validate ==
  /\ ProgressIs("validate")
  /\ Each(ValuesAccepted(files[index], Profile(parsed)) /\ PathsAccepted(files[index], root), "publish")
  /\ UNCHANGED <<files, root, published, edits, generations, failures>>

Publish ==
  /\ ProgressIs("publish") /\ published' = manifest /\ ProgressTo("published")
  /\ UNCHANGED <<files, parsed, manifest, index, hydration, root, touched, edits, generations, failures>>
EndGeneration ==
  /\ ProgressIs("published") /\ Refuse
  /\ UNCHANGED <<files, root, published, edits, generations, failures>>

(* An edit changes declarations, not which ones there are.                 *)
Edit ==
  /\ edits < MaxEdits /\ edits' = edits + 1
  /\ files' \in {i \in Inputs : Len(i) = Len(files) /\ i # files}
  /\ UNCHANGED <<parsed, manifest, progress, index, hydration, root, touched, published, generations, failures>>

GenerateNext ==
  \/ Load \/ HashInputs \/ Preflight \/ Merge \/ (\E w \in wanted : Hydrate(w)) \/ Derive
  \/ (\E b \in builds : SkipBuild(b) \/ BuildEngine(b)) \/ EndHydration \/ HydrationFails
  \/ Validate \/ Publish \/ EndGeneration \/ Edit
GenerateSpec == GenerateInit /\ [][GenerateNext]_generateVars

-----------------------------------------------------------------------------
HydratedCheckouts ==
  [git : {e.git : e \in Range(Lock)},
   ref : {e.pin : e \in Range(Lock)} \cup {x.rev : x \in Derives} \cup {d.branch : d \in DeclaredDeployments},
   attached : BOOLEAN]
GenerateTypeOK ==
  /\ files \in Inputs /\ parsed \in Inputs \cup {<< >>}
  /\ manifest \in Inputs \cup {<< >>} /\ published \in Inputs \cup {<< >>}
  /\ progress \in {"idle", "hash", "preflight", "merge", "hydrate", "build", "validate", "publish", "published"}
  /\ index \in 0..Len(files) /\ touched \in BOOLEAN
  /\ wanted \subseteq [root : Roots, spec : HydratedCheckouts]
  /\ builds \subseteq [root : Roots, binary : {d.binary : d \in DeclaredDeployments}, spec : HydratedCheckouts]
  /\ locked \in Roots \cup {None}
  /\ root \in [Roots -> HydratedCheckouts \cup {None}]
  /\ edits \in 0..MaxEdits /\ generations \in 0..MaxGenerations /\ failures \in 0..MaxFailures

(* What SPEC.md promises of a declaration that is in force: a checkout of  *)
(* its own for the engine and for every package source, one package of a   *)
(* name, providers that are published or of its own sources, one identity  *)
(* per login however it is compared.                                       *)
Sound(f) ==
  /\ \A d \in Range(f.deployments) :
       /\ Cardinality({d.roots["engine"]} \cup {x.root : x \in Range(d.extra)}) = 1 + Len(d.extra)
       /\ {d.roots["target"], d.roots["platform"]}
            \cap ({d.roots["engine"]} \cup {x.root : x \in Range(d.extra)}) = {}
       /\ Cardinality(Range(Composed(d))) = Cardinality(DOMAIN Composed(d))
       /\ Cardinality({DomainA(l) : l \in Range(d.roster) \cup {Bot}}) = Len(d.roster)
       /\ Cardinality({d.bindings[a] : a \in Fields}) = 4
       /\ \A a \in Fields : \E p \in Range(f.providers) : p.id = d.bindings[a]
            /\ (p.lock \in Range(d.sources) \/ (p.entry \in DOMAIN Published /\ Published[p.entry] = p.kind))
  /\ Cardinality({d.id : d \in Range(f.deployments)}) = Len(f.deployments)
  /\ Cardinality({d.target : d \in Range(f.deployments)}) = Len(f.deployments)
(* A published manifest that is not stale is of sound declarations, though *)
(* they were edited between any two reads of them.  A manifest is stale    *)
(* when the files differ from what was hashed.  A second edit may undo the *)
(* first between the hash and the last look, and is not seen.              *)
PublishedIsSound == edits <= 1 /\ published = files => \A i \in DOMAIN published : Sound(published[i])
(* A generation that succeeds leaves at every target, platform and package *)
(* source what each declaration it parsed wants there, whatever an earlier *)
(* generation left and whatever engines it checks out in between.  Of the  *)
(* checkout of an engine it says nothing: it stays as it is where the      *)
(* binary is current.                                                      *)
BindingsServed == ProgressIs("published") => \A w \in Wants(parsed) : root[w.root] = w.spec
(* No root is changed before every declaration file was accepted, as it was*)
(* parsed or as it is: an edit may come before, between or after the gate's*)
(* reads of the files.  What is hydrated is what was parsed, which, with an*)
(* edit in between, is not what the gate read; hence the second case.      *)
GateFirst ==
  touched /\ edits <= 1 =>
    \A i \in DOMAIN parsed : \E f \in {parsed[i], files[i]} : ValuesAccepted(f, Profile(parsed))
=============================================================================

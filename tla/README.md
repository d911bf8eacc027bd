# fkst-ops: TLA+ models, checks and proofs

fkst-ops operates deployments of an engine on one machine. A deployment
repository declares deployments and pins revisions in `fkst.lock`; the tools
here fetch the pinned mechanism, generate control files for launchd, build the
engine, start, replace and stop one supervise process per deployment, and watch
it with a periodic round. It is Python and bash, and there is no daemon and no
database: every component is a short process, and what processes share is the
file system (symlinks, lock files, pid files, an append-only ledger), the
process table, git and launchd. The interesting errors are therefore
interleavings of short processes over the file system, and processes that are
killed between two steps. These are what the models have as actions.

Paths in this file are relative to `src/`; modules are in this directory.

## 1. Inventory

### Components that carry state and concurrency

| Component | State | Operations | Interacts with | Must hold |
|---|---|---|---|---|
| Supervise lifecycle: `host/host_run.sh`, start/stop/restart of `ops/deployment_operator.sh` | pidfile `$DUR/.fkst-supervise.pid`, process table, logs, the engine's redb store | host-run contract: restart of the prior supervise, claim of the slot, receipt check, exec; operator: launch, readiness wait, retry on a lost store lock, stop | spawned through the locked child; engine receipt of the artifact store | at most one supervise past the claim; the pidfile names it; malformed pidfiles fail closed; commands end |
| Launch locks: `ops/launch_child.py`, `ops/revision_derivation.py`, cleanup in the operator | platform snapshots and engine binaries by revision, one lock file per revision, one guard | open shared, fork, inherit, try exclusive, remove, unlink | operator launches and cleanups of several deployments over one machine root | a running child's files are not removed; a lock's inode and its path agree; no deadlock |
| Cadence guard: `watch/cadence_round.py` | ledger of JSON lines, one record per deployment and round | sync, observe, judge, restart | operator entry (subprocesses), launchd starts it | restart budget per deployment, across rounds and deaths; the record precedes the restart |
| Control publication: `watch/generate_artifacts.py` | `control/current`, generations, three public links, launchd's registration | lock, baseline, link, fill, select, reload, prune, roll back | launchd, the cadence round it schedules | readers see one whole generation; a failure restores; the schedule keeps its files |
| Mechanism cache: `bin/fkst-ops` | checkouts by revision, `current` pointer, mkdir locks, staging directories | look up, clone, preflight, publish, point, re-execute | every other entry point starts here | nothing is published before its preflight; staging is removed; the pin is published in the end |
| Engine bootstrap: `host/bin_bootstrap.sh` | mkdir lock, built binary | wait for the lock, build, shortcut when the binary is there | host entry | a waiter uses the builder's binary; nobody builds twice |
| Engine builds: engine half of `watch/source_hydration.py`, build of `providers/engine.py`, publication of `ops/revision_derivation.py` | `<binary>-E`, its receipt, build locks of checkouts | look, lock, detach, build, verify, copy, link, digest, receipt; reclaim | launch locks, operator; deployments may share an engine checkout | a current artifact was built from the revision in its name; bytes do not change under a child; builds end |
| Branch checkouts: branch half of `watch/source_hydration.py` | checkout, its branches, remote-tracking ref | clone and rename into place, fetch, compare, fast-forward, confirm | people commit in the checkout and push | no commit is lost; an accepted checkout has the remote's tip |
| Declarations: `schema/validator.py`, `generate` of `watch/generate_artifacts.py`, binding half of `watch/source_hydration.py` | declarations (edited meanwhile), manifest, roots | parse, hash, validate values, merge bindings, hydrate, derive engines, build or skip them, validate paths, publish | hydration, control publication | what is published was validated; no root is touched before the values are; every target, platform and package root serves what is wanted there |
| Source control: `ops/deployment_source_control.sh`, `ops/git_lock_sweep.py`, sync of the operator | checkouts, branches, `index.lock` files, staleness of a process | fetch, fast-forward, checkout of a pin, sweep of stale git locks | cadence round, launches | a checkout is moved only when clean; a live git's lock is not removed |
| Credentials: `providers/github_credential_gh.py`, `ops/github_credential_gh.py` | attestation with a deadline on the monotonic clock, its lock, the login at GitHub | mint, look, lock, look again, verify, attest, issue, use, report a health fact | supervised processes call it as `gh` | no call with a token nobody verified in time; `unhealthy` only by evidence, which the code keeps for the requests of a verification and for nothing else |
| Observation: `ops/deployment_process.py`, `ops/runtime_activity.py`, `ops/github_activity.py`, `ops/engine_completion.py`, `ops/probe_result.py` | none of its own; reads pidfile, process table, a tree, a document, each more than once | probe, answer `PRESENT`, `ABSENT` or `UNKNOWN` | status and doctor output feeds the cadence guard | an answer is evidence of an instant of the probe; the rest is `UNKNOWN` |
| Board: `providers/board_engine_durable.py` | cache of an observation, its temporary file | take the cache or observe, write the cache, project anomalies | operators read its answer | `HEALTHY` has a quiet instant not older than the cache may be |

### Components that are functions or one-shot scripts

`bootstrap/advance_pin.py` (compare-and-replace of a pin), `doctor/` (a table
of probe answers; reaping of orphans), GitHub plane of `board/`,
`ops/invoke_provider.py` (one request, one response, a deadline),
`host/host_entry.sh` (argument and package resolution),
`ops/deployment_launch_environment.sh` (filter of names), `scan/`,
`acceptance/` (text tools). `PROJECT.json` lists them with their status.

### What is hard

- Files named by path and owned by inode or by content: the pidfile (removed by
  path after it was judged), the revision locks (unlinked by path, locked by
  inode), the control links (three paths, one switch), the mkdir locks.
- Deaths between two steps: claim created and not written; lock held; ledger
  record written and restart not made; generation selected and schedule not
  reloaded.
- Waiting on somebody else's exit: SIGKILL followed by polling, a store lock
  that outlives its owner, a child that outlives its operator, pids reused.
- Budgets recovered from a log: launch attempts, guard attempts.
- Rollback in the middle of a sequence whose steps may each fail.
- Reads of several things that move: a pidfile, then the process it names, then
  the pidfile again; a directory tree during a walk; declarations that are read
  four times in one generation.
- Locks that a process holds longer than it looks: a lock stream that stays
  referenced until its variable is bound again.
- Troubles that look like evidence: a helper that is killed for being slow, a
  command that fails, a rate limit.

`PROJECT.json` `hazards` has each of these at its line, with the property that
would catch it, or the reason why none does.

## 2. Modules

Each component has a specification and an `MC` module for its instances; the
theorems of one or several are in a `Proofs` module. `PROJECT.json` `map` gives the source lines of
every definition.

### Supervise (`host_run.sh` 302-524, operator 102-145 and 420-553)

A pid goes through `at`: the phases of the contract in the order of the code
(`restart_*`, `claim_*`, `receipt`, `exec`), then `running`. The pidfile is
`file`: which pid created it and whether the pid was written, since `set -C`
creates the file in one step and `echo` fills it in another. `rm -f` removes
whatever is at the path. `kill -9` makes a process `dying`; `FinishDying` makes
it `dead` and only then does a poll see it gone. An operator command is a
process of its own (`pc`, `cmd`, `attempt`): it spawns a child, waits for
markers in its log, and launches again when the newest log says the store was
locked. `pgrep` may or may not see a process that is being torn down, and sees
only what has exec'd the engine. The engine, the redb store and the kernel are
external: `OpenStore`, `EmitReady`, `Crash`, `Recycle`.

Argument parsing, package roots, environment and revision checks of the
contract are one refusal, `HostRefuses`, which may come before the claim and
after the slot was taken. A supervise started before the pidfile contract
existed (`Legacy`) is an initial state because the operator has code for it.

### RevisionLocks (`launch_child.py`, `revision_derivation.py` 213-254, operator 187-284 and 370-470)

One module for both families of artifacts, which follow the same protocol with
three differences the code makes: the platform cleanup opens the guard once per
snapshot and the engine reclaim once per sweep; a rebuild of a platform removes
the old snapshot under the locks and a build of the engine publishes outside
them; and the platform cleanup keeps only the revision at hand. `path[r]` is the
inode at the lock path and `fd`/`cfd` the inodes descriptors hold, so a lock
that was unlinked under its holder is visible. Order of a sweep is arbitrary.
Locks are not variables: who holds which follows from where processes are
(`GuardShared`, `SharedHeld`, ...), as flock is released by death.

### CadenceGuard (`cadence_round.py` 101-346)

The ledger is a sequence of records, a round holds what it read of it
(`history`) plus what it appended, and the streak of a deployment is computed
from it by `Relevant` and `Streak` as `prior_stopped_streak` does. A round
records and judges every identity of a declaration, in any order
or, when the declaration could not be observed, writes one record without
identity. `tried` is a history variable: restarts invoked since the last record
that was not STOPPED. A round may die anywhere and may leave a torn line.

### ControlPublication (`generate_artifacts.py` 428-623, 706-739)

`link[f]` is what is at a public path, `current` what the selector names,
`files[g]` the files a generation directory holds and `origin[g]` whether they
are a publication's, copies of earlier files or empty ones. `sched` is
launchd's registration: live or not, the path it was bootstrapped from and the
generation its job was read from, which differ when the path's link moves. The
transaction's order is the code's: schedule state, baseline, links, generation,
select, unload, load, prune; any failure after the selection goes through
`Rollback` and the same `Unload`/`Load` with the earlier schedule. `faults`
fixes at the start which kinds of fault a behaviour may meet.

### MechanismCache (`bin/fkst-ops` 58-183)

One invocation per process, `pc` at the statement it is at. `named[i]` is the
shell variable `publish_lock`, which the EXIT trap reads; it is assigned before
`mkdir`. `mv` of a directory onto an existing one nests it, and a failing
`rmdir` ends the script because of `set -e`. The pin may move at any time, and
the preflight and the re-executed entry read it again.

### EngineBuild (`source_hydration.py` 186-254 and 386-400, `engine.py` 49-132, `revision_derivation.py` 108-279)

One process per hydration or provider call, `step` at the statement it is at.
`held` is the set of checkouts whose lock stream a process still references:
flock belongs to the open file, so a hydration that has opened the lock file of
a checkout it already holds waits for itself. `Bytes` are what was built: the
revision the checkout was at, the command, and a variant, because two builds of
one revision may differ; `link` therefore either publishes, finds equal bytes,
or fails. A receipt's digest is of what is at the artifact's name when it is
read, and not of what was copied there, and a reclaim that takes no build lock
removes binary and receipt in two steps.

### BranchCheckout (`source_hydration.py` 53-184)

A branch is how much of the remote's history it has and how many commits of its
own. There is no lock; people push, commit and switch branch between any two
git commands of a hydration, and `merge --ff-only` goes into whatever branch is
checked out by then.

### Declaration (`generate_artifacts.py` 155-188 and 626-739, `validator.py`, `source_hydration.py` 255-336)

`generate` as one process over files that somebody edits: it parses, hashes,
validates each declaration, merges bindings, hydrates what it parsed, validates
each declaration again with the roots as they are, and publishes the hash.
Hashing, and both validations, read the files anew. The rules of
`validate_and_resolve` that relate two places of a declaration are operators
named `...Accepted`; two comparisons of logins are `DomainA` and `DomainB`,
which differ as they do in the code. A hydration is here what it does to
checkouts: branches, then pins, then (`Derive`) the engine revision that each
platform's checkout names, then each build. A build whose binary is current is
skipped and its checkout left as it is (`SkipBuild`); any other takes the lock
of the checkout, which is never had while the build before holds it, and
detaches it (`BuildEngine`). `Replaces` is which checkout may replace which.
Which binary is current, and the build, are EngineBuild's. `MCDeclaration` has the
declarations of the instances.

### Credentials (`providers/github_credential_gh.py`, `ops/github_credential_gh.py`)

A call of the proxy goes through the helper's steps: clock, first look at the
attestation, its lock, second look, two requests at GitHub, publication, use.
The end of a call without a credential is `Report`: of every failure, its own
or the helper's, the proxy makes `unhealthy`, but for the one marker. The monotonic clock starts again at a
boot, the attestation stays, and tokens, logins and permissions change
meanwhile. A request may always fail, and the verification then says so.
`Troubles` are what else may happen to a call: `slow`, the proxy's
thirty seconds run out at any point of the helper; `broken`, `gh auth token` or the
resolver fails though there is a token, or the helper cannot be started, dies or
prints something else; `limit`, GitHub answers 401 or 403 to a token it accepts. `grounds` remembers what
a call failed on, something it learned against the credential or a trouble.
Of the source `github-app` the requests are one step, `Repositories`.

### Observation, ProcessProbe, ActivityProbe, FactProbe

`Observation` is an abstract specification of every probe: things come and go,
some of them together are a piece of evidence, and an answer is `present` only if
all of a piece was there, each thing at some instant since the probe began, `absent`
only if no piece was there all the time. The three probes implement it:
`ProcessObservation`, `ActivityObservation` and `FactObservation` are
`INSTANCE Observation WITH ...`. The evidence of a process is that a pid runs the
supervise and that the pidfile names no other; of activity, one artifact written in
the window; of a fact, the document with it. The history variables `...Seen` and
`...Kept` of each are what the abstract one calls `seen` and `kept`.

`ProcessProbe` has host shells that claim the pidfile where there is none
(`Claim`) and later become the supervise, whatever became of the pidfile since
(`Become`), pidfiles removed by path at any time, a late `rm -f` of a second
claimer's too (`LosePidfile`), deaths, zombies and pids that are used again, and the
probe's reads one at a time (the kernel's answer about a pid is two). Two shells may
both be past their claims, and a probe that found no pidfile never reads it again:
what it may claim is that a supervise ran and that the file named no other, not
that both were so at one instant. With a pidfile it reads the file twice, and
`PresentWasClaimed` says what that buys: one instant at which the named pid ran the
supervise, unless that pid changed hands meanwhile. `ActivityProbe` walks a tree that
changes. `FactProbe` is `github_activity.py` and `engine_completion.py`, which
both rest on one document that is somebody else's.

### Board (`board_engine_durable.py`)

Runs share one cache file and one temporary name. An open temporary file goes
along when another run renames it (`writesTo`), so that bytes can be written
into the cache file. `Anomalies` follows the projection of the code; `Quiet`
says of each fact by itself that it needs no attention, and is the reference
for it.

### HostTools

The eight specifications from EngineBuild on share no state with one another.
HostTools EXTENDS all of them and puts them side by side in one state graph:
`which` says which tool a behaviour is of, the variables of the others rest in an
initial state of theirs, and every property is a definition of its own module. The
state graph is the disjoint union of the eight, and every behaviour of it is one of
each tool (`EachToolHolds`). `MCHostTools` gives the constants their values;
`Nothing` declares the one value (`None`) that several of them share.

## 3. Runs

| Run | Instance | What it shows |
|---|---|---|
| `supervise_serial` | 1 operator, 3 pids with reuse, 3 commands, 2 attempts, crashes anywhere | `PidFileExclusion`, `PidFileNamesSupervise`, `MalformedFailsClosed` hold when commands do not overlap |
| `supervise_live` | 2 operators and their shells overlapping, operators that die | every command ends (`CommandsTerminate`) |
| `revision_locks_platform` | 2 operators, 2 children, 2 revisions, 4 launches, 1 move | `LockIdentity`, `RunningRevisionUntouched` |
| `revision_locks_engine` | 2 operators, 1 child, 3 launches, 1 move | `RunningRevisionUntouched` for engine binaries, and `LaunchesEnd` |
| `cadence_guard` | 1 declaration of 2 deployments, limit 2, 4 records | `AttemptsBounded`, `BudgetIsolated`, `RestartIsRecorded` |
| `control_publication` | 2 publishers, 3 publications, 2 files; deaths, or failing launchctl | `OneGeneration`, `SelectedWhole`, `ScheduledKept`, `FailureRestores`, `PublicationsEnd` |
| `control_publication_prune` | 1 publisher, a failing rmtree | violated: rollback selects a half-removed generation |
| `mechanism_cache` | 2 invocations repeated for ever, 1 fault, 1 kill, 1 pin move, the entry's own revision among 3 | `PublishedIsPreflighted`, `StagingRemoved`, `PinPublished` |
| `mechanism_cache_race` | 3 invocations | violated: two are inside one publish lock |
| `host_tools` | the eight tools, bounds in `HostTools.cfg`, inputs in `MCHostTools` | `CurrentIsBuilt`, `BytesStay`, `DoneIsPublished`, `BuildsEnd`; `WorkKept`, `Refreshed`; `PublishedIsSound`, `BindingsServed`, `GateFirst`; `IssuedIsVerified`, `UntroubledUnhealthyIsRefuted`; `ProcessEvidence`, `ActivityEvidence`, `FactEvidence` (refinements of `Observation`), `PresentWasClaimed`; `HealthyIsQuiet` |
| `hydration_deadlock` | 1 hydration of 2 revisions in 1 engine checkout | violated: `BuildsEnd` |
| `credential_outage` | 1 call, requests that are slow or hang | violated: `UnhealthyIsRefuted` |

### Why the bounds are enough

A race on the pidfile needs a stale file, one process that judges it and one
that replaces it: three pids. A restart and the launches behind it need two
commands; three leave one to observe the damage. Two attempts have a first and
a last; the code has five (`MaxAttempts` is a constant, and the theorems hold
for each). A split lock needs a holder, a remover and an opener, which are a
child and two operators; two children let one revision have two holders, and
four launches let both operators come back after a removal. The budget's cases
(streak below, at, and broken before the limit) fit in four records at limit 2;
an observing round's records count as the code counts them. Two public files
are enough for three because the properties compare them in pairs, and the
LaunchAgent, which launchd reads, is one of them. A third publication is the
first that finds a schedule restored from a generation's own path. The cache
needs a loser, a winner and one that enters after the loser's trap; invocations
repeat, so two processes play all three in `mechanism_cache`.

In `host_tools`: wrong bytes need a checkout that is used for two revisions by
two processes, which are a hydration of two revisions in two checkouts and a
provider that builds one of them in the other; one kill leaves a half-made
artifact that a second start finds, one cleanup comes between any two steps, and
two variants are an equal and a different rebuild. Two hydrations refresh one
branch checkout, two calls share one attestation over an expiry, a boot and one
change at GitHub, two board runs share one cache. A probe answers about its own
time only, so one probe is enough, begun in any state the world can reach, with
two births and one pidfile lost before or during it, two writes, or two edits. The declarations are
one that is right and about thirty that are wrong in one place or differ from it in
one, alone or with a second deployment or a second file; one edit falls between
any two reads. An edit that is taken back needs two, one before a declaration is
validated and one after; the manifest's hash is then of files that were never
validated and still are in the repository. `PublishedIsSound` says so in its
premises: the manifest is not stale, and there was at most one edit (with
`MaxEdits = 2` TLC finds the unsound manifest when the second premise is dropped,
and nothing with it). Three more properties say less than one may expect.
`GateFirst` says of each file that it was accepted as it was parsed or as it is, and
not that what is hydrated was: the gate reads the files anew, hydration takes what was
parsed, and an edit may come between (a finding); like `PublishedIsSound` it allows
one edit. `BindingsServed` is about target, platform and package source
roots and not about the checkouts of engines, which a current build leaves at
whatever an earlier generation wanted. `UntroubledUnhealthyIsRefuted` is about
calls that met none of the troubles, which others of the same behaviour may meet.
The platform's branch names either of two engine revisions when it is read, two
declarations share an engine checkout or have one each, and a second generation meets
what the first left. The assumptions on the constants are `ASSUME`s of the
component modules, which TLC evaluates for each instance.

`CHECK_DEADLOCK FALSE` is given where the bounds on commands, launches, records,
publications, builds or probes stop the system; `mechanism_cache` repeats and checks deadlock.

### Fairness

Every weak fairness condition is on the steps of a running process: the
scheduler runs it, a blocking flock wakes when the lock is free, a process that
was sent SIGKILL dies. Nothing is assumed of crashes, of the engine's readiness,
of the release of the store, of successes of git, launchctl or a clone.
`BuildsEnd` has weak fairness on the steps of each build (`Step`), none on
starts, kills and cleanups: a process that is running goes on, and flock wakes.
`FairSpec` of HostTools has that condition and no other: the other properties
of `host_tools` are safety properties, and the theorems are about `Spec`.
`FairSpec` of MechanismCache adds that whoever needs the mechanism invokes it
again (`Begin`): without an invocation nothing is published. Polls with a
timeout (`WaitTimeout`, `RestartPollTimeout`) end because the code counts
samples.

### What the violations show

- `control_publication_prune`. The previous generation is removed after the new
  one was selected and loaded, inside the `try` whose handler selects the
  previous one again.
- `mechanism_cache_race`. The trap of the invocation that lost removes the
  winner's lock. The winner's `rmdir` fails and ends it before the pointer is
  set, and a third invocation can enter. The same trap is what heals a lock left
  by a killed publisher: `PinPublished` depends on it, and its mutant (a trap
  that leaves the lock alone) breaks it.
- `hydration_deadlock`. SPEC.md lets deployments share an engine checkout, but two
  that derive different engine revisions make one hydration build twice there.
  The lock of the first build stays referenced while the second one opens the
  lock file again (`checkout_lock` is bound again only after the next lock is
  taken, line 394): flock waits for a stream of the same process.
  The instance of `host_tools` uses two checkouts, where builds end; two
  hydrations that take two checkouts crosswise wait for one another in the same
  way.
- `credential_outage`. The comments of the helper and of the proxy separate
  "cannot be verified now" from evidence against a credential. A request that
  GitHub leaves unanswered, or several that it answers slowly, outlive the proxy's
  deadline for the helper, and a killed helper is reported as `unhealthy`. So is
  every other trouble of the module: a `gh auth token` that fails for any reason, a
  helper that dies, a 403 of a rate limit. What is left of the promise,
  `UntroubledUnhealthyIsRefuted`, is about failing requests alone: a request that
  fails in whichever step is not taken for a refusal.

Disagreements of the code with its documents that have no run (`findings` of
`PROJECT.json` quotes them): two starts over one stale pidfile both pass the
claim, as `rm -f` goes by path, and only the store's lock admits one; a platform
cleanup keeps its own revision only and not those other declarations select; a
death between two public links on a fresh machine lets the next publisher
select empty files for absent ones; the gate before hydration, which is to reject
"the complete declaration set before creating machine state", reads the files anew,
and what was parsed before an edit is hydrated unseen; a current build is skipped before its engine
checkout is looked at, so that the checkout need not be at the revision SPEC.md says
it is detached at; the validator's first gate, the suppression
of failures by cron facts on the board, and the activity walk, which does not see what is
written where it has already been.

## 4. Theorems

All are `Spec => ...` for every value of the constants the `ASSUME` of the component's
module allows; a hypothesis beyond it is in the theorem's statement and named here.
Every invariant and every action property of a passing run is stated by a theorem;
`TypeOK` of MechanismCache is a theorem only.
The shape is the same throughout: an inductive invariant made of named parts, one
lemma for what a step does to each part, one case per action under it.

**SuperviseProofs.** `TypeCorrect` holds without further assumptions.
`PidFileNamesSuperviseHolds` and `PidFileExclusionHolds` assume what the
code needs and SPEC.md concedes: one operator and no host shell that outlives
it (`SingleOperator`). The invariant `IInv` says why they hold. At most one
pid is in the contract, so what it read is current (`SeenIsCurrent`); it removes
the file only after the pid in it was seen gone (`RemovalIsStale`), and a pid
past the claim is not gone; whoever writes the file is the one that created it
(`WriterOwnsFile`). `PidFileExclusion` follows, as two supervises would be named
by one file. Without the assumption the property fails (two plain starts over
one stale pidfile). `MalformedFailsClosedHolds` rests on the same invariant: who
removes a pidfile has read a written one, and who writes an empty one is alive.

**RevisionLocksProofs.** `TypeCorrect`, `LockIdentityHolds` and
`RunningRevisionUntouchedHolds` for any number of operators, children,
deployments and revisions, in both families. `IInv`: shared and exclusive guard
sections exclude one another (`GuardExcludes`); a descriptor opened in a guarded
section is the inode at the path (`DescriptorCurrent`); who removes a revision
holds its lock alone (`RemovalAlone`); so a child's descriptor stays the one at
its path (`LockIdentity`), and its revision stays valid (`RunningRevisionValid`),
which is why no rebuild touches it either. `LockIdentity` alone is not inductive:
an open between a remover's lock and its unlink would break it, and only the
guard excludes that.

**CadenceGuardProofs.** `InvariantHolds` and `AttemptsBoundedHolds` for every
limit, every layout of disjoint declarations and every ledger. `tried[d]` never
exceeds the streak of `d` at the end of the ledger (`TriedIsRecorded`), because
a record precedes each restart, and a guarded round judges with the ledger in
memory (`MemoryIsLedger`). The lemmas say how `Streak` changes when a record is
appended; cardinalities come from the library's finite-set theorems.
`BudgetIsolatedHolds` is the lemma for records of another deployment, for a ledger
of any layout. `RestartIsRecordedHolds` adds one part, of what a round that is about
to restart has in memory (`LastIsAttempt`): the last record is of that deployment,
saw it STOPPED, and says that it is attempted. `TypeCorrect` is part of the invariant.

**ControlPublicationProofs.** `TypeCorrect`, which says also that one publisher
is inside the transaction at a time, holds whatever fails. `SelectedWholeHolds`
and `OneGenerationHolds` assume that the removal of an unused generation succeeds
(`RemovalsSucceed`); `control_publication_prune` shows that they need it. `IInv`:
what a publisher found selected is still whole while it may be selected again
(`PreviousWhole`); a baseline is complete when it is selected and says what the
public paths held (`BaselineReady`); a generation that is being filled is not the
selected one (`GenerationApart`); nothing is switched before all public paths are
links (`LinkedFirst`); until then a regular or absent path agrees with what the
links lead to (`LinkShape`). The last is what lets `OneGeneration` survive a
death between two links.
`FailureRestoresHolds` needs no assumption: until a publication has failed
its restoration cannot have failed, and from the rollback on the selection, from the
reload on the schedule, is what the publisher found (`Restoring`). `ScheduledKeptHolds`
assumes `RemovalsSucceed` and that a behaviour does not have both deaths and failing
bootouts (`OneOfTwoFaults`), as TLC finds a counterexample with both; its invariant
(`Loaded`) says that the generation of the loaded job, and the one a rollback would
load again, is whole, and when public path, selection and job agree.

**MechanismCacheProofs.** `PublishedIsPreflightedHolds` and `StagingRemovedHolds`
for any number of invocations and revisions, with two publishers inside one lock
included: neither depends on the lock. `IInv`: an invocation past the look has
read a pin (`PinRead`); who is at the lock or later has preflighted its revision
(`PublisherPreflighted`); who works without a candidate works on a published
checkout (`CheckoutPublished`); a candidate exists only between the clone and the
move or the trap (`StagingAt`). `TypeCorrect` is part of it.

**SourceProofs** (EngineBuild, BranchCheckout). `BytesStayHolds`,
`CurrentIsBuiltHolds` and `DoneIsPublishedHolds` for any number of hydrations,
builders, checkouts, revisions and variants. `BuildInv`: no checkout is locked
twice (`LockExcludes`), so what a process finds in the checkout it holds is its own,
from the detached head to the copy (`Mine`), and another process does not disturb it
(`OthersKeep`); binaries and receipts are therefore of what somebody declared
(`ArtifactsBuilt`). The receipt's digest is of the bytes that are at the name, which
may be another builder's after a cleanup; `CurrentIsBuiltHolds` assumes that all who
declare a revision want it built by one command (`OneCommand`), and without it a
receipt may name the other command. The instance has one command.
`DoneIsPublishedHolds` adds `PublicationInv`: while no cleanup began, a receipt is
of the bytes at its name, and what a process was asked for is published, still to
do, or the build it is at. `RefreshedHolds` and `WorkKeptHolds`, for any number of
refreshes, branches and commits: what was at the remote when a hydration began is
tracked when it compares and in the clone it places (`RemoteTracked`), and a
hydration that goes on has a checkout before it (`CheckoutThere`).

**ProbeProofs** (ProcessProbe, ActivityProbe, FactProbe). The three probes implement
`Observation` (`ProcessEvidenceHolds`, `ActivityEvidenceHolds`, `FactEvidenceHolds`):
initial states are initial states of an observation, and every step is one of its
steps or hidden. The pidfile agreed with whatever is asked about when it was read
(`AgreedOnce`), and what was selected ran when its arguments were read; a supervise
that stays is a candidate, is being asked about, or was selected (`StayingIsAsked`).
`PresentWasClaimedHolds` adds what the second read of the pidfile is for: a process
that has been the supervise claims nothing any more, so a pidfile that still names
its pid, if the pid did not change hands, has named it since then (`NamedOnce`).
The walk passes whatever stays in the tree: it was
found, is listed, or its directory is still to be listed or found
(`StayingIsAhead`), so a walk that ends with nothing in the window excludes it. A
status file that is open said at its opening what it is read for later
(`OpenedWasSeen`).

**HostToolsProofs** (Credentials, Declaration, Board, and the composition).
`IssuedIsVerifiedHolds`: verifications are of the past (`StampsPast`), an attestation
is of one that is no older (`AttestationVerified`), a call with a credential holds the
token it looked up (`HoldsToken`), and one that skipped its own verification is no
authorization check (`Unchecked`) and has read the clock (`ClockRead`). A boot
orders stamps before the clock does, which is why an attestation of an earlier boot
does not count. `UntroubledUnhealthyIsRefutedHolds` has each
failure that is reported as `unhealthy` either refute the credential or be a trouble.
`BindingsServedHolds`: during a hydration every binding is served or left to do
(`Hydration`). Serving one does not undo another, as no two that are wanted at one
root differ, and building an engine undoes none, as the conflict keys of `hydrate`
tell apart an engine's root from every other (`WantsAgree`).
`GateFirstHolds`: the files before the one at hand passed, as they were parsed or as
they are, and roots are touched behind the gate only; before the one edit the two are
the same (`Gate`). `PublishedIsSoundHolds`: what was
hashed and is still there is validated as far as the generation has come
(`Soundness`); the second gate implies `Sound` for every declaration, lock and machine,
which is a lemma about the validator's rules and takes the library's finite-set
theorems for the cardinalities in `Sound`. `HealthyIsQuietHolds`: every run that
writes or judges, and every whole cache file, has an observation the engine told no
earlier than its time says (`RunsInformed`, `CacheInformed`), whoever wrote into
whose file; and an observation without anomalies is `Quiet`.
`EachToolHolds` says that the composition's behaviours are behaviours of the tools,
and `TypeCorrect` that no variable of any leaves its domain.

Only model-checked: liveness (`CommandsTerminate`, `LaunchesEnd`,
`PublicationsEnd`, `PinPublished`, `BuildsEnd`), which is beyond the prover.
The violated properties of the other runs are false of the code.

## 5. Not modelled

- `host/bin_bootstrap.sh` (a mkdir lock around a build, waited for with a
  timeout) and the sync of sources (`ops/deployment_source_control.sh`,
  `ops/git_lock_sweep.py`: the sweep removes `index.lock` by path after it judged
  it, which a git that starts in between may have made anew).
- `bootstrap/advance_pin.py`: compare and replace without a lock; two of them
  may lose one's update.
- `doctor/`: its table of probe answers and the reaper; `host/host_entry.sh`,
  `ops/invoke_provider.py`, `ops/deployment_launch_environment.sh`: no state
  kept between their steps.
- The GitHub plane of the board, and the fold of dead letters by attempt.
- `scan/`, `acceptance/`: text tools.

In the components that have a module: the text of logs and messages, argument
parsing, file modes, full disks, clock changes, checks of a single field's shape
in the validator. Deployment ids are unique within one declaration file, as the
validator looks at one file at a time. `ProcessProbe` has the two reads of the
Linux instrument; Darwin's `ps` is one of the same outcomes. Two pids
that collide with a `$$`-named temporary file are left out. Rounds of the
cadence guard that are started by hand next to launchd's are outside its model
(the code relies on launchd running one at a time). Publication to a machine
root other than the live one does not touch launchd and is the same transaction
without its schedule steps. A rollback whose rename itself fails is left out.

## 6. What could follow

1. `SourceSync` with the git lock sweep: the sweep's look, recheck and unlink
   against a live git; fetch, fast-forward and pin checkout against a sync of
   the other deployment on the same checkout.
2. EngineBuild composed with RevisionLocks, whose `Build` it refines.
3. `RevisionGuard` and `SupervisorSlot`, abstract specifications of the launch
   locks (a revision is held by readers or removed by one remover) and of the
   pidfile (one holder, released only by its death), implemented by
   RevisionLocks and by Supervise when operators do not overlap.
4. `BinBootstrap`: the directory lock, its timeout, a holder that is killed.
5. Proofs: what refinements 2 and 3 assert, step by step; a hypothesis of
   `ScheduledKeptHolds` weaker than `OneOfTwoFaults`.

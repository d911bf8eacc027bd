------------------------------ MODULE Supervise ------------------------------
(***************************************************************************)
(* One deployment's supervise process over one durable root: the operator  *)
(* commands start, stop and restart (ops/deployment_operator.sh) and the   *)
(* host-run contract each launched child executes before it becomes the    *)
(* engine (host/host_run.sh).                                              *)
(*                                                                         *)
(* A child is a shell that runs the contract and then execs the engine in  *)
(* the same pid, so one pid is first a host shell and later a supervise.   *)
(* The only mutual exclusion is the durable pidfile                        *)
(* $DUR/.fkst-supervise.pid: it is created with O_EXCL (set -C) and        *)
(* written in a second step, and removed with rm -f by path.  The engine   *)
(* and its redb durable store are external; the store admits one opener.   *)
(***************************************************************************)
EXTENDS Naturals, FiniteSets

CONSTANTS
  Pids,             \* process identifiers a launch can receive
  NoPid,            \* "no process"
  Launchers,        \* operator invocations that may run side by side
  Commands,         \* the operator commands issued: start, stop, restart
  MaxCommands,      \* bound: operator commands issued in a behaviour
  MaxAttempts,      \* launch attempts per command (5 in the code)
  PidReuse,         \* may the kernel hand a dead pid to another process
  Overlap           \* may a host shell outlive the operator that waits for it

ASSUME SuperviseAssumption ==
  /\ NoPid \notin Pids
  /\ Commands \subseteq {"start", "stop", "restart"}
  /\ MaxCommands \in Nat
  /\ MaxAttempts \in Nat \ {0}
  /\ PidReuse \in BOOLEAN
  /\ Overlap \in BOOLEAN

VARIABLES
  proc,      \* kernel state of each pid
  at,        \* where a pid is in the host-run contract, or its role after exec
  seen,      \* the pid a host shell read from the pidfile
  replace,   \* was the host shell given --restart
  file,      \* the durable pidfile
  store,     \* pid that has the redb store open
  ready,     \* pids whose log carries both readiness markers
  busy,      \* pids whose log carries "Database already open"
  pc,        \* where an operator command is
  cmd,       \* the command an operator runs
  found,     \* what pidof_df answered
  child,     \* the pid an operator waits for
  attempt,   \* launch attempt of the command
  latest,    \* pid that writes the newest log
  issued     \* operator commands issued so far

procVars == <<proc, at, seen, replace>>
opVars == <<pc, cmd, found, child, attempt, issued>>
vars == <<procVars, file, store, ready, busy, opVars, latest>>

RestartPhases == {"restart_test", "restart_read", "restart_check",
                  "restart_kill", "restart_poll", "restart_remove"}
ClaimPhases == {"claim_test", "claim_read", "claim_check", "claim_remove",
                "claim_create", "claim_write"}
OwnPhases == {"receipt", "receipt_remove", "exec"}
HostPhases == RestartPhases \cup ClaimPhases \cup OwnPhases
\* "legacy" is a supervise started before the pidfile contract existed.
EngineRoles == {"running", "legacy"}

NoFile == [pid |-> NoPid, written |-> FALSE]
PidFiles == [pid : Pids \cup {NoPid}, written : BOOLEAN]

(* kill -0 succeeds for a process that was signalled and is not yet gone.  *)
Alive(p) == proc[p] \in {"live", "dying"}
(* host_run_pid_is_dead: a zombie is dead, EPERM is not.                   *)
PidIsDead(p) == proc[p] \in {"free", "dead"}
(* The regular expression of pidof_df matches an exec'd supervise only.    *)
Supervises == {p \in Pids : at[p] \in EngineRoles /\ Alive(p)}
LiveSupervises == {p \in Supervises : proc[p] = "live"}

-----------------------------------------------------------------------------
Fresh ==
  /\ proc = [p \in Pids |-> "free"]
  /\ at = [p \in Pids |-> "none"]
  /\ store = NoPid
  /\ ready = {}

Legacy(p) ==
  /\ proc = [q \in Pids |-> IF q = p THEN "live" ELSE "free"]
  /\ at = [q \in Pids |-> IF q = p THEN "legacy" ELSE "none"]
  /\ store = p
  /\ ready = {p}

Init ==
  /\ Fresh \/ \E p \in Pids : Legacy(p)
  /\ seen = [p \in Pids |-> NoPid]
  /\ replace = [p \in Pids |-> FALSE]
  /\ file = NoFile
  /\ busy = {}
  /\ pc = [l \in Launchers |-> "idle"]
  /\ cmd = [l \in Launchers |-> "stop"]
  /\ found = [l \in Launchers |-> {}]
  /\ child = [l \in Launchers |-> NoPid]
  /\ attempt = [l \in Launchers |-> 0]
  /\ latest = NoPid
  /\ issued = 0

-----------------------------------------------------------------------------
(* The host shell p.                                                       *)

HostAt(p, phase) == proc[p] = "live" /\ at[p] = phase

GoTo(p, phase) ==
  /\ at' = [at EXCEPT ![p] = phase]
  /\ UNCHANGED <<proc, seen, replace>>

Exit(p) ==
  /\ proc' = [proc EXCEPT ![p] = "dead"]
  /\ at' = [at EXCEPT ![p] = "none"]
  /\ UNCHANGED <<seen, replace>>

RemovePidFile == file' = NoFile

(* Argument, shape, revision and binary checks that end the contract       *)
(* before it touches the pidfile, and the second binary check before the   *)
(* claim.                                                                  *)
HostRefuses(p) ==
  /\ HostAt(p, "restart_test") \/ HostAt(p, "claim_test")
  /\ Exit(p)
  /\ UNCHANGED <<file, store, ready, busy, opVars, latest>>

RestartTest(p) ==
  /\ HostAt(p, "restart_test")
  /\ GoTo(p, IF replace[p] /\ file # NoFile THEN "restart_read" ELSE "claim_test")
  /\ UNCHANGED <<file, store, ready, busy, opVars, latest>>

(* Mutant: a malformed pidfile is taken for a stale one.                   *)
ReadPidTrustsMalformed(p, next) ==
  IF file.written
    THEN /\ seen' = [seen EXCEPT ![p] = file.pid]
         /\ at' = [at EXCEPT ![p] = next]
         /\ UNCHANGED <<proc, replace>>
    ELSE GoTo(p, "claim_remove")

(* A file that vanished since the test, or that is still empty, reads as    *)
(* the empty string and counts as malformed.                               *)
ReadPid(p, next) ==
  IF file.written
    THEN /\ seen' = [seen EXCEPT ![p] = file.pid]
         /\ at' = [at EXCEPT ![p] = next]
         /\ UNCHANGED <<proc, replace>>
    ELSE Exit(p)

RestartRead(p) ==
  /\ HostAt(p, "restart_read")
  /\ ReadPid(p, "restart_check")
  /\ UNCHANGED <<file, store, ready, busy, opVars, latest>>

RestartCheck(p) ==
  /\ HostAt(p, "restart_check")
  /\ GoTo(p, IF PidIsDead(seen[p]) THEN "restart_remove" ELSE "restart_kill")
  /\ UNCHANGED <<file, store, ready, busy, opVars, latest>>

(* kill -9 fails for a pid that is gone; the shell may be its own target.   *)
RestartKill(p) ==
  /\ HostAt(p, "restart_kill")
  /\ ~PidIsDead(seen[p])
  /\ proc' = [proc EXCEPT ![seen[p]] = "dying"]
  /\ at' = [at EXCEPT ![p] = "restart_poll"]
  /\ UNCHANGED <<seen, replace>>
  /\ UNCHANGED <<file, store, ready, busy, opVars, latest>>

RestartKillFails(p) ==
  /\ HostAt(p, "restart_kill")
  /\ PidIsDead(seen[p]) \/ proc[seen[p]] = "alien"
  /\ Exit(p)
  /\ UNCHANGED <<file, store, ready, busy, opVars, latest>>

(* Mutant: the restart does not wait for the signalled pid to be gone.     *)
RestartPollOnce(p) ==
  /\ HostAt(p, "restart_poll")
  /\ GoTo(p, "restart_remove")
  /\ UNCHANGED <<file, store, ready, busy, opVars, latest>>

RestartPoll(p) ==
  /\ HostAt(p, "restart_poll")
  /\ PidIsDead(seen[p])
  /\ GoTo(p, "restart_remove")
  /\ UNCHANGED <<file, store, ready, busy, opVars, latest>>

(* Fifty polls of a tenth of a second and the prior pid still answers.     *)
RestartPollTimeout(p) ==
  /\ HostAt(p, "restart_poll")
  /\ ~PidIsDead(seen[p])
  /\ Exit(p)
  /\ UNCHANGED <<file, store, ready, busy, opVars, latest>>

RestartRemove(p) ==
  /\ HostAt(p, "restart_remove")
  /\ RemovePidFile
  /\ GoTo(p, "claim_test")
  /\ UNCHANGED <<store, ready, busy, opVars, latest>>

ClaimTest(p) ==
  /\ HostAt(p, "claim_test")
  /\ GoTo(p, IF file # NoFile THEN "claim_read" ELSE "claim_create")
  /\ UNCHANGED <<file, store, ready, busy, opVars, latest>>

ClaimRead(p) ==
  /\ HostAt(p, "claim_read")
  /\ ReadPid(p, "claim_check")
  /\ UNCHANGED <<file, store, ready, busy, opVars, latest>>

(* Mutant: the claim replaces whatever pidfile it finds.                   *)
ClaimCheckSkipsLiveness(p) ==
  /\ HostAt(p, "claim_check")
  /\ GoTo(p, "claim_remove")
  /\ UNCHANGED <<file, store, ready, busy, opVars, latest>>

ClaimCheck(p) ==
  /\ HostAt(p, "claim_check")
  /\ IF PidIsDead(seen[p]) THEN GoTo(p, "claim_remove") ELSE Exit(p)
  /\ UNCHANGED <<file, store, ready, busy, opVars, latest>>

ClaimRemove(p) ==
  /\ HostAt(p, "claim_remove")
  /\ RemovePidFile
  /\ GoTo(p, "claim_create")
  /\ UNCHANGED <<store, ready, busy, opVars, latest>>

(* set -C: the open is exclusive; the pid is written by a later write.     *)
ClaimCreate(p) ==
  /\ HostAt(p, "claim_create")
  /\ IF file = NoFile
       THEN /\ file' = [pid |-> p, written |-> FALSE]
            /\ GoTo(p, "claim_write")
       ELSE /\ Exit(p)
            /\ UNCHANGED file
  /\ UNCHANGED <<store, ready, busy, opVars, latest>>

(* The write goes to the inode p created; if the path was removed or       *)
(* recreated meanwhile, the path's file does not change.                   *)
ClaimWrite(p) ==
  /\ HostAt(p, "claim_write")
  /\ file' = IF file.pid = p THEN [file EXCEPT !.written = TRUE] ELSE file
  /\ GoTo(p, "receipt")
  /\ UNCHANGED <<store, ready, busy, opVars, latest>>

ReceiptCheck(p) ==
  /\ HostAt(p, "receipt")
  /\ \E matches \in BOOLEAN : GoTo(p, IF matches THEN "exec" ELSE "receipt_remove")
  /\ UNCHANGED <<file, store, ready, busy, opVars, latest>>

ReceiptRemove(p) ==
  /\ HostAt(p, "receipt_remove")
  /\ RemovePidFile
  /\ Exit(p)
  /\ UNCHANGED <<store, ready, busy, opVars, latest>>

Exec(p) ==
  /\ HostAt(p, "exec")
  /\ GoTo(p, "running")
  /\ UNCHANGED <<file, store, ready, busy, opVars, latest>>

HostStep(p) ==
  \/ HostRefuses(p)
  \/ RestartTest(p) \/ RestartRead(p) \/ RestartCheck(p)
  \/ RestartKill(p) \/ RestartKillFails(p)
  \/ RestartPoll(p) \/ RestartPollTimeout(p) \/ RestartRemove(p)
  \/ ClaimTest(p) \/ ClaimRead(p) \/ ClaimCheck(p) \/ ClaimRemove(p)
  \/ ClaimCreate(p) \/ ClaimWrite(p)
  \/ ReceiptCheck(p) \/ ReceiptRemove(p) \/ Exec(p)

-----------------------------------------------------------------------------
(* The engine, the kernel and the outside world.                           *)

(* The loser of the redb lock logs "Database already open" and exits.      *)
OpenStore(p) ==
  /\ HostAt(p, "running") /\ store # p
  /\ IF store = NoPid
       THEN /\ store' = p
            /\ UNCHANGED <<procVars, busy>>
       ELSE /\ busy' = busy \cup {p}
            /\ Exit(p)
            /\ UNCHANGED store
  /\ UNCHANGED <<file, ready, opVars, latest>>

EmitReady(p) ==
  /\ HostAt(p, "running") /\ store = p /\ p \notin ready
  /\ ready' = ready \cup {p}
  /\ UNCHANGED <<procVars, file, store, busy, opVars, latest>>

(* Any process may die at any moment.                                      *)
Crash(p) ==
  /\ proc[p] = "live" /\ at[p] # "none"
  /\ Exit(p)
  /\ UNCHANGED <<file, store, ready, busy, opVars, latest>>

FinishDying(p) ==
  /\ proc[p] = "dying"
  /\ Exit(p)
  /\ UNCHANGED <<file, store, ready, busy, opVars, latest>>

(* "That kill does not always release the redb lock in time."              *)
ReleaseStore ==
  /\ store # NoPid /\ ~Alive(store)
  /\ store' = NoPid
  /\ UNCHANGED <<procVars, file, ready, busy, opVars, latest>>

(* A dead pid is given to a process of somebody else.                      *)
Recycle(p) ==
  /\ PidReuse /\ proc[p] = "dead"
  /\ proc' = [proc EXCEPT ![p] = "alien"]
  /\ UNCHANGED <<at, seen, replace, file, store, ready, busy, opVars, latest>>

World(p) ==
  OpenStore(p) \/ EmitReady(p) \/ Crash(p) \/ FinishDying(p) \/ Recycle(p)

-----------------------------------------------------------------------------
(* The operator l.                                                         *)

OpAt(l, where) == pc[l] = where

OpGoTo(l, where) ==
  /\ pc' = [pc EXCEPT ![l] = where]
  /\ UNCHANGED <<cmd, child, issued>>

FirstStep(c) ==
  CASE c = "start"   -> "start_look"
    [] c = "stop"    -> "stop_look"
    [] c = "restart" -> "bridge"

Issue(l, c) ==
  /\ OpAt(l, "idle") /\ issued < MaxCommands
  /\ issued' = issued + 1
  /\ cmd' = [cmd EXCEPT ![l] = c]
  /\ pc' = [pc EXCEPT ![l] = FirstStep(c)]
  /\ attempt' = [attempt EXCEPT ![l] = 1]
  /\ UNCHANGED <<found, child>>
  /\ UNCHANGED <<procVars, file, store, ready, busy, latest>>

(* pgrep reads a process that is being torn down as present or absent.     *)
PidofDf(answer) == LiveSupervises \subseteq answer /\ answer \subseteq Supervises

StartLook(l) ==
  /\ OpAt(l, "start_look")
  /\ \E answer \in SUBSET Supervises :
       /\ PidofDf(answer)
       /\ OpGoTo(l, IF answer = {} THEN "launch" ELSE "idle")
  /\ UNCHANGED <<found, attempt>>
  /\ UNCHANGED <<procVars, file, store, ready, busy, latest>>

(* restart stops a supervise by name only when no pidfile exists yet.      *)
RestartBridge(l) ==
  /\ OpAt(l, "bridge")
  /\ OpGoTo(l, IF file = NoFile THEN "stop_look" ELSE "launch")
  /\ UNCHANGED <<found, attempt>>
  /\ UNCHANGED <<procVars, file, store, ready, busy, latest>>

AfterStop(l) == IF cmd[l] = "restart" THEN "launch" ELSE "idle"

StopLook(l) ==
  /\ OpAt(l, "stop_look")
  /\ \E answer \in SUBSET Supervises :
       /\ PidofDf(answer)
       /\ found' = [found EXCEPT ![l] = answer]
       /\ OpGoTo(l, IF answer = {} THEN AfterStop(l) ELSE "stop_kill")
  /\ UNCHANGED attempt
  /\ UNCHANGED <<procVars, file, store, ready, busy, latest>>

(* kill -9 "$p" takes one pid: several matches form one invalid argument,   *)
(* and a pid that is gone cannot be signalled.                             *)
StopKill(l) ==
  /\ OpAt(l, "stop_kill")
  /\ OpGoTo(l, AfterStop(l))
  /\ proc' = [p \in Pids |-> IF found[l] = {p} /\ ~PidIsDead(p) THEN "dying" ELSE proc[p]]
  /\ UNCHANGED <<at, seen, replace, found, attempt>>
  /\ UNCHANGED <<file, store, ready, busy, latest>>

(* Everything launch_one does before the spawn may fail.                   *)
LaunchAborts(l) ==
  /\ OpAt(l, "launch")
  /\ OpGoTo(l, "retry")
  /\ UNCHANGED <<found, attempt>>
  /\ UNCHANGED <<procVars, file, store, ready, busy, latest>>

Assignable(p) == proc[p] = "free" \/ (PidReuse /\ proc[p] = "dead")

Spawn(l, p) ==
  /\ OpAt(l, "launch") /\ Assignable(p)
  /\ proc' = [proc EXCEPT ![p] = "live"]
  /\ at' = [at EXCEPT ![p] = "restart_test"]
  /\ seen' = [seen EXCEPT ![p] = NoPid]
  /\ replace' = [replace EXCEPT ![p] = (cmd[l] = "restart")]
  /\ ready' = ready \ {p}
  /\ busy' = busy \ {p}
  /\ latest' = p
  /\ child' = [child EXCEPT ![l] = p]
  /\ pc' = [pc EXCEPT ![l] = "waiting"]
  /\ UNCHANGED <<cmd, found, attempt, issued, file, store>>

(* pid_alive_non_zombie only asks whether some process has the pid.        *)
ChildAlive(l) == ~PidIsDead(child[l])

WaitReady(l) ==
  /\ OpAt(l, "waiting") /\ ChildAlive(l) /\ child[l] \in ready
  /\ OpGoTo(l, "idle")
  /\ UNCHANGED <<found, attempt>>
  /\ UNCHANGED <<procVars, file, store, ready, busy, latest>>

WaitExited(l) ==
  /\ OpAt(l, "waiting") /\ ~ChildAlive(l)
  /\ OpGoTo(l, "retry")
  /\ UNCHANGED <<found, attempt>>
  /\ UNCHANGED <<procVars, file, store, ready, busy, latest>>

(* 600 samples without the markers: the child is left alive.  Without      *)
(* Overlap its host shell has finished the contract by then.               *)
WaitTimeout(l) ==
  /\ OpAt(l, "waiting") /\ ChildAlive(l) /\ child[l] \notin ready
  /\ Overlap \/ at[child[l]] \notin HostPhases
  /\ OpGoTo(l, "retry")
  /\ UNCHANGED <<found, attempt>>
  /\ UNCHANGED <<procVars, file, store, ready, busy, latest>>

(* ls -t names the log written last: the newest launch's, or that of a     *)
(* supervise still running.                                                *)
NewestLogs == {latest} \cup Supervises

(* Mutant: one attempt too many.                                           *)
RetryOnceMore(l) ==
  /\ OpAt(l, "retry")
  /\ \E newest \in NewestLogs :
       IF attempt[l] <= MaxAttempts /\ newest \in busy
         THEN /\ attempt' = [attempt EXCEPT ![l] = @ + 1]
              /\ OpGoTo(l, "launch")
         ELSE /\ UNCHANGED attempt
              /\ OpGoTo(l, "idle")
  /\ UNCHANGED found
  /\ UNCHANGED <<procVars, file, store, ready, busy, latest>>

(* Mutant: the attempt counter is never advanced.                          *)
RetryUncounted(l) ==
  /\ OpAt(l, "retry")
  /\ \E newest \in NewestLogs :
       OpGoTo(l, IF attempt[l] < MaxAttempts /\ newest \in busy THEN "launch" ELSE "idle")
  /\ UNCHANGED <<found, attempt>>
  /\ UNCHANGED <<procVars, file, store, ready, busy, latest>>

Retry(l) ==
  /\ OpAt(l, "retry")
  /\ \E newest \in NewestLogs :
       IF attempt[l] < MaxAttempts /\ newest \in busy
         THEN /\ attempt' = [attempt EXCEPT ![l] = @ + 1]
              /\ OpGoTo(l, "launch")
         ELSE /\ UNCHANGED attempt
              /\ OpGoTo(l, "idle")
  /\ UNCHANGED found
  /\ UNCHANGED <<procVars, file, store, ready, busy, latest>>

(* The operator is killed, or its session ends, while the child goes on.    *)
OperatorDies(l) ==
  /\ Overlap /\ ~OpAt(l, "idle")
  /\ OpGoTo(l, "idle")
  /\ UNCHANGED <<found, attempt>>
  /\ UNCHANGED <<procVars, file, store, ready, busy, latest>>

OpStep(l) ==
  \/ StartLook(l) \/ RestartBridge(l) \/ StopLook(l) \/ StopKill(l)
  \/ LaunchAborts(l) \/ (\E p \in Pids : Spawn(l, p))
  \/ WaitReady(l) \/ WaitExited(l) \/ WaitTimeout(l) \/ Retry(l)

Next ==
  \/ \E p \in Pids : HostStep(p) \/ World(p)
  \/ ReleaseStore
  \/ \E l \in Launchers : OpStep(l) \/ OperatorDies(l)
  \/ \E l \in Launchers, c \in Commands : Issue(l, c)

Spec == Init /\ [][Next]_vars

(* The shells and the operators are scheduled; a signalled process dies.   *)
FairSpec ==
  /\ Spec
  /\ \A p \in Pids : WF_vars(HostStep(p)) /\ WF_vars(FinishDying(p))
  /\ \A l \in Launchers : WF_vars(OpStep(l))

-----------------------------------------------------------------------------
(* Every variable stays in its domain; in particular no command makes more *)
(* than MaxAttempts launch attempts (launch_with_lock_retry).              *)
TypeOK ==
  /\ proc \in [Pids -> {"free", "live", "dying", "dead", "alien"}]
  /\ at \in [Pids -> HostPhases \cup EngineRoles \cup {"none"}]
  /\ seen \in [Pids -> Pids \cup {NoPid}]
  /\ replace \in [Pids -> BOOLEAN]
  /\ file \in PidFiles
  /\ store \in Pids \cup {NoPid}
  /\ ready \subseteq Pids
  /\ busy \subseteq Pids
  /\ pc \in [Launchers -> {"idle", "start_look", "bridge", "stop_look",
                           "stop_kill", "launch", "waiting", "retry"}]
  /\ cmd \in [Launchers -> {"start", "stop", "restart"}]
  /\ found \in [Launchers -> SUBSET Pids]
  /\ child \in [Launchers -> Pids \cup {NoPid}]
  /\ attempt \in [Launchers -> 0..MaxAttempts]
  /\ latest \in Pids \cup {NoPid}
  /\ issued \in 0..MaxCommands

(* p won the pidfile claim and is still there: it is about to become, or is, *)
(* the supervise of this durable root.                                     *)
PastClaim(p) == at[p] \in OwnPhases \cup {"running"} /\ Alive(p)

(* SPEC.md: "The current host-run implementation has PID-file exclusion":  *)
(* no two processes are past the claim at once, so none is started before  *)
(* the one it replaces is gone for good.                                   *)
PidFileExclusion ==
  \A p, q \in Pids : PastClaim(p) /\ PastClaim(q) => p = q

(* The pidfile names the supervise: a later restart finds the process it   *)
(* has to replace, also after crashes, stops and failed launches.          *)
PidFileNamesSupervise ==
  \A p \in Pids : PastClaim(p) => file = [pid |-> p, written |-> TRUE]

(* SPEC.md: "Malformed PID files fail closed".  An empty pidfile whose     *)
(* creator died between the create and the write is never removed or       *)
(* overwritten by a later launch, with or without --restart.               *)
Malformed == file # NoFile /\ ~file.written
MalformedFailsClosed ==
  [][Malformed /\ ~Alive(file.pid) => UNCHANGED file]_vars

(* Every command comes back to the operator's prompt, whatever the races   *)
(* between launchers: refusals, kills, lost store locks and retries end.   *)
CommandsTerminate ==
  \A l \in Launchers : ~OpAt(l, "idle") ~> OpAt(l, "idle")
=============================================================================

---------------------------- MODULE ProcessProbe ----------------------------
(***************************************************************************)
(* The probe of one deployment's supervise process                         *)
(* (ops/deployment_process.py).  It reads the pidfile, asks the kernel     *)
(* about the pid, or about the pids pgrep finds when there is no pidfile,  *)
(* and reads the pidfile again; meanwhile host shells claim the pidfile    *)
(* and become the supervise, the pidfile goes, processes die, linger as    *)
(* zombies and leave their pids to others.  The kernel's answer about a pid*)
(* is two reads: its state and start time, then its arguments.  How a host *)
(* shell launches is the module Supervise; here it is the probe's world.   *)
(***************************************************************************)
EXTENDS FiniteSets, Naturals

CONSTANTS
  Pids, NoPid, Malformed,
  MaxBirths, MaxLosses, MaxProbes \* bounds: processes started, pidfiles lost, probes made

ASSUME ProcessProbeAssumption ==
  /\ NoPid \notin Pids /\ Malformed \notin Pids \cup {NoPid}
  /\ MaxBirths \in Nat /\ MaxLosses \in Nat /\ MaxProbes \in Nat

Kinds == {"shell", "owner", "supervise", "other", "zombie", "none"}
(* Of a pid: its process runs the supervise, the pidfile does not name     *)
(* another, it names the supervise that runs.                              *)
Claimings == Pids \X {"runs", "agrees", "named"}

VARIABLES
  proc,      \* the process of each pid
  young,     \* pids whose process began after the probe took its time
  pidfile,
  births, losses, probes,
  stage,     \* where the probe is
  claimed,   \* the pid it read
  candidates, \* what pgrep found and it has not asked the kernel about
  asking,    \* the pid it is asking the kernel about
  selected,  \* candidates that are the supervise
  superviseSeen, superviseKept, processAnswer \* history and answer

world == <<proc, young, pidfile, births, losses>>
local == <<stage, claimed, candidates, asking, selected>>
processVars == <<world, probes, local, superviseSeen, superviseKept, processAnswer>>

Claims(q, f) ==
  {c \in Claimings :
     /\ c[2] \in {"runs", "named"} => q[c[1]] = "supervise"
     /\ c[2] = "agrees" => f \in {c[1], NoPid}
     /\ c[2] = "named" => f = c[1]}
Supervises == Claims(proc, pidfile)

ProcessInit ==
  /\ proc \in [Pids -> {"none", "shell", "owner", "supervise"}]
  /\ pidfile \in Pids \cup {NoPid, Malformed}
  /\ young = {} /\ births = 0 /\ losses = 0 /\ probes = 0
  /\ stage = "idle" /\ claimed = NoPid /\ candidates = {} /\ asking = NoPid /\ selected = {}
  /\ superviseSeen = Supervises /\ superviseKept = Supervises /\ processAnswer = "none"

-----------------------------------------------------------------------------
(* The host.                                                               *)
Now(q, f) ==
  /\ proc' = q /\ pidfile' = f
  /\ superviseSeen' = superviseSeen \cup Claims(q, f) /\ superviseKept' = superviseKept \cap Claims(q, f)
  /\ UNCHANGED <<probes, local, processAnswer>>
Born(p) ==
  /\ proc[p] = "none" /\ births < MaxBirths
  /\ births' = births + 1 /\ young' = young \cup {p}
  /\ \E k \in {"shell", "other"} : Now([proc EXCEPT ![p] = k], pidfile)
  /\ UNCHANGED losses
(* host_run_claim_supervise_slot creates the pidfile where there is none.  *)
Claim(p) ==
  /\ proc[p] = "shell" /\ pidfile = NoPid
  /\ Now([proc EXCEPT ![p] = "owner"], p)
  /\ UNCHANGED <<young, births, losses>>
(* The exec, whatever became of the pidfile since.                         *)
Become(p) ==
  /\ proc[p] = "owner"
  /\ Now([proc EXCEPT ![p] = "supervise"], pidfile)
  /\ UNCHANGED <<young, births, losses>>
Ends(p) ==
  /\ proc[p] # "none"
  /\ \E k \in {"none", "zombie"} \ {proc[p]} : Now([proc EXCEPT ![p] = k], pidfile)
  /\ UNCHANGED <<young, births, losses>>
(* Removed by path: by a host shell that judged its pid dead, some time    *)
(* ago, by a restart, a receipt that does not match, or by hand.  Or not   *)
(* written yet, or cut short by the death of its writer.                   *)
LosePidfile ==
  /\ losses < MaxLosses /\ losses' = losses + 1
  /\ \E f \in {NoPid, Malformed} \ {pidfile} : Now(proc, f)
  /\ UNCHANGED <<young, births>>

-----------------------------------------------------------------------------
(* probe_deployment_process.                                               *)
AnswerProcess(v) ==
  /\ processAnswer' = v /\ stage' = "idle"
  /\ claimed' = NoPid /\ candidates' = {} /\ asking' = NoPid /\ selected' = {}
Continue(s) == stage' = s /\ UNCHANGED processAnswer

BeginProcess ==
  /\ stage = "idle" /\ probes < MaxProbes
  /\ probes' = probes + 1
  /\ stage' = "claim" /\ processAnswer' = "none" /\ young' = {}
  /\ superviseSeen' = Supervises /\ superviseKept' = Supervises
  /\ UNCHANGED <<proc, pidfile, births, losses, claimed, candidates, asking, selected>>

ReadClaim ==
  /\ stage = "claim"
  /\ \/ pidfile = Malformed /\ AnswerProcess("unknown")
     \/ /\ pidfile = NoPid /\ Continue("find")
        /\ UNCHANGED <<claimed, candidates, asking, selected>>
     \/ /\ pidfile \in Pids
        /\ claimed' = pidfile /\ asking' = pidfile /\ Continue("state")
        /\ UNCHANGED <<candidates, selected>>
  /\ UNCHANGED <<world, probes, superviseSeen, superviseKept>>

(* pgrep -f.                                                               *)
FindExact ==
  /\ stage = "find"
  /\ LET found == {p \in Pids : proc[p] = "supervise"} IN
       IF found = {} THEN AnswerProcess("absent")
       ELSE /\ candidates' = found /\ Continue("next")
            /\ UNCHANGED <<claimed, asking, selected>>
  /\ UNCHANGED <<world, probes, superviseSeen, superviseKept>>

NextCandidate ==
  /\ stage = "next"
  /\ \/ \E p \in candidates :
          /\ asking' = p /\ candidates' = candidates \ {p} /\ Continue("state")
          /\ UNCHANGED <<claimed, selected>>
     \/ candidates = {} /\ selected = {} /\ AnswerProcess("absent")
     \/ candidates = {} /\ Cardinality(selected) = 1 /\ AnswerProcess("present")
     \/ candidates = {} /\ Cardinality(selected) > 1 /\ AnswerProcess("unknown")
  /\ UNCHANGED <<world, probes, superviseSeen, superviseKept>>

Gone ==
  IF claimed # NoPid THEN AnswerProcess("absent")
  ELSE Continue("next") /\ UNCHANGED <<claimed, candidates, asking, selected>>
InspectState ==
  /\ stage = "state"
  /\ \/ proc[asking] \in {"none", "zombie"} /\ Gone
     \/ /\ proc[asking] \notin {"none", "zombie"}
        /\ Continue(IF asking \in young THEN "young" ELSE "argv")
        /\ UNCHANGED <<claimed, candidates, asking, selected>>
  /\ UNCHANGED <<world, probes, superviseSeen, superviseKept>>

InspectArgvAny == \* a faulty variant: the pid is enough
  /\ stage \in {"argv", "young"}
  /\ IF proc[asking] = "none" THEN Gone
     ELSE IF claimed # NoPid THEN Continue("again") /\ UNCHANGED <<claimed, candidates, asking, selected>>
     ELSE Continue("next") /\ selected' = selected \cup {asking} /\ UNCHANGED <<claimed, candidates, asking>>
  /\ UNCHANGED <<world, probes, superviseSeen, superviseKept>>
(* A zombie has no arguments to read, which the instrument reports; a      *)
(* process that began after the probe took its time is refused.            *)
InspectArgv ==
  /\ stage \in {"argv", "young"}
  /\ \/ proc[asking] = "none" /\ Gone
     \/ /\ proc[asking] \in {"zombie", "shell", "owner", "other"} \/ (proc[asking] # "none" /\ stage = "young")
        /\ AnswerProcess("unknown")
     \/ /\ proc[asking] = "supervise" /\ stage = "argv"
        /\ IF claimed # NoPid THEN Continue("again") /\ UNCHANGED selected
           ELSE Continue("next") /\ selected' = selected \cup {asking}
        /\ UNCHANGED <<claimed, candidates, asking>>
  /\ UNCHANGED <<world, probes, superviseSeen, superviseKept>>

ReadAgainNever == \* a faulty variant: one read of the pidfile is enough
  /\ stage = "again" /\ AnswerProcess("present")
  /\ UNCHANGED <<world, probes, superviseSeen, superviseKept>>
ReadAgain ==
  /\ stage = "again"
  /\ AnswerProcess(IF pidfile = claimed THEN "present" ELSE "unknown")
  /\ UNCHANGED <<world, probes, superviseSeen, superviseKept>>

(* pgrep, the kernel or the file system refuses.                           *)
InstrumentFailure ==
  /\ stage \in {"claim", "find", "state", "argv", "young", "again"}
  /\ AnswerProcess("unknown")
  /\ UNCHANGED <<world, probes, superviseSeen, superviseKept>>

Probe ==
  \/ BeginProcess \/ ReadClaim \/ FindExact \/ NextCandidate \/ InspectState \/ InspectArgv
  \/ ReadAgain \/ InstrumentFailure
ProcessNext ==
  \/ \E p \in Pids : Born(p) \/ Claim(p) \/ Become(p) \/ Ends(p)
  \/ LosePidfile \/ Probe
ProcessSpec == ProcessInit /\ [][ProcessNext]_processVars

-----------------------------------------------------------------------------
ProcessTypeOK ==
  /\ proc \in [Pids -> Kinds] /\ young \subseteq Pids
  /\ pidfile \in Pids \cup {NoPid, Malformed}
  /\ births \in 0..MaxBirths /\ losses \in 0..MaxLosses /\ probes \in 0..MaxProbes
  /\ stage \in {"idle", "claim", "find", "next", "state", "argv", "young", "again"}
  /\ claimed \in Pids \cup {NoPid} /\ asking \in Pids \cup {NoPid}
  /\ candidates \subseteq Pids /\ selected \subseteq Pids
  /\ superviseSeen \subseteq Claimings /\ superviseKept \subseteq Claimings
  /\ processAnswer \in {"none", "present", "absent", "unknown"}

(* The probe is an observation: it answers `present' only if of one pid the *)
(* supervise ran and the pidfile named no other, each at some instant of   *)
(* the probe, and `absent' only if of no pid both were so all the time.    *)
ProcessObservation == INSTANCE Observation WITH Things <- Claimings, holds <- Supervises,
  Evidence <- {{<<p, "runs">>, <<p, "agrees">>} : p \in Pids},
  seen <- superviseSeen, kept <- superviseKept, answer <- processAnswer
ProcessEvidence == ProcessObservation!Spec
(* An answer `present' for the pid of the pidfile says more, unless that   *)
(* pid changed hands meanwhile: at one instant of the probe the supervise  *)
(* ran and the pidfile named it.                                           *)
PresentWasClaimed ==
  [][processAnswer # "present" /\ processAnswer' = "present" /\ claimed \in Pids \ young
       => <<claimed, "named">> \in superviseSeen]_processVars
=============================================================================

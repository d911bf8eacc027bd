------------------------------ MODULE HostTools ------------------------------
(***************************************************************************)
(* The tools that share no state with one another, side by side in one     *)
(* state graph: `which' says whose behaviour it is, and the others rest in *)
(* an initial state of theirs.  Every property of a tool is a definition   *)
(* of its own module.                                                      *)
(***************************************************************************)
EXTENDS EngineBuild, BranchCheckout, Declaration, Credentials,
        ProcessProbe, ActivityProbe, FactProbe, Board

VARIABLE which

probeVars == <<processVars, activityVars, factVars>>
vars == <<which, buildVars, branchVars, generateVars, credentialVars, probeVars, boardVars>>

-----------------------------------------------------------------------------
(* A tool that rests.                                                      *)
BranchRests == BranchInit /\ tips = Absent
GenerateRests == GenerateInit /\ files = CHOOSE i \in Inputs : TRUE
CredentialRests ==
  /\ CredentialInit
  /\ source = "github-app" /\ target = [c \in Calls |-> CHOOSE g \in Targets : TRUE]
ProcessRests == ProcessInit /\ proc = [p \in Pids |-> "none"] /\ pidfile = NoPid
ActivityRests == ActivityInit /\ dirs = {}
FactRests == FactInit /\ subject = "entity" /\ document = None
ProbesRest == ProcessRests /\ ActivityRests /\ FactRests
BoardRests == BoardInit /\ engine = CHOOSE o \in Observations : TRUE

Init ==
  /\ BuildInit
  /\ \/ which = "build" /\ BranchRests /\ GenerateRests /\ CredentialRests /\ ProbesRest /\ BoardRests
     \/ which = "branch" /\ BranchInit /\ GenerateRests /\ CredentialRests /\ ProbesRest /\ BoardRests
     \/ which = "generate" /\ GenerateInit /\ BranchRests /\ CredentialRests /\ ProbesRest /\ BoardRests
     \/ which = "credential" /\ CredentialInit /\ BranchRests /\ GenerateRests /\ ProbesRest /\ BoardRests
     \/ which = "process" /\ ProcessInit /\ BranchRests /\ GenerateRests /\ CredentialRests
          /\ ActivityRests /\ FactRests /\ BoardRests
     \/ which = "activity" /\ ActivityInit /\ BranchRests /\ GenerateRests /\ CredentialRests
          /\ ProcessRests /\ FactRests /\ BoardRests
     \/ which = "fact" /\ FactInit /\ BranchRests /\ GenerateRests /\ CredentialRests
          /\ ProcessRests /\ ActivityRests /\ BoardRests
     \/ which = "board" /\ BoardInit /\ BranchRests /\ GenerateRests /\ CredentialRests /\ ProbesRest

Next ==
  /\ UNCHANGED which
  /\ \/ /\ which = "build" /\ BuildNext
        /\ UNCHANGED <<branchVars, generateVars, credentialVars, probeVars, boardVars>>
     \/ /\ which = "branch" /\ BranchNext
        /\ UNCHANGED <<buildVars, generateVars, credentialVars, probeVars, boardVars>>
     \/ /\ which = "generate" /\ GenerateNext
        /\ UNCHANGED <<buildVars, branchVars, credentialVars, probeVars, boardVars>>
     \/ /\ which = "credential" /\ CredentialNext
        /\ UNCHANGED <<buildVars, branchVars, generateVars, probeVars, boardVars>>
     \/ /\ which = "process" /\ ProcessNext
        /\ UNCHANGED <<buildVars, branchVars, generateVars, credentialVars, activityVars, factVars, boardVars>>
     \/ /\ which = "activity" /\ ActivityNext
        /\ UNCHANGED <<buildVars, branchVars, generateVars, credentialVars, processVars, factVars, boardVars>>
     \/ /\ which = "fact" /\ FactNext
        /\ UNCHANGED <<buildVars, branchVars, generateVars, credentialVars, processVars, activityVars, boardVars>>
     \/ /\ which = "board" /\ BoardNext
        /\ UNCHANGED <<buildVars, branchVars, generateVars, credentialVars, probeVars>>

Spec == Init /\ [][Next]_vars
(* Of all the tools only builds are asked whether they end.                *)
FairSpec == Spec /\ \A p \in Processes : WF_buildVars(which = "build" /\ Step(p))

-----------------------------------------------------------------------------
(* Every variable of the tool whose behaviour it is stays in its domain.   *)
TypeOK ==
  /\ which = "build" => BuildTypeOK
  /\ which = "branch" => BranchTypeOK
  /\ which = "generate" => GenerateTypeOK
  /\ which = "credential" => CredentialTypeOK
  /\ which = "process" => ProcessTypeOK
  /\ which = "activity" => ActivityTypeOK
  /\ which = "fact" => FactTypeOK
  /\ which = "board" => BoardTypeOK
=============================================================================

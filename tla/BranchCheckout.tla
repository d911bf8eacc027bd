--------------------------- MODULE BranchCheckout ---------------------------
(***************************************************************************)
(* The branch checkouts a hydration makes or refreshes                     *)
(* (watch/source_hydration.py), while people commit in them and push to    *)
(* the remote.  There is no lock.  A checkout is the tip of each of its    *)
(* branches: how much of the remote's history it has (`at') and how many   *)
(* commits of its own (`own').                                             *)
(***************************************************************************)
EXTENDS Naturals

CONSTANTS
  Refreshers,  \* hydrations
  Branches, Run, \* branches of a checkout, and the declared one
  Absent,
  MaxPush, MaxOwn, MaxSwitch \* bounds: pushes, own commits of a branch, switches of branch

Tips == [at : 0..MaxPush, own : 0..MaxOwn]

ASSUME CheckoutAssumption ==
  /\ Run \in Branches /\ MaxPush \in Nat /\ MaxOwn \in Nat /\ MaxSwitch \in Nat
  /\ Absent \notin [Branches -> Tips]

VARIABLES
  remote,   \* commits of the declared branch at the declared source
  tips,     \* the checkout at the destination: its branches, or Absent
  onBranch, \* the branch that is checked out
  declaredOrigin, \* is its origin the declared source
  tracking, \* refs/remotes/origin/<branch> in the checkout
  place,    \* where a hydration is
  clone,    \* its temporary clone
  since,    \* remote when it began
  switches

theirs == <<tips, onBranch, declaredOrigin, tracking>>
mine == <<place, clone, since>>
branchVars == <<remote, theirs, mine, switches>>

BranchInit ==
  /\ remote = 0 /\ tracking = 0 /\ switches = 0
  /\ \/ tips = Absent /\ onBranch = Run /\ declaredOrigin = TRUE
     \/ /\ tips = [b \in Branches |-> [at |-> 0, own |-> 0]]
        /\ onBranch \in Branches /\ declaredOrigin \in BOOLEAN
  /\ place = [h \in Refreshers |-> "idle"]
  /\ clone = [h \in Refreshers |-> Absent]
  /\ since = [h \in Refreshers |-> 0]

In(h, s) == place[h] = s
Move(h, s) == place' = [place EXCEPT ![h] = s]

-----------------------------------------------------------------------------
(* _branch_checkout_valid: on the branch, and the remote's tip is in it.   *)
Valid == onBranch = Run /\ tracking <= tips[Run].at
Behind == tips[onBranch].own = 0 /\ tips[onBranch].at <= tracking

Start(h) ==
  /\ In(h, "idle") /\ Move(h, "look")
  /\ since' = [since EXCEPT ![h] = remote]
  /\ UNCHANGED <<remote, theirs, clone, switches>>

Exists(h) ==
  /\ In(h, "look")
  /\ IF tips = Absent THEN Move(h, "clone")
     ELSE Move(h, IF declaredOrigin /\ onBranch = Run THEN "fetch" ELSE "failed")
  /\ UNCHANGED <<remote, theirs, clone, since, switches>>

FetchNothing(h) == \* a faulty variant: what was fetched earlier will do
  /\ In(h, "fetch") /\ tips # Absent /\ Move(h, "compare")
  /\ UNCHANGED <<remote, theirs, clone, since, switches>>
Fetch(h) ==
  /\ In(h, "fetch") /\ tips # Absent
  /\ tracking' = remote
  /\ Move(h, "compare")
  /\ UNCHANGED <<remote, tips, onBranch, declaredOrigin, clone, since, switches>>

Compare(h) ==
  /\ In(h, "compare")
  /\ Move(h, IF Valid THEN "done" ELSE IF Behind THEN "merge" ELSE "valid")
  /\ UNCHANGED <<remote, theirs, clone, since, switches>>

MergeForced(h) == \* a faulty variant: reset instead of merge
  /\ In(h, "merge")
  /\ tips' = [tips EXCEPT ![onBranch] = [at |-> tracking, own |-> 0]] /\ Move(h, "valid")
  /\ UNCHANGED <<remote, onBranch, declaredOrigin, tracking, clone, since, switches>>
(* merge --ff-only, into whatever branch is checked out by now.            *)
FastForward(h) ==
  /\ In(h, "merge")
  /\ \/ Behind /\ tips' = [tips EXCEPT ![onBranch].at = tracking] /\ Move(h, "valid")
     \/ tracking <= tips[onBranch].at /\ UNCHANGED tips /\ Move(h, "valid")
     \/ ~Behind /\ tracking > tips[onBranch].at /\ UNCHANGED tips /\ Move(h, "failed")
  /\ UNCHANGED <<remote, onBranch, declaredOrigin, tracking, clone, since, switches>>

Confirm(h) ==
  /\ In(h, "valid")
  /\ Move(h, IF Valid THEN "done" ELSE "failed")
  /\ UNCHANGED <<remote, theirs, clone, since, switches>>

(* A clone has a branch of the remote's tip; os.replace does not put it    *)
(* over a directory that is not empty, and the clone is then removed.      *)
Clone(h) ==
  /\ In(h, "clone")
  /\ clone' = [clone EXCEPT ![h] = remote] /\ Move(h, "place")
  /\ UNCHANGED <<remote, theirs, since, switches>>
Place(h) ==
  /\ In(h, "place")
  /\ clone' = [clone EXCEPT ![h] = Absent]
  /\ IF tips = Absent
       THEN /\ tips' = [b \in Branches |-> [at |-> IF b = Run THEN clone[h] ELSE 0, own |-> 0]]
            /\ onBranch' = Run /\ tracking' = clone[h] /\ Move(h, "done")
       ELSE Move(h, "failed") /\ UNCHANGED <<tips, onBranch, tracking>>
  /\ UNCHANGED <<remote, declaredOrigin, since, switches>>

(* Git fails, or the process dies; what was cloned so far is removed.      *)
GitFails(h) ==
  /\ place[h] \in {"look", "fetch", "compare", "merge", "valid", "clone", "place"}
  /\ Move(h, "failed") /\ clone' = [clone EXCEPT ![h] = Absent]
  /\ UNCHANGED <<remote, theirs, since, switches>>

Refresh(h) ==
  GitFails(h) \/
  Start(h) \/ Exists(h) \/ Fetch(h) \/ Compare(h) \/ FastForward(h) \/ Confirm(h) \/ Clone(h) \/ Place(h)

-----------------------------------------------------------------------------
(* People.                                                                 *)
Push == remote < MaxPush /\ remote' = remote + 1 /\ UNCHANGED <<theirs, mine, switches>>
Commit ==
  /\ tips # Absent /\ tips[onBranch].own < MaxOwn
  /\ tips' = [tips EXCEPT ![onBranch].own = @ + 1]
  /\ UNCHANGED <<remote, onBranch, declaredOrigin, tracking, mine, switches>>
Switch ==
  /\ tips # Absent /\ switches < MaxSwitch
  /\ switches' = switches + 1
  /\ onBranch' \in Branches \ {onBranch}
  /\ UNCHANGED <<remote, tips, declaredOrigin, tracking, mine>>

BranchNext == (\E h \in Refreshers : Refresh(h)) \/ Push \/ Commit \/ Switch
BranchSpec == BranchInit /\ [][BranchNext]_branchVars

-----------------------------------------------------------------------------
BranchTypeOK ==
  /\ remote \in 0..MaxPush /\ tracking \in 0..MaxPush /\ switches \in 0..MaxSwitch
  /\ tips \in [Branches -> Tips] \cup {Absent}
  /\ onBranch \in Branches /\ declaredOrigin \in BOOLEAN
  /\ place \in [Refreshers -> {"idle", "look", "fetch", "compare", "merge", "valid",
                              "clone", "place", "done", "failed"}]
  /\ clone \in [Refreshers -> (0..MaxPush) \cup {Absent}]
  /\ since \in [Refreshers -> 0..MaxPush]

(* No commit that is in a checkout leaves its branch, whoever works in it  *)
(* meanwhile and however many hydrations refresh it.                       *)
WorkKept ==
  [][tips # Absent =>
       /\ tips' # Absent
       /\ \A b \in Branches : tips'[b].at >= tips[b].at /\ tips'[b].own >= tips[b].own]_branchVars
(* A hydration that accepts a checkout leaves it with everything that was  *)
(* at the remote when the hydration began.                                 *)
Refreshed == \A h \in Refreshers : In(h, "done") => tips[Run].at >= since[h]
=============================================================================

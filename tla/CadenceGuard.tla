---------------------------- MODULE CadenceGuard ----------------------------
(***************************************************************************)
(* The stopped-deployment restart guard of the cadence round               *)
(* (watch/cadence_round.py).  launchd runs one round at a time.  A round   *)
(* synchronises and observes every declaration, appends one record per     *)
(* deployment to an append-only ledger, and restarts a deployment it saw   *)
(* STOPPED unless the ledger already ends in `Limit' consecutive STOPPED   *)
(* records of it.  The record is appended before the restart is invoked.   *)
(***************************************************************************)
EXTENDS Naturals, Sequences, FiniteSets

CONSTANTS
  Declarations,   \* declaration files of the manifest
  Deployments,    \* deployments: an identity in a declaration file
  Declares,       \* the deployments of each declaration
  NoId,           \* no deployment identity
  Limit,          \* --guard-restart-attempt-limit of the guarded rounds
  MaxRecords      \* bound: ledger records in a behaviour

ASSUME CadenceAssumption ==
  /\ Declares \in [Declarations -> SUBSET Deployments]
  /\ \A a, b \in Declarations : a # b => Declares[a] \cap Declares[b] = {}
  /\ NoId \notin Deployments
  /\ Limit \in Nat \ {0}
  /\ MaxRecords \in Nat

VARIABLES
  ledger,     \* the complete lines of the ledger file
  torn,       \* does the ledger hold a line that a crash cut short
  tried,      \* restarts invoked since the last record that is not STOPPED
  pc,         \* where the round is
  limit,      \* its attempt limit: Limit, or 0 for an observing round
  history,    \* the records it holds in memory
  left,       \* declarations it has still to visit
  here,       \* declaration it is at
  todo,       \* identities of that declaration still to judge
  status      \* what the status command printed for each of them

roundVars == <<pc, limit, history, left, here, todo, status>>
vars == <<ledger, torn, tried, roundVars>>

States == {"RUNNING", "STOPPED", "UNKNOWN"}
(* `of' is the deployment the record's status line is about.               *)
Records == [decl : Declarations, id : Deployments \cup {NoId},
            of : Deployments \cup {NoId}, state : States,
            guard : {"none", "attempted", "open"}]

Init ==
  /\ ledger = <<>>
  /\ torn = FALSE
  /\ tried = [d \in Deployments |-> 0]
  /\ pc = "idle"
  /\ limit = 0
  /\ history = <<>>
  /\ left = {}
  /\ here \in Declarations
  /\ todo = {}
  /\ status = [d \in Deployments |-> "UNKNOWN"]

-----------------------------------------------------------------------------
(* Mutant: every record of the declaration counts, whichever deployment it *)
(* is about.                                                               *)
RelevantOfAnyId(records, d) ==
  {i \in DOMAIN records : d \in Declares[records[i].decl]}

(* prior_stopped_streak: the newest relevant records, up to the first that *)
(* is not STOPPED.                                                         *)
Relevant(records, d) ==
  {i \in DOMAIN records : /\ d \in Declares[records[i].decl]
                          /\ records[i].id \in {NoId, d}}
StoppedFor(record, d) == record.of = d /\ record.state = "STOPPED"
Streak(records, d) ==
  {i \in Relevant(records, d) :
     \A j \in Relevant(records, d) : j >= i => StoppedFor(records[j], d)}
PriorStoppedStreak(records, d) == Cardinality(Streak(records, d))

(* Without a readable ledger a guarded round ends before it does anything. *)
BeginRound(n) ==
  /\ pc = "idle"
  /\ n > 0 => ~torn
  /\ limit' = n
  /\ history' = IF n > 0 THEN ledger ELSE <<>>
  /\ left' = Declarations
  /\ todo' = {}
  /\ pc' = "visit"
  /\ UNCHANGED <<ledger, torn, tried, here, status>>

(* What the round held in memory is gone.                                  *)
EndOfProcess ==
  /\ pc' = "idle"
  /\ limit' = 0
  /\ history' = <<>>
  /\ left' = {}
  /\ todo' = {}
  /\ status' = [d \in Deployments |-> "UNKNOWN"]
  /\ UNCHANGED here

EndRound ==
  /\ pc = "visit" /\ left = {}
  /\ EndOfProcess
  /\ UNCHANGED <<ledger, torn, tried>>

(* sync, then status.  A supervise starts and stops at any time, so the     *)
(* status of a deployment is any state; a failed sync or status, and a     *)
(* status without exactly one line for an identity, leave it UNKNOWN; a    *)
(* declaration that cannot be read has no identities.                      *)
Visit(d) ==
  /\ pc = "visit" /\ d \in left
  /\ left' = left \ {d}
  /\ here' = d
  /\ \E seen \in [Declares[d] -> States] :
       status' = [e \in Deployments |-> IF e \in Declares[d] THEN seen[e] ELSE "UNKNOWN"]
  /\ IF limit = 0
       THEN pc' = "observe" /\ todo' = {}
       ELSE pc' = "judge" /\ todo' \in {Declares[d], {}}
  /\ UNCHANGED <<ledger, torn, tried, limit, history>>

(* os.write of one encoded line.                                           *)
Append1(record) ==
  /\ Len(ledger) < MaxRecords
  /\ ledger' = Append(ledger, record)

(* The ghost counter follows the ledger: a record that is not STOPPED for  *)
(* the deployment starts a new streak.                                     *)
Recount(record) ==
  tried' = [d \in Deployments |->
              IF 1 \in Relevant(<<record>>, d) /\ ~StoppedFor(record, d) THEN 0 ELSE tried[d]]

(* An observing round records the last line of the status output, whatever *)
(* deployment it is about.                                                 *)
Observe ==
  /\ pc = "observe"
  /\ \E e \in Declares[here] \cup {NoId} :
       LET record == [decl |-> here, id |-> NoId, of |-> e,
                      state |-> IF e = NoId THEN "UNKNOWN" ELSE status[e],
                      guard |-> "none"]
       IN  Append1(record) /\ Recount(record)
  /\ pc' = "visit"
  /\ UNCHANGED <<torn, limit, history, left, here, todo, status>>

(* Mutant: the limit itself still passes.                                  *)
GuardOneMore(d) ==
  IF status[d] # "STOPPED" THEN "none"
  ELSE IF PriorStoppedStreak(history, d) <= limit THEN "attempted" ELSE "open"

Guard(d) ==
  IF status[d] # "STOPPED" THEN "none"
  ELSE IF PriorStoppedStreak(history, d) < limit THEN "attempted" ELSE "open"

(* Mutant: a record without its guard field.                               *)
RecordOfNoGuard(d) == [decl |-> here, id |-> d, of |-> d, state |-> status[d]]

RecordOf(d) == [decl |-> here, id |-> d, of |-> d, state |-> status[d], guard |-> Guard(d)]

(* Mutant: an attempt is remembered but not written before the restart.    *)
JudgeUnrecorded(d) ==
  /\ pc = "judge" /\ d \in todo
  /\ IF Guard(d) = "attempted"
       THEN UNCHANGED <<ledger, tried>>
       ELSE Append1(RecordOf(d)) /\ Recount(RecordOf(d))
  /\ history' = Append(history, RecordOf(d))
  /\ todo' = todo \ {d}
  /\ pc' = IF Guard(d) = "attempted" THEN "restart" ELSE "judge"
  /\ UNCHANGED <<torn, limit, left, here, status>>

Judge(d) ==
  /\ pc = "judge" /\ d \in todo
  /\ Append1(RecordOf(d))
  /\ Recount(RecordOf(d))
  /\ history' = Append(history, RecordOf(d))
  /\ todo' = todo \ {d}
  /\ pc' = IF Guard(d) = "attempted" THEN "restart" ELSE "judge"
  /\ UNCHANGED <<torn, limit, left, here, status>>

JudgeEnd ==
  /\ pc = "judge" /\ todo = {}
  /\ pc' = "visit"
  /\ UNCHANGED <<ledger, torn, tried, limit, history, left, here, todo, status>>

Restarted == history[Len(history)].id

(* The restart command succeeds or fails; the round goes on either way,    *)
(* and only a later status tells.                                          *)
Restart ==
  /\ pc = "restart"
  /\ tried' = [tried EXCEPT ![Restarted] = @ + 1]
  /\ pc' = "judge"
  /\ UNCHANGED <<ledger, torn, limit, history, left, here, todo, status>>

(* The round is killed; during the write of a record it may leave a line   *)
(* that is not JSON.                                                       *)
RoundDies ==
  /\ pc # "idle"
  /\ EndOfProcess
  /\ torn' \in {torn, torn \/ pc = "observe" \/ (pc = "judge" /\ todo # {})}
  /\ UNCHANGED <<ledger, tried>>

Round ==
  \/ EndRound \/ Observe \/ JudgeEnd \/ Restart
  \/ \E d \in Declarations : Visit(d)
  \/ \E d \in Deployments : Judge(d)

Next ==
  \/ \E n \in {0, Limit} : BeginRound(n)
  \/ Round
  \/ RoundDies

Spec == Init /\ [][Next]_vars

-----------------------------------------------------------------------------
(* Every variable stays in its domain.                                     *)
TypeOK ==
  /\ ledger \in Seq(Records)
  /\ torn \in BOOLEAN
  /\ tried \in [Deployments -> Nat]
  /\ pc \in {"idle", "visit", "observe", "judge", "restart"}
  /\ limit \in {0, Limit}
  /\ history \in Seq(Records)
  /\ left \in SUBSET Declarations
  /\ here \in Declarations
  /\ todo \in SUBSET Deployments
  /\ status \in [Deployments -> States]

(* tests/watch/test_cadence_round.py: "guard attempts three times then     *)
(* opens even when restart fails".  A deployment that is seen STOPPED in   *)
(* every round is restarted at most Limit times, also when rounds die      *)
(* between the record and the restart or observing rounds come between.    *)
AttemptsBounded == \A d \in Deployments : tried[d] <= Limit

(* "guard budget is isolated between deployments": what a guarded round    *)
(* records about one deployment never changes the streak of another.       *)
BudgetIsolated ==
  [][\A d, e \in Deployments : Judge(d) /\ e # d =>
       PriorStoppedStreak(ledger', e) = PriorStoppedStreak(ledger, e)]_vars

(* "unknown or failed observation never restarts": a round that restarts a *)
(* deployment has seen it STOPPED after the ledger's last other word on it,*)
(* and the attempt is on disk before the command runs.                     *)
RestartIsRecorded ==
  [][\A d \in Deployments : tried'[d] > tried[d] =>
       \E i \in Streak(ledger, d) :
         /\ i = Len(ledger)
         /\ ledger[i].guard = "attempted"]_vars
=============================================================================

----------------------------- MODULE FactProbe -----------------------------
(***************************************************************************)
(* The two probes that rest on one document somebody else keeps:           *)
(* ops/github_activity.py asks GitHub for an entity's time of update,      *)
(* ops/engine_completion.py reads the status file of a run.  The document  *)
(* changes while they ask, may be another entity's or run's, and may be    *)
(* half written.  Of its time only the place is kept: before the window    *)
(* that was asked about, inside it, or later than the probe's clock.       *)
(***************************************************************************)
EXTENDS Naturals, Nothing

CONSTANTS MaxRevisions, MaxAsked \* bounds: changes of the document, probes made
Documents ==
  [whose : {"asked", "other"}, shape : {"valid", "torn"}, at : {"before", "inside", "later"}]
Probes == {"entity", "completion"}
ASSUME FactAssumption == None \notin Documents /\ MaxRevisions \in Nat /\ MaxAsked \in Nat

VARIABLES
  subject,   \* which probe
  document,  \* at GitHub, or in the run directory
  revisions, asked,
  turn,      \* where the probe is
  opened,    \* the status file as it was opened
  truthSeen, truthKept, factAnswer \* history and answer

factVars == <<subject, document, revisions, asked, turn, opened, truthSeen, truthKept, factAnswer>>

(* An update in the window; a terminal status, whenever it was written.    *)
HoldsOf(d) ==
  {s \in {subject} :
     d # None /\ d.whose = "asked" /\ d.shape = "valid" /\ (s = "entity" => d.at = "inside")}
True == HoldsOf(document)

FactInit ==
  /\ subject \in Probes /\ document \in Documents \cup {None}
  /\ revisions = 0 /\ asked = 0 /\ turn = "idle" /\ opened = None
  /\ truthSeen = True /\ truthKept = True /\ factAnswer = "none"

Revise ==
  /\ revisions < MaxRevisions /\ revisions' = revisions + 1
  /\ document' \in (Documents \cup {None}) \ {document}
  /\ truthSeen' = truthSeen \cup HoldsOf(document') /\ truthKept' = truthKept \cap HoldsOf(document')
  /\ UNCHANGED <<subject, asked, turn, opened, factAnswer>>

-----------------------------------------------------------------------------
AnswerFact(v) == factAnswer' = v /\ turn' = "idle" /\ opened' = None
BeginAsking ==
  /\ turn = "idle" /\ asked < MaxAsked
  /\ asked' = asked + 1
  /\ turn' = "ask" /\ factAnswer' = "none" /\ truthSeen' = True /\ truthKept' = True
  /\ UNCHANGED <<subject, document, revisions, opened>>
(* The clock, the selector, the bound or the credential binding is invalid,*)
(* the request or the read fails, or the run directory is none.            *)
RefuseAsking ==
  /\ turn \in {"ask", "read"}
  /\ AnswerFact("unknown")
  /\ UNCHANGED <<subject, document, revisions, asked, truthSeen, truthKept>>

SoundShape(d) == d.shape = "valid" /\ d.at # "later" \* a faulty variant: whose it is does not matter
(* Shape, then identity, then time.                                        *)
SoundDocument(d) == d.shape = "valid" /\ d.whose = "asked" /\ d.at # "later"
Ask ==
  /\ turn = "ask" /\ subject = "entity"
  /\ \/ document = None /\ AnswerFact("unknown")
     \/ /\ document # None /\ ~SoundDocument(document) /\ AnswerFact("unknown")
     \/ /\ document # None /\ SoundDocument(document)
        /\ AnswerFact(IF document.at = "inside" THEN "present" ELSE "absent")
  /\ UNCHANGED <<subject, document, revisions, asked, truthSeen, truthKept>>

(* The time is that of the opened file, the content what is read from it:  *)
(* what it had when it was opened, or what was written into it since.      *)
Open ==
  /\ turn = "ask" /\ subject = "completion"
  /\ \/ document = None /\ AnswerFact("absent")
     \/ document # None /\ opened' = document /\ turn' = "read" /\ UNCHANGED factAnswer
  /\ UNCHANGED <<subject, document, revisions, asked, truthSeen, truthKept>>
Read ==
  /\ turn = "read"
  /\ \E content \in {opened, document} \ {None} :
       AnswerFact(IF SoundDocument([content EXCEPT !.at = opened.at]) THEN "present" ELSE "unknown")
  /\ UNCHANGED <<subject, document, revisions, asked, truthSeen, truthKept>>

FactNext == Revise \/ BeginAsking \/ RefuseAsking \/ Ask \/ Open \/ Read
FactSpec == FactInit /\ [][FactNext]_factVars

-----------------------------------------------------------------------------
FactTypeOK ==
  /\ subject \in Probes /\ document \in Documents \cup {None} /\ opened \in Documents \cup {None}
  /\ revisions \in 0..MaxRevisions /\ asked \in 0..MaxAsked /\ turn \in {"idle", "ask", "read"}
  /\ truthSeen \subseteq Probes /\ truthKept \subseteq truthSeen
  /\ factAnswer \in {"none", "present", "absent", "unknown"}

(* The probe is an observation: `present' rests on an instant of the probe *)
(* at which the document said so, `absent' on one at which it did not.     *)
FactObservation == INSTANCE Observation WITH Things <- Probes, holds <- True, Evidence <- {{s} : s \in Probes},
  seen <- truthSeen, kept <- truthKept, answer <- factAnswer
FactEvidence == FactObservation!Spec
=============================================================================

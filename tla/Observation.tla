---------------------------- MODULE Observation ----------------------------
(***************************************************************************)
(* What the doctor's probes promise (ops/probe_result.py): evidence.  The  *)
(* things a probe asks about come and go while it looks.  It may answer    *)
(* `present' if all that makes up a piece of evidence was there, each at   *)
(* some instant since it began, `absent' if of every piece something was   *)
(* missing at some instant, and `unknown' whenever.                        *)
(***************************************************************************)
CONSTANTS Things, Evidence \* the pieces of evidence: sets of things
VARIABLES
  holds,   \* the things that are there
  seen, kept, \* those there at some, at every instant since the probe began
  answer

vars == <<holds, seen, kept, answer>>

Init ==
  /\ holds \subseteq Things
  /\ seen = holds /\ kept = holds /\ answer = "none"

Change ==
  /\ holds' \in SUBSET Things
  /\ seen' = seen \cup holds' /\ kept' = kept \cap holds'
  /\ UNCHANGED answer
Begin ==
  /\ answer' = "none"
  /\ seen' = holds /\ kept' = holds
  /\ UNCHANGED holds
Answer ==
  /\ answer = "none"
  /\ \/ answer' = "present" /\ \E e \in Evidence : e \subseteq seen
     \/ answer' = "absent" /\ ~\E e \in Evidence : e \subseteq kept
     \/ answer' = "unknown"
  /\ UNCHANGED <<holds, seen, kept>>

Next == Change \/ Begin \/ Answer
Spec == Init /\ [][Next]_vars
=============================================================================

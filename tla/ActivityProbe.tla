--------------------------- MODULE ActivityProbe ---------------------------
(***************************************************************************)
(* The probe of writes below a runtime root (ops/runtime_activity.py): it  *)
(* walks the tree, one directory listing and one stat at a time, while the *)
(* supervised processes write, move and remove artifacts and directories.  *)
(* Of a modification time only its place is kept: before the window that   *)
(* was asked about, inside it, or after the clock the walk ends by.        *)
(***************************************************************************)
EXTENDS FiniteSets, Naturals

CONSTANTS
  Root, Dirs,  \* the runtime root, and the directories in it
  Names,
  MaxWrites, MaxWalks \* bounds: changes made to the tree, probes made

ASSUME ActivityAssumption ==
  /\ Root \notin Dirs /\ Names \cap Dirs = {}
  /\ MaxWrites \in Nat /\ MaxWalks \in Nat

Paths == ({Root} \cup Dirs) \X Names
SubDirs == {Root} \X Dirs
Times == {"before", "inside", "after"}

VARIABLES
  dirs,      \* directories there are
  modified,  \* artifacts and when they were written
  writes, walks,
  doing,     \* what the probe does
  pending,   \* directories it has not listed
  listed,    \* entries of the listed directory it has not examined
  found,     \* artifacts and the times it read
  writtenSeen, writtenKept, activityAnswer \* history and answer

tree == <<dirs, modified>>
walk == <<doing, pending, listed, found>>
activityVars == <<tree, writes, walks, walk, writtenSeen, writtenKept, activityAnswer>>

(* Artifacts that were written in the window.                              *)
WrittenOf(f) == {a \in DOMAIN f : f[a] = "inside"}
Written == WrittenOf(modified)

ActivityInit ==
  /\ dirs \in {{}, {Root}, {Root} \cup Dirs}
  /\ modified \in [{a \in Paths : a[1] \in dirs} -> {"before", "inside"}]
  /\ writes = 0 /\ walks = 0
  /\ doing = "idle" /\ pending = {} /\ listed = {} /\ found = {}
  /\ writtenSeen = Written /\ writtenKept = Written /\ activityAnswer = "none"

-----------------------------------------------------------------------------
(* The runtime.                                                            *)
TreeBecomes(f) ==
  /\ writes < MaxWrites /\ writes' = writes + 1
  /\ modified' = f
  /\ writtenSeen' = writtenSeen \cup WrittenOf(f) /\ writtenKept' = writtenKept \cap WrittenOf(f)
  /\ UNCHANGED <<walks, walk, activityAnswer>>
Artifact(a, t) == [b \in DOMAIN modified \cup {a} |-> IF b = a THEN t ELSE modified[b]]
Without(a) == [b \in DOMAIN modified \ {a} |-> modified[b]]
(* A clock that is set back leaves times after the end of the walk.        *)
Write(a) ==
  /\ a[1] \in dirs
  /\ \E t \in {"inside", "after"} : TreeBecomes(Artifact(a, t))
  /\ UNCHANGED dirs
RemoveArtifact(a) == a \in DOMAIN modified /\ TreeBecomes(Without(a)) /\ UNCHANGED dirs
Rename(a, b) ==
  /\ a \in DOMAIN modified /\ b[1] \in dirs /\ a # b
  /\ TreeBecomes([c \in (DOMAIN modified \ {a}) \cup {b} |-> IF c = b THEN modified[a] ELSE modified[c]])
  /\ UNCHANGED dirs
RemoveDir(d) ==
  /\ d \in dirs /\ {a \in DOMAIN modified : a[1] = d} = {}
  /\ d = Root => dirs = {Root}
  /\ dirs' = dirs \ {d} /\ TreeBecomes(modified)

-----------------------------------------------------------------------------
(* probe_runtime_activity.                                                 *)
AnswerActivity(v) ==
  /\ activityAnswer' = v /\ doing' = "idle"
  /\ pending' = {} /\ listed' = {} /\ found' = {}

(* The bound must be a time that is not after the captured clock; the root *)
(* must be a directory.                                                    *)
BeginWalk ==
  /\ doing = "idle" /\ walks < MaxWalks
  /\ walks' = walks + 1
  /\ writtenSeen' = Written /\ writtenKept' = Written
  /\ activityAnswer' = "none" /\ doing' = "root"
  /\ UNCHANGED <<tree, writes, pending, listed, found>>
RefuseWalk ==
  /\ doing = "root" /\ AnswerActivity("unknown")
  /\ UNCHANGED <<tree, writes, walks, writtenSeen, writtenKept>>
CheckRoot ==
  /\ doing = "root" /\ Root \in dirs
  /\ doing' = "walk" /\ pending' = {Root}
  /\ UNCHANGED <<tree, writes, walks, listed, found, writtenSeen, writtenKept, activityAnswer>>

Entries(d) ==
  {a \in DOMAIN modified : a[1] = d} \cup {e \in SubDirs : e[1] = d /\ e[2] \in dirs}
List(d) ==
  /\ doing = "walk" /\ listed = {} /\ d \in pending
  /\ IF d \in dirs
       THEN /\ pending' = pending \ {d} /\ listed' = Entries(d)
            /\ UNCHANGED <<doing, found, activityAnswer>>
       ELSE AnswerActivity("unknown")
  /\ UNCHANGED <<tree, writes, walks, writtenSeen, writtenKept>>
JudgeFound == \* a faulty variant: whatever was found is activity
  /\ doing = "walk" /\ listed = {} /\ pending = {}
  /\ AnswerActivity(IF found # {} THEN "present" ELSE "absent")
  /\ UNCHANGED <<tree, writes, walks, writtenSeen, writtenKept>>
(* An entry that went meanwhile ends the walk.                             *)
Examine(e) ==
  /\ doing = "walk" /\ e \in listed
  /\ \/ /\ e \in SubDirs /\ e[2] \in dirs
        /\ pending' = pending \cup {e[2]} /\ listed' = listed \ {e}
        /\ UNCHANGED <<doing, found, activityAnswer>>
     \/ /\ e \in DOMAIN modified
        /\ found' = found \cup {<<e, modified[e]>>} /\ listed' = listed \ {e}
        /\ UNCHANGED <<doing, pending, activityAnswer>>
     \/ e[2] \notin dirs /\ e \notin DOMAIN modified /\ AnswerActivity("unknown")
  /\ UNCHANGED <<tree, writes, walks, writtenSeen, writtenKept>>

JudgeWalk ==
  /\ doing = "walk" /\ listed = {} /\ pending = {}
  /\ \/ AnswerActivity("unknown") \* the clock went back, or the listing failed
     \/ (\E f \in found : f[2] = "after") /\ AnswerActivity("unknown")
     \/ /\ \A f \in found : f[2] # "after"
        /\ AnswerActivity(IF \E f \in found : f[2] = "inside" THEN "present" ELSE "absent")
  /\ UNCHANGED <<tree, writes, walks, writtenSeen, writtenKept>>

ActivityNext ==
  \/ \E a \in Paths : Write(a) \/ RemoveArtifact(a) \/ \E b \in Paths : Rename(a, b)
  \/ \E d \in Dirs \cup {Root} : RemoveDir(d) \/ List(d)
  \/ \E e \in Paths \cup SubDirs : Examine(e)
  \/ BeginWalk \/ RefuseWalk \/ CheckRoot \/ JudgeWalk
ActivitySpec == ActivityInit /\ [][ActivityNext]_activityVars

-----------------------------------------------------------------------------
ActivityTypeOK ==
  /\ dirs \subseteq Dirs \cup {Root}
  /\ DOMAIN modified \subseteq {a \in Paths : a[1] \in dirs}
  /\ \A a \in DOMAIN modified : modified[a] \in Times
  /\ writes \in 0..MaxWrites /\ walks \in 0..MaxWalks
  /\ doing \in {"idle", "root", "walk"} /\ pending \subseteq Dirs \cup {Root}
  /\ listed \subseteq Paths \cup SubDirs /\ found \subseteq Paths \X Times
  /\ writtenSeen \subseteq Paths /\ writtenKept \subseteq writtenSeen
  /\ activityAnswer \in {"none", "present", "absent", "unknown"}

(* The probe is an observation: `present' rests on an artifact that had a  *)
(* time in the window during the walk, `absent' excludes every artifact    *)
(* that had one all through it.                                            *)
ActivityObservation == INSTANCE Observation WITH Things <- Paths, holds <- Written, Evidence <- {{a} : a \in Paths},
  seen <- writtenSeen, kept <- writtenKept, answer <- activityAnswer
ActivityEvidence == ActivityObservation!Spec
=============================================================================

---------------------------- MODULE MCHostTools ----------------------------
(* An instance of HostTools for TLC.                                       *)
EXTENDS HostTools, MCEngineBuild, MCDeclaration

(* Observations of the engine: nothing; one cron failure, with a dead      *)
(* letter of its queue; an entity that ended badly; a failure that is not  *)
(* cron's; a department whose cron failed twice, beside another failure.   *)
Ev(c, t) == [class |-> c, at |-> t]
Entity(es) == [ended |-> FALSE, events |-> es]
Fails(q, d, c, k) == [queue |-> q, dept |-> d, cron |-> c, class |-> k]
Tells(es, fs, ds) == [entities |-> es, facts |-> fs, dead |-> ds]
MCObservations ==
  {Tells({}, << >>, {}),
   Tells({Entity(<<Ev("progress", 0)>>)}, <<Fails("t", "a", TRUE, "terminal")>>, {"t"}),
   Tells({Entity(<<Ev("progress", 0), Ev("terminal", 1)>>)}, << >>, {}),
   Tells({}, <<Fails("q", "q", FALSE, "terminal")>>, {"q"}),
   Tells({}, <<Fails("t", "a", TRUE, "retried"), Fails("u", "a", TRUE, "retried"),
                 Fails("q", "q", FALSE, "terminal")>>, {"q"})}
=============================================================================

--------------------------- MODULE MCEngineBuild ---------------------------
(* Instances of EngineBuild for TLC.                                       *)
EXTENDS EngineBuild
Job(r, c) == [rev |-> r, checkout |-> c, command |-> "k"]
(* A hydration of two deployments that share an engine checkout and want   *)
(* different revisions, as SPEC.md lets them.                              *)
MCDeclared == [p \in {"h"} |-> <<Job("r1", "c1"), Job("r2", "c1")>>]
(* A hydration of two revisions in two checkouts, and the provider, which  *)
(* builds one of the revisions in the other checkout.                      *)
MCBuilds == [p \in {"h", "b"} |-> IF p = "h" THEN <<Job("r1", "c1"), Job("r2", "c2")>> ELSE <<Job("r2", "c1")>>]
=============================================================================

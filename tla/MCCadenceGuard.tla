--------------------------- MODULE MCCadenceGuard ---------------------------
(* One declaration with two deployments.                                   *)
EXTENDS CadenceGuard

MCDeclares == [a |-> {"d1", "d2"}]
=============================================================================

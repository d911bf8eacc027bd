-------------------------- MODULE MCMechanismCache --------------------------
(* Instances of MechanismCache for TLC.                                    *)
EXTENDS MechanismCache
=============================================================================

------------------------------ MODULE MCRigTask ------------------------------
(* The rig task on a small instance for TLC.                               *)
EXTENDS RigTask
=============================================================================

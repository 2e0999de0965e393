------------------------------ MODULE MCMspace ------------------------------
(* Instances of the mspace for TLC.                                        *)
EXTENDS MspaceProps
=============================================================================

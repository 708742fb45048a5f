-------------------------- MODULE MCDiarizationRpc --------------------------
(***************************************************************************)
(* DiarizationRpc on small instances.                                      *)
(***************************************************************************)
EXTENDS DiarizationRpc

==============================================================================

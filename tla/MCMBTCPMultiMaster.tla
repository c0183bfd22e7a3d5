-------------------------- MODULE MCMBTCPMultiMaster --------------------------
(***************************************************************************)
(* MBTCPMultiMaster for TLC: two or three gates.                           *)
(***************************************************************************)
EXTENDS MBTCPMultiMaster
===============================================================================

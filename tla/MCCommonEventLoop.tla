-------------------------- MODULE MCCommonEventLoop --------------------------
(***************************************************************************)
(* CommonEventLoop for TLC.                                                *)
(***************************************************************************)
EXTENDS CommonEventLoop
===============================================================================

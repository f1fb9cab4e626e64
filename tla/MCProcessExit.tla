---------------------------- MODULE MCProcessExit ----------------------------
(***************************************************************************)
(* ProcessExit with three handlers for two places in the table.            *)
(***************************************************************************)
EXTENDS ProcessExit
===============================================================================

------------------------------ MODULE MCStream ------------------------------
(***************************************************************************)
(* Stream with buffers of two bytes on a disk of three.                     *)
(***************************************************************************)
EXTENDS Stream
===============================================================================

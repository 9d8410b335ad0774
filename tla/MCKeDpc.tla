------------------------------ MODULE MCKeDpc ------------------------------
(* Instances of KeDpc: the timer's DPC and two others.                     *)
EXTENDS KeDpc
==============================================================================

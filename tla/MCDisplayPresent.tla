-------------------------- MODULE MCDisplayPresent --------------------------
(* A small instance of DisplayPresent for TLC.                             *)
EXTENDS DisplayPresent

CONSTANTS frameA, frameB, up, down
=============================================================================

------------------------------ MODULE MC_PamLogin ------------------------------
(* PamLogin with the instance owner and one other user. *)
EXTENDS PamLogin

CONSTANTS owner, guest
===============================================================================

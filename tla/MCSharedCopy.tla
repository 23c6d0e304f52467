---------------------------- MODULE MCSharedCopy ----------------------------
(***************************************************************************)
(* Two pieces of work, one whose commits carry a change id.                *)
(***************************************************************************)
EXTENDS SharedCopy

CONSTANTS a, b
=============================================================================

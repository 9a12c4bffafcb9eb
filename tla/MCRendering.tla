---------------------------- MODULE MCRendering ----------------------------
(***************************************************************************)
(* Rendering for two sessions that ask for a table at about the same time. *)
(* A table has two lines that are always there and at most one row.        *)
(***************************************************************************)
EXTENDS Rendering
=============================================================================

----------------------- MODULE MCHandleTableRefinement -----------------------
(* Small instances of HandleTableRefinement for TLC. *)
EXTENDS HandleTableRefinement
=============================================================================

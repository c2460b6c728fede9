----------------------------- MODULE MCOverlays -----------------------------
(***************************************************************************)
(* A dropdown whose options empty, shrink and grow; two toasts, so that    *)
(* one comes while the timer of another runs.                              *)
(***************************************************************************)
EXTENDS Overlays

Lists == {<<>>, <<"u1">>, <<"u2", "u1">>}
=============================================================================

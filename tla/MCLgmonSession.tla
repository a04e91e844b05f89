--------------------------- MODULE MCLgmonSession ---------------------------
(***************************************************************************)
(* Model checking of LgmonSession, of its refinement of PrintJob and of    *)
(* its inductive invariant; the bounds are given in the .cfg files.        *)
(***************************************************************************)
EXTENDS LgmonInvariant, LgmonRefinement

=============================================================================

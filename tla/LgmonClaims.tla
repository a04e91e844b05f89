---------------------------- MODULE LgmonClaims ----------------------------
(***************************************************************************)
(* What a comment in the sources says of a print job, as a formula over    *)
(* LgmonSession.  A run refutes it.                                        *)
(***************************************************************************)
EXTENDS LgmonSession

\* cnijlgmon3.c:646 marks the branch that recognises "print job finished".  A
\* job that is over before any status query has named it is never recognised.
FinishedJobIsNoticed == pjob = "gone" ~> pc = "exit"

=============================================================================

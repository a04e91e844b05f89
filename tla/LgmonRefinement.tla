-------------------------- MODULE LgmonRefinement --------------------------
(***************************************************************************)
(* LgmonSession as an implementation of PrintJob.  The dummy bytes behind  *)
(* the job are no part of it; the job ends when the process exits.         *)
(***************************************************************************)
EXTENDS LgmonSession

JobPart == [i \in 1 .. Smaller(Len(received), job) |-> received[i]]

OutcomeOf(point, label) ==
  IF point # "exit" THEN "open" ELSE IF label = "OK" THEN "done" ELSE "failed"

PJ == INSTANCE PrintJob WITH
        total   <- job,
        taken   <- JobPart,
        aborted <- aborts # {},
        outcome <- OutcomeOf(pc, via)

\* When no USB transfer times out with everything taken, cnijlgmon3 keeps the
\* promise of PrintJob on every interface.
ImplementsPrintJob == PJ!Spec

=============================================================================

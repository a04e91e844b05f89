------------------------------ MODULE PrintJob ------------------------------
(***************************************************************************)
(* What a program on the way of a print job promises, a filter as well as  *)
(* the backend on any interface: the next one gets the units 1 .. total of *)
(* the job front to back, each once; nothing follows an abort; and the job *)
(* is reported as done only when all of it was passed on and none of it    *)
(* was aborted.                                                            *)
(***************************************************************************)
EXTENDS Integers, Sequences

VARIABLES
  total,    \* the length of the job
  taken,    \* what was passed on, in order
  aborted,  \* the receiver was told to drop the job
  outcome   \* "open" until the program ends

vars == <<total, taken, aborted, outcome>>

Prefix(n) == [i \in 1 .. n |-> i]

Init ==
  /\ total \in Nat
  /\ taken = Prefix(0)
  /\ aborted = FALSE
  /\ outcome = "open"

\* Some more of the job, and possibly the order to drop it right after.
Pass ==
  /\ outcome = "open" /\ ~aborted
  /\ \E n \in Len(taken) .. total : taken' = Prefix(n)
  /\ aborted' \in BOOLEAN
  /\ UNCHANGED <<total, outcome>>

Abort ==
  /\ outcome = "open"
  /\ aborted' = TRUE
  /\ UNCHANGED <<total, taken, outcome>>

Done ==
  /\ outcome = "open" /\ ~aborted
  /\ Len(taken) = total
  /\ outcome' = "done"
  /\ UNCHANGED <<total, taken, aborted>>

Fail ==
  /\ outcome = "open"
  /\ outcome' = "failed"
  /\ UNCHANGED <<total, taken, aborted>>

Next == Pass \/ Abort \/ Done \/ Fail

Spec == Init /\ [][Next]_vars

=============================================================================

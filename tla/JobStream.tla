----------------------------- MODULE JobStream -----------------------------
(***************************************************************************)
(* What the printer is promised of the stream a job is printed with: the   *)
(* commands that open it, one configuration, for each page its two         *)
(* commands and exactly as much data as they announce, in order, and the   *)
(* end command behind all pages.  A stream may stop anywhere; a job is     *)
(* only reported as done with its end command.                             *)
(***************************************************************************)
EXTENDS Integers, Sequences

VARIABLES
  pages,    \* the sizes of the pages
  opening,  \* the number of commands that open the job
  wire,     \* the last thing sent: its kind, the page, and how many of these
  cut,      \* the source of the pages ended early
  outcome   \* "open", "done", "failed"; "spoiled" stands for no promise

Sent(c, p, n) == [cmd |-> c, page |-> p, n |-> n]

Init ==
  /\ pages \in Seq(Nat) /\ opening \in Nat \ {0}
  /\ wire = Sent("opening", 0, 0)
  /\ cut = FALSE
  /\ outcome = "open"

Send(c, p, n) == wire' = Sent(c, p, n) /\ UNCHANGED <<pages, opening, cut, outcome>>

Configured == wire.cmd = "config"

\* All of a page is sent.
PageWhole == wire.cmd = "data" /\ wire.n = pages[wire.page]

Open ==
  \/ wire.cmd = "opening" /\ wire.n < opening /\ Send("opening", 0, wire.n + 1)
  \/ wire.cmd = "opening" /\ wire.n = opening /\ Send("config", 0, 0)

PageCommand ==
  /\ Configured \/ PageWhole
  /\ wire.page < Len(pages)
  /\ Send("page", wire.page + 1, 0)

DataCommand == wire.cmd = "page" /\ Send("data", wire.page, 0)

Data == /\ wire.cmd = "data" /\ wire.n < pages[wire.page]
        /\ Send("data", wire.page, wire.n + 1)

End ==
  /\ Configured \/ PageWhole
  /\ wire.page = Len(pages) \/ cut
  /\ wire' = Sent("end", wire.page, 0) /\ outcome' = "done"
  /\ UNCHANGED <<pages, opening, cut>>

\* The source of the pages ends where it should not.
Cut == cut' = TRUE /\ UNCHANGED <<pages, opening, wire, outcome>>

Fail == outcome' \in {"failed", "spoiled"} /\ UNCHANGED <<pages, opening, wire, cut>>

Next ==
  \/ outcome = "open" /\ (Open \/ PageCommand \/ DataCommand \/ Data \/ End \/ Cut \/ Fail)
  \/ outcome = "spoiled" /\ outcome' = "spoiled" /\ UNCHANGED <<pages, opening>>

vars == <<pages, opening, wire, cut, outcome>>

Spec == Init /\ [][Next]_vars

=============================================================================

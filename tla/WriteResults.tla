---------------------------- MODULE WriteResults ----------------------------
(***************************************************************************)
(* What one CNIF_Write of n units can do: acc units reach the printer, rep *)
(* is what *writtenSize says, err the result.  The sets below are what the *)
(* session (LgmonSession) reckons with; Net2Send shows that the loop of    *)
(* CNIF_Network2_SendData stays within its set.                            *)
(***************************************************************************)
EXTENDS Lgmon3Codes

Outcome(a, r, e) == [acc |-> a, rep |-> r, err |-> e]

Whole(n) == Outcome(n, n, CN_LGMON_OK)

NetOutcomes_Slip(n) ==   \* a busy printer's share is not reported
  {Outcome(k, 0, CN_LGMON_OK) : k \in 0 .. n}

\* A busy printer counts as success with what was taken so far.
NetOutcomes(n) ==
  {Outcome(k, k, e) : k \in 0 .. n, e \in {CN_LGMON_OK, CN_LGMON_ERROR}}

Net2Outcomes_Slip(n) ==   \* a timeout reports the size asked for
  {Outcome(k, n, CN_NET3_SEND_TIMEOUT) : k \in 0 .. n}

\* CNIF_Network2_SendData: three timeouts in a row end it, and so does any
\* other code; a timeout on the very last piece is returned as it is.
Net2Outcomes(n) ==
  {Outcome(k, k, CN_NET3_SEND_TIMEOUT) : k \in 0 .. n}
    \cup {Outcome(n, n, CNNET3_ERR_WRITING_TIMEOUT)}
    \cup {Outcome(k, k, e) : k \in 0 .. n - 1,
                             e \in {CNNET3_ERR_FATAL, CNNET3_ERR_NOCONTENT}}

=============================================================================

--------------------------- MODULE MCUsbInterface ---------------------------
(***************************************************************************)
(* Two printers: the first has one interface with two alternate settings,  *)
(* the second one for FAX and one for printing.                            *)
(***************************************************************************)
EXTENDS UsbInterface

CONSTANTS job1, job2, search

Of(n, a, f) == [number |-> n, alternate |-> a, fax |-> f]

TwoPrinters == << <<Of(0, 0, FALSE), Of(0, 1, FALSE)>>,
                  <<Of(0, 0, TRUE), Of(1, 0, FALSE)>> >>

JobAndSearch == [p \in Procs |-> IF p = job1 THEN 1 ELSE IF p = job2 THEN 2 ELSE 0]

=============================================================================

--------------------------- MODULE InterfaceCalls ---------------------------
(***************************************************************************)
(* One call of main() into an interface (cnijcomif.h) at a time: which     *)
(* one, where it is and what it returned.  The two network interfaces      *)
(* (NetDevice, Net2Device) carry it out.                                   *)
(***************************************************************************)
EXTENDS Lgmon3Codes

CONSTANT MaxFaults   \* bound: calls into libraries and the system that fail

ASSUME CallsAssumption == MaxFaults \in Nat

VARIABLES
  call,    \* the CNIF_ function, without its prefix
  at,      \* the place in it; "begin" and "returned" are its two ends
  err,     \* what it returned
  faults

callVars == <<call, at, err, faults>>

Enter(c) == call' = c /\ at' = "begin" /\ UNCHANGED err

In(c, place) == call = c /\ at = place

Goto(place) == at' = place /\ UNCHANGED <<call, err>>

Returns(code) == at' = "returned" /\ err' = code /\ UNCHANGED call

Fault   == faults < MaxFaults /\ faults' = faults + 1
NoFault == UNCHANGED faults

=============================================================================

---------------------------- MODULE MCInterfaces ----------------------------
(***************************************************************************)
(* Interfaces for TLC: our printer, which changes its address, and         *)
(* another one.                                                            *)
(***************************************************************************)
EXTENDS Interfaces

MCInfos ==
  LET Info(mac, ip, model, des) == [mac |-> mac, ip |-> ip, model |-> model, des |-> des]
  IN { Info("ours", "a", "Canon series", "named"), Info("ours", "b", "Canon series", "named"),
       Info("ours", "a", "other", "missing"),
       Info("other", "c", "empty", "named"), Info("other", "c", "empty", "empty"),
       Info("other", "c", "other", "missing") }

=============================================================================

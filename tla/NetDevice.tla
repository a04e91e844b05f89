----------------------------- MODULE NetDevice -----------------------------
(***************************************************************************)
(* cnijifnet.c, the first network protocol: one handle of libcnnet, which  *)
(* is initialised, connected to the printer and may have a session.  What  *)
(* a read or a write carries is not in this module.                        *)
(***************************************************************************)
EXTENDS InterfaceCalls

CONSTANT ReadTries   \* how often a busy printer is asked again, 20 in the code

ASSUME NetAssumption == ReadTries \in Nat \ {0}

VARIABLES
  inited,      \* hnd is there, between CNNL_Init and CNNL_Terminate
  connected,   \* between CNNL_OpenEx and CNNL_Close
  session,     \* between CNNL_SessionStart and CNNL_SessionEnd
  isCanceled,
  reads        \* i of CNIF_Network_Read

netVars == <<inited, connected, session, isCanceled, reads>>

NetTypeOK ==
  /\ inited \in BOOLEAN /\ connected \in BOOLEAN /\ session \in BOOLEAN
  /\ isCanceled \in {0, 1}
  /\ reads \in 0 .. ReadTries

NetInit ==
  /\ inited = FALSE /\ connected = FALSE /\ session = FALSE
  /\ isCanceled = 0 /\ reads = 0

-----------------------------------------------------------------------------
\* CNIF_Network_Open
Network_Init ==
  /\ In("Open", "begin")
  /\ \/ inited' = TRUE /\ Goto("config") /\ NoFault
     \/ Returns(CN_LGMON_ERROR) /\ Fault /\ UNCHANGED inited
  /\ UNCHANGED <<connected, session, isCanceled, reads>>

Network_Config ==
  /\ In("Open", "config")
  /\ \/ Goto("search") /\ NoFault
     \/ Goto("error_open") /\ Fault
  /\ UNCHANGED netVars

\* A SIGTERM is looked for in isCanceled, which only CNIF_Cancel sets.
Network_GetIPAddress ==
  /\ In("Open", "search")
  /\ \/ isCanceled = 0 /\ Goto("connect") /\ NoFault
     \/ Goto("error_open") /\ Fault
  /\ UNCHANGED netVars

Network_OpenEx ==
  /\ In("Open", "connect")
  /\ \/ connected' = TRUE /\ Goto("check") /\ NoFault
     \/ Goto("error_open") /\ Fault /\ UNCHANGED connected
  /\ UNCHANGED <<inited, session, isCanceled, reads>>

Network_Check_Slip ==   \* a printer that does not answer is left connected
  /\ In("Open", "check")
  /\ \/ Returns(CN_LGMON_OK) /\ NoFault
     \/ Goto("error_open") /\ Fault
  /\ UNCHANGED netVars

\* The version, the command type, and the old version for a printer without IVEC.
Network_Check ==
  /\ In("Open", "check")
  /\ \/ Returns(CN_LGMON_OK) /\ NoFault
     \/ Goto("error_close") /\ Fault
  /\ UNCHANGED netVars

error_close ==
  /\ In("Open", "error_close")
  /\ connected' = FALSE /\ Goto("error_open")
  /\ UNCHANGED <<inited, session, isCanceled, reads, faults>>

error_open ==
  /\ In("Open", "error_open")
  /\ inited' = FALSE /\ Returns(CN_LGMON_ERROR)
  /\ UNCHANGED <<connected, session, isCanceled, reads, faults>>

-----------------------------------------------------------------------------
\* Busy is no fault: it may last.
Network_StartSession ==
  /\ In("StartSession", "begin")
  /\ \/ session' = TRUE /\ Returns(CN_LGMON_OK) /\ NoFault
     \/ Returns(CN_LGMON_BUSY) /\ NoFault /\ UNCHANGED session
     \/ Returns(CN_LGMON_ERROR) /\ Fault /\ UNCHANGED session
  /\ UNCHANGED <<inited, connected, isCanceled, reads>>

\* A busy printer is asked again, ReadTries times in all.
Network_Read ==
  /\ In("Read", "begin")
  /\ \/ reads' = 0 /\ Returns(CN_LGMON_OK) /\ NoFault
     \/ reads' = 0 /\ Returns(CN_LGMON_ERROR) /\ Fault
     \/ /\ reads + 1 < ReadTries
        /\ reads' = reads + 1 /\ UNCHANGED <<call, at, err, faults>>
     \/ /\ reads + 1 = ReadTries
        /\ reads' = 0 /\ Returns(CN_LGMON_ERROR) /\ NoFault
  /\ UNCHANGED <<inited, connected, session, isCanceled>>

\* Success and a busy printer, or a failure.
Network_Write ==
  /\ In("Write", "begin")
  /\ \/ Returns(CN_LGMON_OK) /\ NoFault
     \/ Returns(CN_LGMON_ERROR) /\ Fault
  /\ UNCHANGED netVars

Network_Cancel ==
  /\ In("Cancel", "begin")
  /\ isCanceled' = 1 /\ Returns(CN_LGMON_OK)
  /\ UNCHANGED <<inited, connected, session, reads, faults>>

Network_Reset ==
  /\ In("Reset", "begin")
  /\ Returns(CN_LGMON_OK)
  /\ UNCHANGED <<netVars, faults>>

Network_Close ==
  /\ In("Close", "begin")
  /\ session' = FALSE
  /\ connected' = IF inited THEN FALSE ELSE connected   \* hnd != NULL
  /\ inited' = FALSE
  /\ Returns(CN_LGMON_OK)
  /\ UNCHANGED <<isCanceled, reads, faults>>

NetStep ==
  \/ Network_Init \/ Network_Config \/ Network_GetIPAddress \/ Network_OpenEx
  \/ Network_Check \/ error_close \/ error_open
  \/ Network_StartSession \/ Network_Read \/ Network_Write \/ Network_Cancel
  \/ Network_Reset \/ Network_Close

=============================================================================

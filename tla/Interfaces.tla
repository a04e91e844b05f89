----------------------------- MODULE Interfaces -----------------------------
(***************************************************************************)
(* main() of cnijlgmon3 and the network interfaces below cnijcomif.c: the  *)
(* life of a connection from the first attempt to open it to its close.    *)
(* During the transfer and the wait behind it the calls come here in any   *)
(* order; LgmonSession has the order main() makes them in, and what they   *)
(* carry.  For the USB interface see UsbInterface.                         *)
(***************************************************************************)
EXTENDS NetDevice, Net2Device

VARIABLES
  ifType,   \* of CNIF_INFO
  stage     \* how far main() is

allVars == <<callVars, netVars, net2Vars, ifType, stage>>

Calls == {"none", "Open", "StartSession", "Read", "Write", "KeepSession", "Cancel",
          "Reset", "Close"}

Places == {"begin", "returned", "config", "search", "connect", "check", "error_open",
           "error_close", "address", "copy", "send", "configure", "load", "command",
           "read", "EXIT"}

InterfacesTypeOK ==
  /\ NetTypeOK /\ Net2TypeOK /\ TypeOK
  /\ call \in Calls /\ at \in Places /\ err \in Int
  /\ faults \in 0 .. MaxFaults
  /\ ifType \in {"NET", "NET2"}
  /\ stage \in {"start", "open", "ready", "session", "data", "reset", "close", "over"}

\* The device URI says net; the device ID, which of the two protocols.  Before
\* they are read ifType is not set: it may be anything.
InterfacesInit ==
  /\ NetInit /\ Net2Init
  /\ call = "none" /\ at = "returned" /\ err = CN_LGMON_OK /\ faults = 0
  /\ ifType \in {"NET", "NET2"}
  /\ stage = "start"

-----------------------------------------------------------------------------
\* cnijcomif.c
NothingToDo ==
  /\ \/ ifType = "NET" /\ In("KeepSession", "begin")
     \/ ifType = "NET2" /\ In("Reset", "begin")
  /\ Returns(CN_LGMON_OK)
  /\ UNCHANGED <<faults, netVars, net2Vars>>

Dispatch ==
  /\ \/ ifType = "NET" /\ NetStep /\ UNCHANGED net2Vars
     \/ ifType = "NET2" /\ Net2Step /\ UNCHANGED netVars
     \/ NothingToDo
  /\ UNCHANGED <<ifType, stage>>

-----------------------------------------------------------------------------
\* main(), between two calls.
Calling(from, c, to) ==
  /\ at = "returned" /\ stage = from
  /\ Enter(c) /\ stage' = to

OpenDevice ==
  \/ Calling("start", "Open", "open") /\ NoFault
  \/ Calling("start", "Reset", "reset") /\ Fault            \* before that: onErr
  \/ Calling("open", "Open", "open") /\ err < 0 /\ NoFault  \* 30 seconds later

\* The first query only clears what the printer had to say.
AwaitPrinter ==
  \/ Calling("open", "Read", "ready") /\ err >= 0
  \/ Calling("ready", "Read", "ready") /\ err >= 0          \* it is busy
  \/ Calling("ready", "StartSession", "session") /\ err >= 0
  \/ Calling("ready", "Reset", "reset")                     \* onErr, also by a SIGTERM

StartSession ==
  \/ /\ Calling("session", "Read", "session")
     /\ call = "StartSession" /\ (err > 0 \/ err = CN_LGMON_BUSY)
  \/ Calling("session", "StartSession", "session") /\ call = "Read"
  \/ Calling("session", "Reset", "reset") /\ err # CN_LGMON_OK
  \/ /\ \E c \in {"Read", "Write"} : Calling("session", c, "data")
     /\ call = "StartSession" /\ err = CN_LGMON_OK

Transfer ==
  \/ \E c \in {"Read", "Write", "KeepSession", "Cancel"} : Calling("data", c, "data")
  \/ Calling("data", "Reset", "reset")
  \/ Calling("data", "Close", "close")

CloseDevice ==
  \/ Calling("reset", "Close", "close")
  \/ at = "returned" /\ stage = "close" /\ stage' = "over" /\ UNCHANGED <<call, at, err>>

Main ==
  \/ OpenDevice /\ UNCHANGED <<netVars, net2Vars, ifType>>
  \/ (AwaitPrinter \/ StartSession \/ Transfer \/ CloseDevice)
       /\ UNCHANGED <<faults, netVars, net2Vars, ifType>>

Over == stage = "over" /\ UNCHANGED allVars

InterfacesNext == Main \/ Dispatch \/ Over

InterfacesSpec == InterfacesInit /\ [][InterfacesNext]_allVars

\* The process is not stopped inside a call, and libraries and system answer.
FairSpec == InterfacesSpec /\ WF_allVars(Dispatch)

-----------------------------------------------------------------------------
(***************************************************************************)
(* Properties                                                              *)
(***************************************************************************)

\* An open that fails leaves nothing behind, whatever it had got to, and so does
\* the close; everything between them finds a connected printer
\* (CNIF_Network_Open, CNIF_Network_Close).
NetUnwound ==
  ifType = "NET" =>
    /\ at = "returned" /\ call = "Open" =>
         IF err < 0 THEN ~inited /\ ~connected ELSE inited /\ connected
    /\ stage = "over" => ~inited /\ ~connected /\ ~session
    /\ stage \in {"ready", "session", "data"} => inited /\ connected

\* No call is made with a handle that is closed or with an address buffer that is
\* not there, also behind a query that left its handle in chmpWriter
\* (CNIF_Network2_ReadStatusPrint, CNIF_Network2_CancelPrint).
HandlesInUseAreLive ==
  ifType = "NET2" =>
    /\ Querying("configure") \/ Querying("load") \/ Querying("command") \/ Querying("read")
         => chmpWriter \in live /\ ipAddr \notin {"null", "freed"}
    /\ Querying("EXIT") => chmpWriter \in live \cup {NULL}
    /\ call \in {"StartSession", "Write", "KeepSession"} /\ at # "returned"
         => port9100Writer \in live /\ ipAddr \notin {"null", "freed"}
    /\ port9100Writer # NULL => port9100Writer # chmpWriter

\* Besides the two of them a handle is only open when an open failed, or a query
\* or a cancel command found no library: each of these may leave one behind.
HandlesAccountedFor ==
  /\ Cardinality(live \ {port9100Writer, chmpWriter}) <= unclosed
  /\ stage = "over" => Cardinality(live) <= unclosed

\* The address the job goes to has been given for our printer by a search, this
\* one or an earlier one, or there is none, when the first printer found has no
\* name (CNIF_Network2_ResolveIPAddr, SearchSnmp).
AddressIsOfPrinter ==
  ifType = "NET2" /\ stage \in {"ready", "session", "data"} =>
    ipAddr \in announced \/ (ipAddr = "empty" /\ ~network2dev[1].named)

\* Every call returns, whatever fails in it, but for the answer to a query: when
\* a read of it has timed out it may be read for ever.
CallsReturn == []<>(at = "returned") \/ <>[](In("Read", "read") /\ timedOut)

=============================================================================

----------------------------- MODULE Net2Device -----------------------------
(***************************************************************************)
(* cnijifnet2.c, the second network protocol: the search for the printer,  *)
(* the handle the job goes over (port9100Writer), and a handle for every   *)
(* query and cancel command (chmpWriter).  libcnnet3 and libcnnet2 are     *)
(* external.  The buffers a call forgets to free are left out, and so are  *)
(* the libraries it forgets to close.                                      *)
(***************************************************************************)
EXTENDS InterfaceCalls, Net2Send, FiniteSets

CONSTANTS
  MaxHandles,  \* bound: handles libcnnet3 can have open
  Infos,       \* what the search may say of a printer
  Wanted,      \* the MAC address of ours
  DevMax,      \* NETWORK_DEV_MAX
  MaxFound,    \* bound: printers a search finds
  WriteTries,  \* how often a command is tried, 10 in the code
  AnswerSize   \* bound: units of the answer to a query; its buffer holds it

NoMAC == "none"

ASSUME DeviceAssumption ==
  /\ DevMax \in Nat \ {0} /\ MaxFound \in Nat \ {0}
  /\ MaxHandles \in Nat /\ WriteTries \in Nat \ {0} /\ AnswerSize \in Nat

ASSUME InfosAssumption ==
  /\ \A info \in Infos : /\ info.model \in {"empty", "other", "Canon series"}
                         /\ info.des \in {"missing", "empty", "named"}
                         /\ info.ip \notin {"null", "freed", "empty"}
                         /\ info.mac # NoMAC
  /\ Wanted # NoMAC

VARIABLES
  live,            \* handles of libcnnet3 that are open
  port9100Writer, chmpWriter,
  ipAddr,          \* the text in the buffer, "null", or "freed"
  network2dev,     \* the table of printers
  num, entry,          \* entries to write, and the next
  announced,       \* addresses searches have given for our printer
  unclosed,        \* calls that returned with their handle open: see below
  tries,           \* i of sendData
  room, left,      \* bufferSize of CNNET3_Read, and what the printer has to say
  timedOut         \* a read of this query timed out

handles  == <<live, port9100Writer, chmpWriter, unclosed>>
search   == <<ipAddr, network2dev, num, entry, announced>>
query    == <<tries, room, left, timedOut>>
net2Vars == <<handles, search, query, vars>>

Handles == 1 .. MaxHandles
NULL    == 0

Entry(info) ==   \* the name of a device ID stands in for one that is no Canon name
  [named |-> info.model # "empty" \/ info.des = "named", mac |-> info.mac, ip |-> info.ip]

NoEntry == [named |-> FALSE, mac |-> NoMAC, ip |-> "empty"]

Entries   == {Entry(info) : info \in Infos} \cup {NoEntry}
Addresses == {info.ip : info \in Infos}

Net2TypeOK ==
  /\ live \subseteq Handles
  /\ port9100Writer \in Handles \cup {NULL} /\ chmpWriter \in Handles \cup {NULL}
  /\ unclosed \in Nat
  /\ ipAddr \in Addresses \cup {"null", "freed", "empty"}
  /\ network2dev \in [1 .. DevMax -> Entries]
  /\ num \in 0 .. DevMax /\ entry \in 1 .. DevMax + 1
  /\ announced \subseteq Addresses
  /\ tries \in 0 .. WriteTries
  /\ room \in 0 .. AnswerSize /\ left \in 0 .. AnswerSize
  /\ timedOut \in BOOLEAN

Net2Init ==
  /\ live = {} /\ port9100Writer = NULL /\ chmpWriter = NULL /\ unclosed = 0
  /\ ipAddr = "null" /\ announced = {}
  /\ network2dev = [d \in 1 .. DevMax |-> NoEntry] /\ num = 0 /\ entry = 1
  /\ tries = 0 /\ room = 0 /\ left = 0 /\ timedOut = FALSE
  /\ bufferSize = 0 /\ writtenSize = 0 /\ cnt_timeout = 0 /\ ret = 0
  /\ returned = FALSE /\ taken = << >>

-----------------------------------------------------------------------------
NewHandle == CHOOSE h \in Handles : h \notin live

NoHandle == (NoFault /\ Handles \subseteq live) \/ Fault   \* none left

\* The retry loop of main() calls again and overwrites what this attempt opened.
FailOpen == Returns(CN_LGMON_ERROR) /\ unclosed' = unclosed + 1

Network2_Open ==
  /\ In("Open", "begin")
  /\ \/ /\ Handles \ live # {}
        /\ port9100Writer' = NewHandle /\ live' = live \cup {port9100Writer'}
        /\ Goto("address") /\ NoFault /\ UNCHANGED unclosed
     \/ port9100Writer' = NULL /\ Returns(CN_LGMON_ERROR) /\ NoHandle
        /\ UNCHANGED <<live, unclosed>>
  /\ UNCHANGED <<chmpWriter, search, query, vars>>

Network2_NewAddress ==
  /\ In("Open", "address")
  /\ \/ ipAddr' = "empty" /\ Goto("search") /\ NoFault /\ UNCHANGED unclosed
     \/ ipAddr' = "null" /\ FailOpen /\ Fault
  /\ UNCHANGED <<live, port9100Writer, chmpWriter, network2dev, num, entry, announced,
                 query, vars>>

\* The library, its settings, memory, nobody found: no entry is touched.
SearchSnmp ==
  /\ In("Open", "search")
  /\ \/ \E found \in 1 .. MaxFound : num' = Smaller(found, DevMax)
        /\ entry' = 1 /\ Goto("copy") /\ UNCHANGED unclosed
     \/ FailOpen /\ UNCHANGED <<num, entry>>
  /\ UNCHANGED <<faults, live, port9100Writer, chmpWriter, ipAddr, network2dev, announced,
                 query, vars>>

Announce(info) ==
  announced' = IF info.mac = Wanted THEN announced \cup {info.ip} ELSE announced

CopyEntry ==
  /\ In("Open", "copy") /\ entry <= num
  /\ \E info \in {f \in Infos : f.model = "Canon series" \/ f.des # "missing"} :
       network2dev' = [network2dev EXCEPT ![entry] = Entry(info)] /\ Announce(info)
  /\ entry' = entry + 1
  /\ UNCHANGED <<callVars, handles, ipAddr, num, query, vars>>

CopyFails_Slip ==   \* the address is copied behind the name
  /\ In("Open", "copy") /\ entry <= num
  /\ \E info \in {f \in Infos : f.model # "Canon series" /\ f.des = "missing"} :
       /\ network2dev' = [network2dev EXCEPT ![entry] =
                            [Entry(info) EXCEPT !.ip = network2dev[entry].ip]]
       /\ Announce(info)
  /\ FailOpen /\ num' = 0 /\ entry' = 1
  /\ UNCHANGED <<faults, live, port9100Writer, chmpWriter, ipAddr, query, vars>>

\* A device ID without a name ends the search; this entry and those before it
\* are rewritten, the others are still those of earlier searches.
CopyFails ==
  /\ In("Open", "copy") /\ entry <= num
  /\ \E info \in {f \in Infos : f.model # "Canon series" /\ f.des = "missing"} :
       network2dev' = [network2dev EXCEPT ![entry] = Entry(info)] /\ Announce(info)
  /\ FailOpen /\ num' = 0 /\ entry' = 1
  /\ UNCHANGED <<faults, live, port9100Writer, chmpWriter, ipAddr, query, vars>>

\* ResolveIPAddr walks the table up to the first entry without a name, however
\* many of them this search has written.
Found(j) ==
  /\ network2dev[j].mac = Wanted
  /\ \A k \in 1 .. j : network2dev[k].named
  /\ \A k \in 1 .. j - 1 : network2dev[k].mac # Wanted

ResolveIPAddr ==
  /\ In("Open", "copy") /\ entry > num
  /\ \/ \E j \in 1 .. DevMax : Found(j) /\ ipAddr' = network2dev[j].ip
        /\ Returns(CN_LGMON_OK) /\ UNCHANGED unclosed
     \/ /\ ~network2dev[1].named   \* ret is still what SearchSnmp() left
        /\ Returns(CN_LGMON_OK) /\ UNCHANGED <<ipAddr, unclosed>>
     \/ /\ network2dev[1].named /\ \A j \in 1 .. DevMax : ~Found(j)
        /\ FailOpen /\ UNCHANGED ipAddr
  /\ num' = 0 /\ entry' = 1
  /\ UNCHANGED <<faults, live, port9100Writer, chmpWriter, network2dev, announced,
                 query, vars>>

-----------------------------------------------------------------------------
\* The codes of the library are passed on, the positive ones included.
Network2_StartSession ==
  /\ In("StartSession", "begin")
  /\ \/ Returns(CN_LGMON_OK) /\ NoFault
     \/ \E code \in {CNNET3_ERR_FATAL, CN_LGMON_BUSY, CNNET3_ERR_NOCONTENT} :
          Returns(code) /\ Fault
  /\ UNCHANGED net2Vars

Network2_EndSession ==
  /\ In("Close", "begin")
  /\ live' = live \ {port9100Writer}
  /\ ipAddr' = IF ipAddr = "null" THEN "null" ELSE "freed"
  /\ Returns(CN_LGMON_OK)
  /\ UNCHANGED <<faults, port9100Writer, chmpWriter, unclosed, network2dev, num, entry,
                 announced, query, vars>>

Network2_SendDummyData ==
  /\ In("KeepSession", "begin")
  /\ \/ Returns(CN_LGMON_OK) /\ NoFault
     \/ Returns(CN_LGMON_ERROR) /\ Fault
  /\ UNCHANGED net2Vars

\* Net2Send, one call of it.
Network2_SendData ==
  /\ In("Write", "begin")
  /\ bufferSize' \in 0 .. MaxSend
  /\ Goto("send")
  /\ UNCHANGED <<faults, handles, search, query,
                 writtenSize, cnt_timeout, ret, returned, taken>>

SendPiece ==
  /\ In("Write", "send") /\ Next
  /\ UNCHANGED <<callVars, handles, search, query>>

SendDone ==   \* its variables end with it
  /\ In("Write", "send") /\ returned
  /\ Returns(ret)
  /\ bufferSize' = 0 /\ writtenSize' = 0 /\ cnt_timeout' = 0 /\ ret' = 0
  /\ returned' = FALSE /\ taken' = << >>
  /\ UNCHANGED <<faults, handles, search, query>>

-----------------------------------------------------------------------------
(***************************************************************************)
(* ReadStatusPrint and CancelPrint: a handle, its settings, a command and, *)
(* for a status, the answer.                                               *)
(***************************************************************************)
Querying(place) == call \in {"Read", "Cancel"} /\ at = place

Exits(code) == at' = "EXIT" /\ err' = code /\ UNCHANGED call

OpenWriter ==
  /\ Querying("begin")
  /\ \/ /\ Handles \ live # {}
        /\ chmpWriter' = NewHandle /\ live' = live \cup {chmpWriter'}
        /\ Goto("configure") /\ NoFault
     \/ chmpWriter' = NULL /\ UNCHANGED live /\ Exits(CN_LGMON_ERROR) /\ NoHandle
     \/ UNCHANGED <<chmpWriter, live>> /\ Exits(CN_LGMON_ERROR) /\ Fault   \* no memory
  /\ UNCHANGED <<port9100Writer, unclosed, search, query, vars>>

Configure_Slip ==   \* a handle that takes no settings is not closed
  /\ Querying("configure")
  /\ \/ Goto("load") /\ NoFault
     \/ Returns(CN_LGMON_ERROR) /\ Fault
  /\ UNCHANGED net2Vars

\* SetIF, SetURL and SetIP.
Configure ==
  /\ Querying("configure")
  /\ \/ Goto("load") /\ NoFault
     \/ Exits(CN_LGMON_ERROR) /\ Fault
  /\ UNCHANGED net2Vars

\* The library and the command; without the library the function returns at once.
MakeCommand ==
  /\ Querying("load")
  /\ \/ Goto("command") /\ NoFault /\ UNCHANGED unclosed
     \/ Exits(CN_LGMON_ERROR) /\ Fault /\ UNCHANGED unclosed
     \/ Returns(CN_LGMON_DYNAMID_LINK_ERROR) /\ Fault /\ unclosed' = unclosed + 1
  /\ UNCHANGED <<live, port9100Writer, chmpWriter, search, query, vars>>

\* sendData
WriteCommand ==
  /\ Querying("command")
  /\ IF call = "Read" THEN Goto("read") ELSE Exits(CN_LGMON_OK)
  /\ room' = AnswerSize /\ left' \in 0 .. AnswerSize
  /\ UNCHANGED <<faults, handles, search, tries, timedOut, vars>>

WriteCommandFails_Slip ==   \* the last try starts the count again
  /\ Querying("command")
  /\ tries' = (tries + 1) % WriteTries
  /\ UNCHANGED <<callVars, handles, search, room, left, timedOut, vars>>

WriteCommandFails ==
  /\ Querying("command")
  /\ tries' = tries + 1
  /\ IF tries' < WriteTries THEN UNCHANGED <<call, at, err>> ELSE Exits(CN_LGMON_ERROR)
  /\ UNCHANGED <<faults, handles, search, room, left, timedOut, vars>>

\* bufferSize is the room offered and, behind the call, what was read: the room
\* of the next read.
ReadSome(n) == left' = left - n /\ room' = n

Read ==
  /\ In("Read", "read")
  /\ \E n \in (IF room > 0 /\ left > 0 THEN 1 ELSE 0) .. Smaller(room, left) : ReadSome(n)
  /\ IF left' = 0 THEN Exits(CN_LGMON_OK) ELSE UNCHANGED <<call, at, err>>   \* flag
  /\ UNCHANGED <<faults, handles, search, tries, timedOut, vars>>

\* Counts as success, whatever it has read.
ReadTimesOut ==
  /\ In("Read", "read") /\ left > 0
  /\ \E n \in 0 .. Smaller(room, left - 1) : ReadSome(n)
  /\ timedOut' = TRUE
  /\ UNCHANGED <<callVars, handles, search, tries, vars>>

ReadFails ==
  /\ In("Read", "read")
  /\ Exits(CN_LGMON_ERROR) /\ Fault
  /\ UNCHANGED net2Vars

\* Its variables end with it.
QueryOver == tries' = 0 /\ room' = 0 /\ left' = 0 /\ timedOut' = FALSE

EXIT_Slip ==   \* chmpWriter keeps the handle that is closed
  /\ Querying("EXIT")
  /\ live' = live \ {chmpWriter}
  /\ Returns(err) /\ QueryOver
  /\ UNCHANGED <<faults, port9100Writer, chmpWriter, unclosed, search, vars>>

\* ReadStatusPrint looks at the result of CNNET3_Close.
EXIT ==
  /\ Querying("EXIT")
  /\ live' = live \ {chmpWriter} /\ chmpWriter' = NULL
  /\ \/ Returns(err) /\ NoFault
     \/ call = "Read" /\ chmpWriter # NULL /\ Returns(CN_LGMON_ERROR) /\ Fault
  /\ QueryOver
  /\ UNCHANGED <<port9100Writer, unclosed, search, vars>>

ReadStatusPrint ==
  /\ call = "Read"
  /\ OpenWriter \/ Configure \/ MakeCommand \/ WriteCommand \/ WriteCommandFails
       \/ Read \/ ReadTimesOut \/ ReadFails \/ EXIT

CancelPrint ==
  /\ call = "Cancel"
  /\ OpenWriter \/ Configure \/ MakeCommand \/ WriteCommand \/ WriteCommandFails \/ EXIT

Net2Step ==
  \/ Network2_Open \/ Network2_NewAddress \/ SearchSnmp \/ CopyEntry \/ CopyFails
  \/ ResolveIPAddr
  \/ Network2_StartSession \/ Network2_EndSession \/ Network2_SendDummyData
  \/ Network2_SendData \/ SendPiece \/ SendDone
  \/ ReadStatusPrint \/ CancelPrint

=============================================================================

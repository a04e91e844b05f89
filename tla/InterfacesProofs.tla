-------------------------- MODULE InterfacesProofs --------------------------
(***************************************************************************)
(* What holds of the network interfaces for every number of printers,      *)
(* handles and faults and every size of a buffer.  The first part is about *)
(* one call of CNIF_Network2_SendData (Net2Send), the second about the     *)
(* life of a connection (Interfaces).  Its invariant has one part for each *)
(* group of variables; an action keeps the parts of the variables it       *)
(* leaves alone.                                                           *)
(***************************************************************************)
EXTENDS Interfaces, FiniteSetTheorems, TLAPS

\* The printer has the buffer up to *writtenSize.
TakenInv ==
  /\ Len(taken) = writtenSize
  /\ \A i \in 1 .. writtenSize : taken[i] = i

\* Inside the loop only the last piece's success or timeout is pending.
LoopInv ==
  ~returned => cnt_timeout < 3 /\ ret \in {CNNET3_ERR_SUCCESS, CNNET3_ERR_WRITING_TIMEOUT}

SendInv == TypeOK /\ TakenInv /\ LoopInv /\ ReportsWhatWasTaken

USE SendAssumption
USE DEF SendAssumption, vars, CNNET3_ERR_SUCCESS, CNNET3_ERR_WRITING_TIMEOUT,
        CN_NET3_SEND_TIMEOUT, CNNET3_ERR_FATAL, CNNET3_ERR_NOCONTENT, CN_LGMON_OK

\* Taking s more units keeps taken in order and in step with *writtenSize.
LEMMA SentInOrder ==
  ASSUME TypeOK, TakenInv, writtenSize < bufferSize,
         NEW s \in 0 .. bufSize, Sent(s), UNCHANGED bufferSize
  PROVE  /\ TakenInv' /\ taken' \in Seq(1 .. bufferSize)
         /\ writtenSize' \in 0 .. bufferSize
<1>1. /\ s \in Nat /\ writtenSize \in Nat /\ bufferSize \in Nat
      /\ writtenSize + s <= bufferSize
  BY DEF TypeOK, bufSize, Smaller
<1> DEFINE piece == [i \in 1 .. s |-> writtenSize + i]
<1>2. piece \in Seq(1 .. bufferSize) /\ Len(piece) = s
  BY <1>1
<1>3. taken' = taken \o piece /\ writtenSize' = writtenSize + s
  BY DEF Sent
<1>4. taken \in Seq(1 .. bufferSize) /\ Len(taken) = writtenSize
  BY DEF TypeOK, TakenInv
<1>5. taken' \in Seq(1 .. bufferSize) /\ Len(taken') = writtenSize + s
  BY <1>1, <1>2, <1>3, <1>4
<1>6. ASSUME NEW i \in 1 .. writtenSize + s PROVE taken'[i] = i
  <2>1. CASE i <= writtenSize BY <1>1, <1>2, <1>3, <1>4, <2>1 DEF TakenInv
  <2>2. CASE i > writtenSize
    <3>1. i - writtenSize \in 1 .. s BY <1>1, <2>2
    <3>2. i \in Nat /\ i > Len(taken) /\ i <= Len(taken) + Len(piece)
      BY <1>1, <1>2, <1>4, <2>2
    <3>3. taken \in Seq(Nat) /\ piece \in Seq(Nat)
      BY <1>1, <1>2, <1>4
    <3>4. (taken \o piece)[i] = piece[i - Len(taken)]
      BY <3>2, <3>3
    <3> QED BY <1>1, <1>3, <1>4, <3>1, <3>4
  <2> QED BY <1>1, <2>1, <2>2
<1> QED BY <1>1, <1>3, <1>5, <1>6 DEF TakenInv

\* What SendData may return, having sent w of n units.
LEMMA Reported ==
  ASSUME NEW n \in Nat, NEW w \in 0 .. n, NEW r,
         \/ r = CN_NET3_SEND_TIMEOUT
         \/ r \in {CNNET3_ERR_FATAL, CNNET3_ERR_NOCONTENT} /\ w < n
         \/ r \in {CNNET3_ERR_SUCCESS, CNNET3_ERR_WRITING_TIMEOUT} /\ w = n
  PROVE  Outcome(w, w, r) \in {Whole(n)} \cup Net2Outcomes(n)
<1>1. CASE r = CN_NET3_SEND_TIMEOUT
  BY <1>1 DEF Net2Outcomes
<1>2. CASE r \in {CNNET3_ERR_FATAL, CNNET3_ERR_NOCONTENT} /\ w < n
  <2>1. w \in 0 .. n - 1 BY <1>2
  <2> QED BY <1>2, <2>1 DEF Net2Outcomes
<1>3. CASE r \in {CNNET3_ERR_SUCCESS, CNNET3_ERR_WRITING_TIMEOUT} /\ w = n
  BY <1>3 DEF Net2Outcomes, Whole
<1> QED BY <1>1, <1>2, <1>3

\* The invariant holds before the first piece.
LEMMA SendStart == Init => SendInv
<1> SUFFICES ASSUME Init PROVE SendInv OBVIOUS
<1>1. Len(taken) = 0 /\ taken \in Seq(1 .. bufferSize) BY DEF Init
<1>2. TakenInv BY <1>1 DEF Init, TakenInv
<1>3. returned \in BOOLEAN BY DEF Init
<1>4. TypeOK BY <1>1, <1>3 DEF Init, TypeOK
<1> QED BY <1>2, <1>4 DEF Init, SendInv, LoopInv, ReportsWhatWasTaken

\* Every step keeps the invariant.
LEMMA SendStep == ASSUME SendInv, [Next]_vars PROVE SendInv'
<1> USE DEF SendInv
<1>1. CASE SendSucceeds
  <2>1. PICK s \in 1 .. bufSize : Sent(s) BY <1>1 DEF SendSucceeds
  <2>2. s \in 0 .. bufSize BY <2>1 DEF TypeOK, bufSize, Smaller
  <2>3. writtenSize < bufferSize /\ UNCHANGED bufferSize /\ ~returned /\ ~returned'
    BY <1>1 DEF SendSucceeds
  <2>4. TakenInv' /\ taken' \in Seq(1 .. bufferSize) /\ writtenSize' \in 0 .. bufferSize
    BY <2>1, <2>2, <2>3, SentInOrder
  <2>5. cnt_timeout' = 0 /\ ret' = 0 /\ returned' = returned
    BY <1>1 DEF SendSucceeds
  <2>6. TypeOK' BY <2>3, <2>4, <2>5 DEF TypeOK
  <2> QED BY <2>3, <2>4, <2>5, <2>6 DEF LoopInv, ReportsWhatWasTaken
<1>2. CASE SendTimesOut
  <2>1. PICK s \in 0 .. bufSize : Sent(s) BY <1>2 DEF SendTimesOut
  <2>2. writtenSize < bufferSize /\ UNCHANGED bufferSize /\ returned = FALSE
    BY <1>2 DEF SendTimesOut, TypeOK
  <2>3. TakenInv' /\ taken' \in Seq(1 .. bufferSize) /\ writtenSize' \in 0 .. bufferSize
    BY <2>1, <2>2, SentInOrder
  <2>4. cnt_timeout \in 0 .. 2 /\ cnt_timeout' = cnt_timeout + 1
    BY <1>2, <2>2 DEF SendTimesOut, LoopInv, TypeOK
  <2>5. CASE cnt_timeout' >= 3
    <3>1. ret' = CN_NET3_SEND_TIMEOUT /\ returned' = TRUE
      BY <1>2, <2>5 DEF SendTimesOut
    <3>2. bufferSize' \in Nat BY <2>2 DEF TypeOK
    <3>3. ReportsWhatWasTaken'
      BY <2>2, <2>3, <3>1, <3>2, Reported DEF TakenInv, ReportsWhatWasTaken
    <3> QED BY <2>2, <2>3, <2>4, <3>1, <3>3 DEF TypeOK, LoopInv
  <2>6. CASE ~(cnt_timeout' >= 3)
    <3>1. ret' = CNNET3_ERR_WRITING_TIMEOUT /\ returned' = returned
      BY <1>2, <2>2, <2>6 DEF SendTimesOut
    <3>2. cnt_timeout' \in 0 .. 2
      BY <2>4, <2>6
    <3>3. TypeOK' BY <2>2, <2>3, <3>1, <3>2 DEF TypeOK
    <3> QED BY <2>2, <2>3, <3>1, <3>2, <3>3 DEF LoopInv, ReportsWhatWasTaken
  <2> QED BY <2>5, <2>6
<1>3. CASE SendFails
  <2>1. /\ UNCHANGED <<bufferSize, writtenSize, cnt_timeout, taken>>
        /\ writtenSize < bufferSize /\ returned' = TRUE
        /\ ret' \in {CNNET3_ERR_FATAL, CNNET3_ERR_NOCONTENT}
    BY <1>3 DEF SendFails
  <2>2. TypeOK' /\ TakenInv' BY <2>1 DEF TypeOK, TakenInv
  <2>3. bufferSize' \in Nat /\ writtenSize' \in 0 .. bufferSize'
        /\ writtenSize' < bufferSize'
    BY <2>1, <2>2 DEF TypeOK
  <2>4. ReportsWhatWasTaken'
    BY <2>1, <2>2, <2>3, Reported DEF TypeOK, TakenInv, ReportsWhatWasTaken
  <2> QED BY <2>1, <2>2, <2>4 DEF LoopInv
<1>4. CASE Return
  <2>1. /\ UNCHANGED <<bufferSize, writtenSize, cnt_timeout, taken, ret>>
        /\ writtenSize = bufferSize /\ returned' = TRUE /\ ~returned
    BY <1>4 DEF Return
  <2>2. TypeOK' /\ TakenInv' BY <2>1 DEF TypeOK, TakenInv
  <2>3. bufferSize' \in Nat /\ writtenSize' = bufferSize'
        /\ ret' \in {CNNET3_ERR_SUCCESS, CNNET3_ERR_WRITING_TIMEOUT}
    BY <2>1, <2>2 DEF TypeOK, LoopInv
  <2>4. ReportsWhatWasTaken'
    BY <2>1, <2>2, <2>3, Reported DEF TypeOK, TakenInv, ReportsWhatWasTaken
  <2> QED BY <2>1, <2>2, <2>4 DEF LoopInv
<1>5. CASE UNCHANGED vars
  BY <1>5 DEF TypeOK, TakenInv, LoopInv, ReportsWhatWasTaken
<1> QED BY <1>1, <1>2, <1>3, <1>4, <1>5 DEF Next

\* The call never writes beyond the buffer nor counts beyond three timeouts.
THEOREM SendTyped == Spec => []TypeOK
<1>1. Init => SendInv BY SendStart
<1>2. SendInv /\ [Next]_vars => SendInv' BY SendStep
<1>3. SendInv => TypeOK BY DEF SendInv
<1> QED BY <1>1, <1>2, <1>3, PTL DEF Spec

\* The session may rely on *writtenSize and on the results of Net2Outcomes.
THEOREM SendReports == Spec => []ReportsWhatWasTaken
<1>1. Init => SendInv BY SendStart
<1>2. SendInv /\ [Next]_vars => SendInv' BY SendStep
<1>3. SendInv => ReportsWhatWasTaken BY DEF SendInv
<1> QED BY <1>1, <1>2, <1>3, PTL DEF Spec

-----------------------------------------------------------------------------
(***************************************************************************)
(* The life of a connection                                                *)
(***************************************************************************)
USE CallsAssumption, NetAssumption
USE DEF CallsAssumption, NetAssumption, CN_LGMON_ERROR,
        CN_LGMON_BUSY, CN_LGMON_DYNAMID_LINK_ERROR, NULL,
        In, Goto, Returns, Exits, Fault, NoFault, FailOpen, NoHandle, Querying,
        ReadSome, QueryOver, Enter, Calling,
        callVars, netVars, net2Vars, handles, search, query

\* Between main() and the interface: which calls a stage of main() makes.
CallInv ==
  /\ call \in Calls /\ at \in Places /\ err \in Int
  /\ faults \in 0 .. MaxFaults
  /\ ifType \in {"NET", "NET2"}
  /\ stage \in {"start", "open", "ready", "session", "data", "reset", "close", "over"}
  /\ stage = "start" => call = "none" /\ at = "returned"
  /\ stage = "open" => call = "Open"
  /\ stage = "ready" => call = "Read"
  /\ stage = "session" => call \in {"Read", "StartSession"}
  /\ stage = "data" => call \in {"Read", "Write", "KeepSession", "Cancel"}
  /\ stage = "reset" => call = "Reset"
  /\ stage = "close" => call = "Close"
  /\ stage = "over" => call = "Close" /\ at = "returned"

\* What the first protocol holds at each place of an open, and behind it.
NetInv ==
  /\ NetTypeOK
  /\ ifType = "NET" =>
     /\ connected => inited
     /\ stage = "start" => ~inited
     /\ call = "Open" =>
          /\ at = "begin" => ~inited
          /\ at \in {"config", "search", "connect", "error_open"} => inited /\ ~connected
          /\ at \in {"check", "error_close"} => inited /\ connected
          /\ at = "returned" => IF err < 0 THEN ~inited ELSE inited /\ connected
     /\ stage \in {"ready", "session", "data"} => inited /\ connected
     /\ call = "Close" /\ at = "returned" => ~inited /\ ~session

Opened == (call = "Open" /\ at = "returned" /\ err >= 0) \/ stage \in {"ready", "session", "data"}

\* Which handles the second protocol holds: chmpWriter is never stale.
HandleInv ==
  /\ live \subseteq Handles /\ unclosed \in Nat
  /\ port9100Writer \in Handles \cup {NULL}
  /\ chmpWriter \in live \cup {NULL}
  /\ ipAddr \in Addresses \cup {"null", "freed", "empty"}
  /\ port9100Writer \in live \cup {NULL} \/ (call = "Close" /\ at = "returned")
  /\ port9100Writer # NULL => port9100Writer # chmpWriter
  /\ call = "Close" /\ at = "returned" => port9100Writer \notin live
  /\ ifType = "NET" \/ stage = "start" => live = {}
  /\ ifType = "NET2" =>
     /\ Opened => port9100Writer \in live /\ ipAddr \notin {"null", "freed"}
     /\ call = "Open" /\ at \in {"address", "search", "copy"} => port9100Writer \in live
     /\ call = "Open" /\ at \in {"search", "copy"} => ipAddr = "empty"
     /\ call \in {"Read", "Cancel"} /\ at \in {"configure", "load", "command", "read"}
          => chmpWriter \in live

\* Every entry of the table that names our printer has an address a search gave.
TableInv ==
  /\ network2dev \in [1 .. DevMax -> Entries]
  /\ announced \subseteq Addresses
  /\ \A d \in 1 .. DevMax : network2dev[d].mac = Wanted => network2dev[d].ip \in announced

SearchInv ==
  /\ TableInv
  /\ num \in 0 .. DevMax /\ entry \in 1 .. DevMax + 1
  /\ ifType = "NET2" /\ Opened =>
       ipAddr \in announced \/ (ipAddr = "empty" /\ ~network2dev[1].named)

QueryInv ==
  /\ tries \in 0 .. WriteTries
  /\ at = "command" => tries < WriteTries
  /\ at \notin {"command", "read", "EXIT"} => tries = 0
  /\ room \in 0 .. AnswerSize /\ left \in 0 .. AnswerSize
  /\ timedOut \in BOOLEAN

\* Net2Send is at its beginning unless it is called.
CallOfSend ==
  /\ SendInv
  /\ ~In("Write", "send") =>
       /\ bufferSize = 0 /\ writtenSize = 0 /\ cnt_timeout = 0 /\ ret = 0
       /\ returned = FALSE /\ taken = << >>

\* The handles the code will still close.
InUse ==
  (IF call = "Open" /\ (at = "begin" \/ (at = "returned" /\ err < 0))
   THEN {} ELSE {port9100Writer})
  \cup (IF call \in {"Read", "Cancel"} /\ at \notin {"begin", "returned"}
        THEN {chmpWriter} ELSE {})

LostInv == Cardinality(live \ InUse) <= unclosed

InterfacesInv ==
  CallInv /\ NetInv /\ HandleInv /\ SearchInv /\ QueryInv /\ CallOfSend /\ LostInv

LEMMA Sizes ==
  /\ DevMax \in Nat /\ DevMax > 0 /\ MaxFound \in Nat
  /\ MaxHandles \in Nat /\ WriteTries \in Nat /\ WriteTries > 0 /\ AnswerSize \in Nat
BY DeviceAssumption DEF DeviceAssumption

LEMMA NullIsNone == NULL \notin Handles
BY Sizes DEF Handles

LEMMA NewHandleIsFree ==
  ASSUME Handles \ live # {}
  PROVE  NewHandle \in Handles /\ NewHandle \notin live /\ NewHandle # NULL
<1>1. NewHandle \in Handles /\ NewHandle \notin live BY DEF NewHandle
<1> QED BY <1>1, NullIsNone

-----------------------------------------------------------------------------
\* Which calls a stage makes.
LEMMA MainCall == ASSUME CallInv, Main PROVE CallInv'
<1> USE DEF CallInv, Calls, Places
<1>1. CASE OpenDevice /\ UNCHANGED <<netVars, net2Vars, ifType>>
  BY <1>1 DEF OpenDevice
<1>2. CASE AwaitPrinter /\ UNCHANGED <<faults, netVars, net2Vars, ifType>>
  BY <1>2 DEF AwaitPrinter
<1>3. CASE StartSession /\ UNCHANGED <<faults, netVars, net2Vars, ifType>>
  BY <1>3 DEF StartSession
<1>4. CASE Transfer /\ UNCHANGED <<faults, netVars, net2Vars, ifType>>
  BY <1>4 DEF Transfer
<1>5. CASE CloseDevice /\ UNCHANGED <<faults, netVars, net2Vars, ifType>>
  BY <1>5 DEF CloseDevice
<1> QED BY <1>1, <1>2, <1>3, <1>4, <1>5 DEF Main

LEMMA NetCall ==
  ASSUME CallInv, ifType = "NET", NetStep,
         UNCHANGED <<net2Vars, ifType, stage>>
  PROVE  CallInv'
<1> USE DEF CallInv, Calls, Places
<1>1. CASE Network_Init BY <1>1 DEF Network_Init
<1>2. CASE Network_Config BY <1>2 DEF Network_Config
<1>3. CASE Network_GetIPAddress BY <1>3 DEF Network_GetIPAddress
<1>4. CASE Network_OpenEx BY <1>4 DEF Network_OpenEx
<1>5. CASE Network_Check BY <1>5 DEF Network_Check
<1>6. CASE error_close BY <1>6 DEF error_close
<1>7. CASE error_open BY <1>7 DEF error_open
<1>8. CASE Network_StartSession BY <1>8 DEF Network_StartSession
<1>9. CASE Network_Read BY <1>9 DEF Network_Read
<1>10. CASE Network_Write BY <1>10 DEF Network_Write
<1>11. CASE Network_Cancel BY <1>11 DEF Network_Cancel
<1>12. CASE Network_Reset BY <1>12 DEF Network_Reset
<1>13. CASE Network_Close BY <1>13 DEF Network_Close
<1> QED BY <1>1, <1>2, <1>3, <1>4, <1>5, <1>6, <1>7, <1>8, <1>9, <1>10, <1>11, <1>12,
    <1>13 DEF NetStep

LEMMA Net2Call ==
  ASSUME CallInv, TypeOK, ifType = "NET2", Net2Step,
         UNCHANGED <<netVars, ifType, stage>>
  PROVE  CallInv'
<1> USE DEF CallInv, Calls, Places, TypeOK
<1>1. CASE Network2_Open BY <1>1 DEF Network2_Open
<1>2. CASE Network2_NewAddress BY <1>2 DEF Network2_NewAddress
<1>3. CASE SearchSnmp BY <1>3 DEF SearchSnmp
<1>4. CASE CopyEntry BY <1>4 DEF CopyEntry
<1>5. CASE CopyFails
  <2>1. Returns(CN_LGMON_ERROR) /\ UNCHANGED faults BY <1>5 DEF CopyFails
  <2> QED BY <2>1
<1>6. CASE ResolveIPAddr BY <1>6 DEF ResolveIPAddr
<1>7. CASE Network2_StartSession BY <1>7 DEF Network2_StartSession
<1>8. CASE Network2_EndSession BY <1>8 DEF Network2_EndSession
<1>9. CASE Network2_SendDummyData BY <1>9 DEF Network2_SendDummyData
<1>10. CASE Network2_SendData BY <1>10 DEF Network2_SendData
<1>11. CASE SendPiece BY <1>11 DEF SendPiece
<1>12. CASE SendDone BY <1>12 DEF SendDone
<1>13. CASE OpenWriter BY <1>13 DEF OpenWriter
<1>14. CASE Configure BY <1>14 DEF Configure
<1>15. CASE MakeCommand BY <1>15 DEF MakeCommand
<1>16. CASE WriteCommand BY <1>16 DEF WriteCommand
<1>17. CASE WriteCommandFails BY <1>17 DEF WriteCommandFails
<1>18. CASE Read BY <1>18 DEF Read
<1>19. CASE ReadTimesOut BY <1>19 DEF ReadTimesOut
<1>20. CASE ReadFails BY <1>20 DEF ReadFails
<1>21. CASE EXIT BY <1>21 DEF EXIT
<1> QED BY <1>1, <1>2, <1>3, <1>4, <1>5, <1>6, <1>7, <1>8, <1>9, <1>10, <1>11, <1>12,
    <1>13, <1>14, <1>15, <1>16, <1>17, <1>18, <1>19, <1>20, <1>21 DEF Net2Step,
    ReadStatusPrint, CancelPrint

\* What the first protocol holds.
LEMMA MainNet == ASSUME CallInv, NetInv, Main PROVE NetInv'
<1> USE DEF CallInv, NetInv, NetTypeOK
<1>1. CASE OpenDevice /\ UNCHANGED <<netVars, net2Vars, ifType>>
  BY <1>1 DEF OpenDevice
<1>2. CASE AwaitPrinter /\ UNCHANGED <<faults, netVars, net2Vars, ifType>>
  BY <1>2 DEF AwaitPrinter
<1>3. CASE StartSession /\ UNCHANGED <<faults, netVars, net2Vars, ifType>>
  BY <1>3 DEF StartSession
<1>4. CASE Transfer /\ UNCHANGED <<faults, netVars, net2Vars, ifType>>
  BY <1>4 DEF Transfer
<1>5. CASE CloseDevice /\ UNCHANGED <<faults, netVars, net2Vars, ifType>>
  BY <1>5 DEF CloseDevice
<1> QED BY <1>1, <1>2, <1>3, <1>4, <1>5 DEF Main

LEMMA NetNet ==
  ASSUME CallInv, NetInv, ifType = "NET", NetStep,
         UNCHANGED <<net2Vars, ifType, stage>>
  PROVE  NetInv'
<1> USE DEF CallInv, NetInv, NetTypeOK
<1>1. CASE Network_Init
  <2> USE <1>1 DEF Network_Init
  <2>1. CASE inited' = TRUE /\ Goto("config") BY <2>1
  <2>2. CASE Returns(CN_LGMON_ERROR) /\ UNCHANGED inited BY <2>2
  <2> QED BY <2>1, <2>2
<1>2. CASE Network_Config BY <1>2 DEF Network_Config
<1>3. CASE Network_GetIPAddress BY <1>3 DEF Network_GetIPAddress
<1>4. CASE Network_OpenEx
  <2> USE <1>4 DEF Network_OpenEx
  <2>1. CASE connected' = TRUE /\ Goto("check") BY <2>1
  <2>2. CASE Goto("error_open") /\ UNCHANGED connected BY <2>2
  <2> QED BY <2>1, <2>2
<1>5. CASE Network_Check BY <1>5 DEF Network_Check
<1>6. CASE error_close BY <1>6 DEF error_close
<1>7. CASE error_open
  <2>1. inited' = FALSE /\ Returns(CN_LGMON_ERROR) /\ call = "Open" /\ at = "error_open"
        /\ UNCHANGED <<connected, session, isCanceled, reads>>
    BY <1>7 DEF error_open
  <2>2. inited' \in BOOLEAN BY <2>1, Zenon
  <2> QED BY <2>1, <2>2
<1>8. CASE Network_StartSession BY <1>8 DEF Network_StartSession
<1>9. CASE Network_Read BY <1>9 DEF Network_Read
<1>10. CASE Network_Write BY <1>10 DEF Network_Write
<1>11. CASE Network_Cancel BY <1>11 DEF Network_Cancel
<1>12. CASE Network_Reset BY <1>12 DEF Network_Reset
<1>13. CASE Network_Close BY <1>13 DEF Network_Close
<1> QED BY <1>1, <1>2, <1>3, <1>4, <1>5, <1>6, <1>7, <1>8, <1>9, <1>10, <1>11, <1>12,
    <1>13 DEF NetStep

\* Which handles the second protocol holds.
LEMMA MainHandle == ASSUME CallInv, HandleInv, Main PROVE HandleInv'
<1> USE DEF CallInv, HandleInv, Opened, Handles
<1>1. CASE OpenDevice /\ UNCHANGED <<netVars, net2Vars, ifType>>
  BY <1>1 DEF OpenDevice
<1>2. CASE AwaitPrinter /\ UNCHANGED <<faults, netVars, net2Vars, ifType>>
  BY <1>2 DEF AwaitPrinter
<1>3. CASE StartSession /\ UNCHANGED <<faults, netVars, net2Vars, ifType>>
  BY <1>3 DEF StartSession
<1>4. CASE Transfer /\ UNCHANGED <<faults, netVars, net2Vars, ifType>>
  BY <1>4 DEF Transfer
<1>5. CASE CloseDevice /\ UNCHANGED <<faults, netVars, net2Vars, ifType>>
  BY <1>5 DEF CloseDevice
<1> QED BY <1>1, <1>2, <1>3, <1>4, <1>5 DEF Main

\* The address of an entry that is found is an address.
LEMMA FoundIsAddress ==
  ASSUME SearchInv, NEW j \in 1 .. DevMax, Found(j)
  PROVE  network2dev[j].ip \in Addresses /\ network2dev[j].ip \in announced
BY DEF SearchInv, TableInv, Found

LEMMA AddressIsNoMark ==
  \A a \in Addresses : a \notin {"null", "freed", "empty"}
BY InfosAssumption DEF Addresses, InfosAssumption

\* What is written into the table.
LEMMA EntryOfPrinter ==
  /\ \A info \in Infos : /\ Entry(info) \in Entries /\ info.ip \in Addresses
                         /\ Entry(info).mac = info.mac /\ Entry(info).ip = info.ip
  /\ NoEntry \in Entries /\ NoEntry.mac # Wanted
BY InfosAssumption DEF Entry, Entries, NoEntry, Addresses, InfosAssumption

LEMMA Net2Handle ==
  ASSUME CallInv, HandleInv, SearchInv, SendInv, ifType = "NET2", Net2Step,
         UNCHANGED <<netVars, ifType, stage>>
  PROVE  HandleInv'
<1> USE DEF CallInv, HandleInv, Opened, SendInv, TypeOK
<1>1. CASE Network2_Open
  <2> USE <1>1 DEF Network2_Open
  <2>1. CASE port9100Writer' = NewHandle /\ live' = live \cup {port9100Writer'}
               /\ Handles \ live # {} /\ Goto("address")
    BY <2>1, NewHandleIsFree
  <2>2. CASE port9100Writer' = NULL /\ Returns(CN_LGMON_ERROR) /\ UNCHANGED live
    BY <2>2
  <2> QED BY <2>1, <2>2
<1>2. CASE Network2_NewAddress BY <1>2 DEF Network2_NewAddress
<1>3. CASE SearchSnmp BY <1>3 DEF SearchSnmp
<1>4. CASE CopyEntry BY <1>4 DEF CopyEntry
<1>5. CASE CopyFails
  <2>1. Returns(CN_LGMON_ERROR) /\ unclosed' = unclosed + 1
        /\ UNCHANGED <<live, port9100Writer, chmpWriter, ipAddr>> /\ call = "Open"
    BY <1>5 DEF CopyFails
  <2> QED BY <2>1
<1>6. CASE ResolveIPAddr BY <1>6, FoundIsAddress, AddressIsNoMark DEF ResolveIPAddr
<1>7. CASE Network2_StartSession BY <1>7 DEF Network2_StartSession
<1>8. CASE Network2_EndSession BY <1>8 DEF Network2_EndSession
<1>9. CASE Network2_SendDummyData BY <1>9 DEF Network2_SendDummyData
<1>10. CASE Network2_SendData BY <1>10 DEF Network2_SendData
<1>11. CASE SendPiece BY <1>11 DEF SendPiece
<1>12. CASE SendDone BY <1>12 DEF SendDone
<1>13. CASE OpenWriter BY <1>13, NewHandleIsFree DEF OpenWriter
<1>14. CASE Configure BY <1>14 DEF Configure
<1>15. CASE MakeCommand BY <1>15 DEF MakeCommand
<1>16. CASE WriteCommand BY <1>16 DEF WriteCommand
<1>17. CASE WriteCommandFails BY <1>17 DEF WriteCommandFails
<1>18. CASE Read BY <1>18 DEF Read
<1>19. CASE ReadTimesOut BY <1>19 DEF ReadTimesOut
<1>20. CASE ReadFails BY <1>20 DEF ReadFails
<1>21. CASE EXIT
  <2>1. /\ live' = live \ {chmpWriter} /\ chmpWriter' = NULL /\ at' = "returned"
        /\ UNCHANGED <<call, port9100Writer, unclosed, ipAddr>>
        /\ call \in {"Read", "Cancel"}
    BY <1>21 DEF EXIT
  <2>2. port9100Writer \in live => port9100Writer \in live'
    BY <2>1, NullIsNone
  <2> QED BY <2>1, <2>2
<1> QED BY <1>1, <1>2, <1>3, <1>4, <1>5, <1>6, <1>7, <1>8, <1>9, <1>10, <1>11, <1>12,
    <1>13, <1>14, <1>15, <1>16, <1>17, <1>18, <1>19, <1>20, <1>21 DEF Net2Step,
    ReadStatusPrint, CancelPrint

\* What the table says of our printer.
LEMMA Rewritten ==
  ASSUME TableInv, NEW info \in Infos, entry \in 1 .. DevMax,
         network2dev' = [network2dev EXCEPT ![entry] = Entry(info)], Announce(info)
  PROVE  TableInv'
<1>1. /\ Entry(info) \in Entries /\ info.ip \in Addresses
      /\ Entry(info).mac = info.mac /\ Entry(info).ip = info.ip
  BY EntryOfPrinter
<1>2. network2dev' \in [1 .. DevMax -> Entries] BY <1>1 DEF TableInv
<1>3. announced' \subseteq Addresses /\ announced \subseteq announced'
      /\ (info.mac = Wanted => info.ip \in announced')
  BY <1>1 DEF TableInv, Announce
<1>4. ASSUME NEW d \in 1 .. DevMax, network2dev'[d].mac = Wanted
      PROVE  network2dev'[d].ip \in announced'
  <2>1. CASE d = entry
    <3>1. network2dev'[d] = Entry(info) BY <2>1 DEF TableInv
    <3> QED BY <1>1, <1>3, <1>4, <3>1
  <2>2. CASE d # entry
    <3>1. network2dev'[d] = network2dev[d] BY <2>2 DEF TableInv
    <3> QED BY <1>3, <1>4, <3>1 DEF TableInv
  <2> QED BY <2>1, <2>2
<1> QED BY <1>2, <1>3, <1>4 DEF TableInv

LEMMA MainSearch == ASSUME CallInv, SearchInv, Main PROVE SearchInv'
<1> USE DEF CallInv, SearchInv, TableInv, Opened
<1>1. CASE OpenDevice /\ UNCHANGED <<netVars, net2Vars, ifType>>
  BY <1>1 DEF OpenDevice
<1>2. CASE AwaitPrinter /\ UNCHANGED <<faults, netVars, net2Vars, ifType>>
  BY <1>2 DEF AwaitPrinter
<1>3. CASE StartSession /\ UNCHANGED <<faults, netVars, net2Vars, ifType>>
  BY <1>3 DEF StartSession
<1>4. CASE Transfer /\ UNCHANGED <<faults, netVars, net2Vars, ifType>>
  BY <1>4 DEF Transfer
<1>5. CASE CloseDevice /\ UNCHANGED <<faults, netVars, net2Vars, ifType>>
  BY <1>5 DEF CloseDevice
<1> QED BY <1>1, <1>2, <1>3, <1>4, <1>5 DEF Main

LEMMA Net2Search ==
  ASSUME CallInv, HandleInv, SearchInv, ifType = "NET2", Net2Step,
         UNCHANGED <<netVars, ifType, stage>>
  PROVE  SearchInv'
<1> USE DEF CallInv, SearchInv, TableInv, Opened
<1>1. CASE Network2_Open BY <1>1 DEF Network2_Open
<1>2. CASE Network2_NewAddress BY <1>2 DEF Network2_NewAddress
<1>3. CASE SearchSnmp BY <1>3, Sizes DEF SearchSnmp, Smaller
<1>4. CASE CopyEntry
  <2>1. PICK info \in Infos :
          network2dev' = [network2dev EXCEPT ![entry] = Entry(info)] /\ Announce(info)
    BY <1>4 DEF CopyEntry
  <2>2. entry \in 1 .. DevMax /\ entry' = entry + 1 /\ UNCHANGED <<call, num, ipAddr>>
        /\ call = "Open" /\ at' = "copy"
    <3>1. /\ entry <= num /\ entry' = entry + 1 /\ UNCHANGED <<call, at, num, ipAddr>>
          /\ call = "Open" /\ at = "copy"
      BY <1>4, Zenon DEF CopyEntry
    <3> QED BY <3>1, Sizes
  <2>3. TableInv' BY <2>1, <2>2, Rewritten
  <2> QED BY <2>2, <2>3, Sizes
<1>5. CASE CopyFails
  <2>1. PICK info \in Infos :
          network2dev' = [network2dev EXCEPT ![entry] = Entry(info)] /\ Announce(info)
    BY <1>5 DEF CopyFails
  <2>2. entry \in 1 .. DevMax
    <3>1. entry <= num BY <1>5, Zenon DEF CopyFails
    <3> QED BY <3>1, Sizes
  <2>3. TableInv' BY <2>1, <2>2, Rewritten
  <2>4. num' = 0 /\ entry' = 1 /\ err' = CN_LGMON_ERROR /\ call = "Open" /\ UNCHANGED call
    BY <1>5 DEF CopyFails
  <2>5. num' \in 0 .. DevMax /\ entry' \in 1 .. DevMax + 1 BY <2>4, Sizes
  <2>6. ~Opened' BY <2>4
  <2> QED BY <2>3, <2>5, <2>6
<1>6. CASE ResolveIPAddr
  <2> USE <1>6 DEF ResolveIPAddr
  <2>1. TableInv' /\ num' = 0 /\ entry' = 1 /\ call' = "Open" BY DEF TableInv
  <2>2. CASE \E j \in 1 .. DevMax : Found(j) /\ ipAddr' = network2dev[j].ip
    BY <2>1, <2>2, FoundIsAddress, Sizes
  <2>3. CASE ~network2dev[1].named /\ UNCHANGED ipAddr
    BY <2>1, <2>3, Sizes DEF HandleInv
  <2>4. CASE FailOpen
    BY <2>1, <2>4, Sizes
  <2> QED BY <2>2, <2>3, <2>4
<1>7. CASE Network2_StartSession BY <1>7 DEF Network2_StartSession
<1>8. CASE Network2_EndSession BY <1>8 DEF Network2_EndSession
<1>9. CASE Network2_SendDummyData BY <1>9 DEF Network2_SendDummyData
<1>10. CASE Network2_SendData BY <1>10 DEF Network2_SendData
<1>11. CASE SendPiece BY <1>11 DEF SendPiece
<1>12. CASE SendDone BY <1>12 DEF SendDone
<1>13. CASE OpenWriter BY <1>13, NewHandleIsFree DEF OpenWriter
<1>14. CASE Configure BY <1>14 DEF Configure
<1>15. CASE MakeCommand BY <1>15 DEF MakeCommand
<1>16. CASE WriteCommand BY <1>16 DEF WriteCommand
<1>17. CASE WriteCommandFails BY <1>17 DEF WriteCommandFails
<1>18. CASE Read BY <1>18 DEF Read
<1>19. CASE ReadTimesOut BY <1>19 DEF ReadTimesOut
<1>20. CASE ReadFails BY <1>20 DEF ReadFails
<1>21. CASE EXIT BY <1>21 DEF EXIT
<1> QED BY <1>1, <1>2, <1>3, <1>4, <1>5, <1>6, <1>7, <1>8, <1>9, <1>10, <1>11, <1>12,
    <1>13, <1>14, <1>15, <1>16, <1>17, <1>18, <1>19, <1>20, <1>21 DEF Net2Step,
    ReadStatusPrint, CancelPrint

\* The counts of a query.
LEMMA MainQuery == ASSUME CallInv, QueryInv, Main PROVE QueryInv'
<1> USE DEF CallInv, QueryInv, Smaller
<1>1. CASE OpenDevice /\ UNCHANGED <<netVars, net2Vars, ifType>>
  BY <1>1 DEF OpenDevice
<1>2. CASE AwaitPrinter /\ UNCHANGED <<faults, netVars, net2Vars, ifType>>
  BY <1>2 DEF AwaitPrinter
<1>3. CASE StartSession /\ UNCHANGED <<faults, netVars, net2Vars, ifType>>
  BY <1>3 DEF StartSession
<1>4. CASE Transfer /\ UNCHANGED <<faults, netVars, net2Vars, ifType>>
  BY <1>4 DEF Transfer
<1>5. CASE CloseDevice /\ UNCHANGED <<faults, netVars, net2Vars, ifType>>
  BY <1>5 DEF CloseDevice
<1> QED BY <1>1, <1>2, <1>3, <1>4, <1>5 DEF Main

LEMMA Net2Query ==
  ASSUME CallInv, QueryInv, ifType = "NET2", Net2Step,
         UNCHANGED <<netVars, ifType, stage>>
  PROVE  QueryInv'
<1> USE DEF CallInv, QueryInv, Smaller
<1>1. CASE Network2_Open BY <1>1 DEF Network2_Open
<1>2. CASE Network2_NewAddress BY <1>2 DEF Network2_NewAddress
<1>3. CASE SearchSnmp BY <1>3 DEF SearchSnmp
<1>4. CASE CopyEntry BY <1>4 DEF CopyEntry
<1>5. CASE CopyFails BY <1>5 DEF CopyFails
<1>6. CASE ResolveIPAddr BY <1>6 DEF ResolveIPAddr
<1>7. CASE Network2_StartSession BY <1>7 DEF Network2_StartSession
<1>8. CASE Network2_EndSession BY <1>8 DEF Network2_EndSession
<1>9. CASE Network2_SendDummyData BY <1>9 DEF Network2_SendDummyData
<1>10. CASE Network2_SendData BY <1>10 DEF Network2_SendData
<1>11. CASE SendPiece BY <1>11 DEF SendPiece
<1>12. CASE SendDone BY <1>12 DEF SendDone
<1>13. CASE OpenWriter BY <1>13 DEF OpenWriter
<1>14. CASE Configure BY <1>14 DEF Configure
<1>15. CASE MakeCommand BY <1>15, Sizes DEF MakeCommand
<1>16. CASE WriteCommand BY <1>16, Sizes DEF WriteCommand
<1>17. CASE WriteCommandFails BY <1>17, Sizes DEF WriteCommandFails
<1>18. CASE Read BY <1>18, Sizes DEF Read
<1>19. CASE ReadTimesOut BY <1>19, Sizes DEF ReadTimesOut
<1>20. CASE ReadFails BY <1>20 DEF ReadFails
<1>21. CASE EXIT
  <2>1. at' = "returned" /\ QueryOver BY <1>21 DEF EXIT
  <2>2. timedOut' \in BOOLEAN BY <2>1, Zenon
  <2> QED BY <2>1, <2>2, Sizes
<1> QED BY <1>1, <1>2, <1>3, <1>4, <1>5, <1>6, <1>7, <1>8, <1>9, <1>10, <1>11, <1>12,
    <1>13, <1>14, <1>15, <1>16, <1>17, <1>18, <1>19, <1>20, <1>21 DEF Net2Step,
    ReadStatusPrint, CancelPrint

\* Net2Send is called as it is meant to be.
LEMMA AtItsBeginning ==
  ASSUME bufferSize' \in 0 .. MaxSend, writtenSize' = 0, cnt_timeout' = 0,
         ret' = 0, returned' = FALSE, taken' = << >>
  PROVE  SendInv'
<1>1. Len(taken') = 0 /\ taken' \in Seq(1 .. bufferSize') OBVIOUS
<1>2. TakenInv' BY <1>1 DEF TakenInv
<1>3. returned' \in BOOLEAN BY Zenon
<1>4. TypeOK' BY <1>1, <1>3 DEF TypeOK
<1> QED BY <1>2, <1>4 DEF SendInv, LoopInv, ReportsWhatWasTaken

\* A call that leaves its variables alone keeps what is known of them.
LEMMA SendKept ==
  ASSUME SendInv, UNCHANGED vars
  PROVE  SendInv'
BY SendStep

LEMMA MainSend == ASSUME CallInv, CallOfSend, Main PROVE CallOfSend'
<1> USE DEF CallInv, CallOfSend
<1>1. CASE OpenDevice /\ UNCHANGED <<netVars, net2Vars, ifType>>
  BY <1>1, SendKept DEF OpenDevice
<1>2. CASE AwaitPrinter /\ UNCHANGED <<faults, netVars, net2Vars, ifType>>
  BY <1>2, SendKept DEF AwaitPrinter
<1>3. CASE StartSession /\ UNCHANGED <<faults, netVars, net2Vars, ifType>>
  BY <1>3, SendKept DEF StartSession
<1>4. CASE Transfer /\ UNCHANGED <<faults, netVars, net2Vars, ifType>>
  BY <1>4, SendKept DEF Transfer
<1>5. CASE CloseDevice /\ UNCHANGED <<faults, netVars, net2Vars, ifType>>
  BY <1>5, SendKept DEF CloseDevice
<1> QED BY <1>1, <1>2, <1>3, <1>4, <1>5 DEF Main

LEMMA Net2Send ==
  ASSUME CallInv, CallOfSend, ifType = "NET2", Net2Step,
         UNCHANGED <<netVars, ifType, stage>>
  PROVE  CallOfSend'
<1> USE DEF CallInv, CallOfSend
<1>1. CASE Network2_Open BY <1>1, SendKept DEF Network2_Open
<1>2. CASE Network2_NewAddress BY <1>2, SendKept DEF Network2_NewAddress
<1>3. CASE SearchSnmp BY <1>3, SendKept DEF SearchSnmp
<1>4. CASE CopyEntry BY <1>4, SendKept DEF CopyEntry
<1>5. CASE CopyFails BY <1>5, SendKept DEF CopyFails
<1>6. CASE ResolveIPAddr BY <1>6, SendKept DEF ResolveIPAddr
<1>7. CASE Network2_StartSession BY <1>7, SendKept DEF Network2_StartSession
<1>8. CASE Network2_EndSession BY <1>8, SendKept DEF Network2_EndSession
<1>9. CASE Network2_SendDummyData BY <1>9, SendKept DEF Network2_SendDummyData
<1>10. CASE Network2_SendData BY <1>10, AtItsBeginning DEF Network2_SendData
<1>11. CASE SendPiece BY <1>11, SendStep DEF SendPiece
<1>12. CASE SendDone
  <2>1. /\ bufferSize' = 0 /\ writtenSize' = 0 /\ cnt_timeout' = 0 /\ ret' = 0
        /\ returned' = FALSE /\ taken' = << >>
    BY <1>12 DEF SendDone
  <2>2. bufferSize' \in 0 .. MaxSend BY <2>1
  <2>3. SendInv' BY <2>1, <2>2, AtItsBeginning, Zenon
  <2> QED BY <2>1, <2>3
<1>13. CASE OpenWriter BY <1>13, SendKept DEF OpenWriter
<1>14. CASE Configure BY <1>14, SendKept DEF Configure
<1>15. CASE MakeCommand BY <1>15, SendKept DEF MakeCommand
<1>16. CASE WriteCommand BY <1>16, SendKept DEF WriteCommand
<1>17. CASE WriteCommandFails BY <1>17, SendKept DEF WriteCommandFails
<1>18. CASE Read BY <1>18, SendKept DEF Read
<1>19. CASE ReadTimesOut BY <1>19, SendKept DEF ReadTimesOut
<1>20. CASE ReadFails BY <1>20, SendKept DEF ReadFails
<1>21. CASE EXIT BY <1>21, SendKept DEF EXIT
<1> QED BY <1>1, <1>2, <1>3, <1>4, <1>5, <1>6, <1>7, <1>8, <1>9, <1>10, <1>11, <1>12,
    <1>13, <1>14, <1>15, <1>16, <1>17, <1>18, <1>19, <1>20, <1>21 DEF Net2Step,
    ReadStatusPrint, CancelPrint

\* What is left open.
LEMMA LostFinite ==
  ASSUME HandleInv, NEW S \in SUBSET live
  PROVE  IsFiniteSet(S) /\ Cardinality(S) \in Nat
<1>1. IsFiniteSet(Handles) BY Sizes, FS_Interval DEF Handles
<1>2. S \in SUBSET Handles BY DEF HandleInv
<1>3. IsFiniteSet(S) BY <1>1, <1>2, FS_Subset
<1> QED BY <1>3, FS_CardinalityType

LEMMA NoneLost ==
  ASSUME HandleInv, LostInv, (live \ InUse)' \subseteq live \ InUse, unclosed' = unclosed
  PROVE  LostInv'
<1> DEFINE S == live \ InUse   T == (live \ InUse)'
<1>1. IsFiniteSet(S) /\ Cardinality(S) \in Nat BY LostFinite
<1>2. T \in SUBSET S OBVIOUS
<1>3. IsFiniteSet(T) /\ Cardinality(T) <= Cardinality(S) BY <1>1, <1>2, FS_Subset
<1>4. Cardinality(T) \in Nat BY <1>3, FS_CardinalityType
<1>5. Cardinality(S) <= unclosed BY DEF LostInv
<1>6. Cardinality(T) <= unclosed'
  <2> HIDE DEF S, T
  <2> QED BY <1>1, <1>3, <1>4, <1>5 DEF HandleInv
<1> QED BY <1>6 DEF LostInv

LEMMA OneLost ==
  ASSUME HandleInv, LostInv, NEW h, (live \ InUse)' \subseteq (live \ InUse) \cup {h},
         unclosed' = unclosed + 1
  PROVE  LostInv'
<1> DEFINE S == live \ InUse   T == (live \ InUse)'
<1>1. IsFiniteSet(S) /\ Cardinality(S) \in Nat BY LostFinite
<1>2. /\ IsFiniteSet(S \cup {h})
      /\ Cardinality(S \cup {h}) \in Nat
      /\ Cardinality(S \cup {h}) <= Cardinality(S) + 1
  <2>1. /\ IsFiniteSet(S \cup {h})
        /\ Cardinality(S \cup {h}) = IF h \in S THEN Cardinality(S) ELSE Cardinality(S) + 1
    BY <1>1, FS_AddElement
  <2> HIDE DEF S
  <2> QED BY <1>1, <2>1
<1>3. T \in SUBSET (S \cup {h}) OBVIOUS
<1>4. IsFiniteSet(T) /\ Cardinality(T) <= Cardinality(S \cup {h}) BY <1>2, <1>3, FS_Subset
<1>5. Cardinality(T) \in Nat BY <1>4, FS_CardinalityType
<1>6. Cardinality(S) <= unclosed BY DEF LostInv
<1>7. Cardinality(T) <= unclosed'
  <2> HIDE DEF S, T
  <2> QED BY <1>1, <1>2, <1>4, <1>5, <1>6 DEF HandleInv
<1> QED BY <1>7 DEF LostInv

LEMMA MainLost == ASSUME CallInv, HandleInv, LostInv, Main PROVE LostInv'
<1> SUFFICES (live \ InUse)' \subseteq live \ InUse /\ unclosed' = unclosed BY NoneLost
<1> USE DEF CallInv, HandleInv, InUse, Handles
<1>1. CASE OpenDevice /\ UNCHANGED <<netVars, net2Vars, ifType>>
  BY <1>1 DEF OpenDevice
<1>2. CASE AwaitPrinter /\ UNCHANGED <<faults, netVars, net2Vars, ifType>>
  BY <1>2 DEF AwaitPrinter
<1>3. CASE StartSession /\ UNCHANGED <<faults, netVars, net2Vars, ifType>>
  BY <1>3 DEF StartSession
<1>4. CASE Transfer /\ UNCHANGED <<faults, netVars, net2Vars, ifType>>
  BY <1>4 DEF Transfer
<1>5. CASE CloseDevice /\ UNCHANGED <<faults, netVars, net2Vars, ifType>>
  BY <1>5 DEF CloseDevice
<1> QED BY <1>1, <1>2, <1>3, <1>4, <1>5 DEF Main

LEMMA Net2Lost ==
  ASSUME CallInv, HandleInv, LostInv, ifType = "NET2", Net2Step,
         UNCHANGED <<netVars, ifType, stage>>
  PROVE  LostInv'
<1> DEFINE Kept == (live \ InUse)' \subseteq live \ InUse /\ unclosed' = unclosed
           Lost(h) == (live \ InUse)' \subseteq (live \ InUse) \cup {h} /\ unclosed' = unclosed + 1
<1> SUFFICES Kept \/ \E h : Lost(h) BY NoneLost, OneLost
<1> USE DEF CallInv, HandleInv, InUse, Handles
<1>1. CASE Network2_Open BY <1>1, NewHandleIsFree DEF Network2_Open
<1>2. CASE Network2_NewAddress
  <2>1. Kept \/ Lost(port9100Writer) BY <1>2 DEF Network2_NewAddress
  <2> QED BY <2>1
<1>3. CASE SearchSnmp
  <2>1. Kept \/ Lost(port9100Writer) BY <1>3 DEF SearchSnmp
  <2> QED BY <2>1
<1>4. CASE CopyEntry BY <1>4 DEF CopyEntry
<1>5. CASE CopyFails
  <2>1. Kept \/ Lost(port9100Writer) BY <1>5 DEF CopyFails
  <2> QED BY <2>1
<1>6. CASE ResolveIPAddr
  <2>1. Kept \/ Lost(port9100Writer) BY <1>6 DEF ResolveIPAddr
  <2> QED BY <2>1
<1>7. CASE Network2_StartSession BY <1>7 DEF Network2_StartSession
<1>8. CASE Network2_EndSession BY <1>8 DEF Network2_EndSession
<1>9. CASE Network2_SendDummyData BY <1>9 DEF Network2_SendDummyData
<1>10. CASE Network2_SendData BY <1>10 DEF Network2_SendData
<1>11. CASE SendPiece BY <1>11 DEF SendPiece
<1>12. CASE SendDone BY <1>12 DEF SendDone
<1>13. CASE OpenWriter BY <1>13, NewHandleIsFree DEF OpenWriter
<1>14. CASE Configure BY <1>14 DEF Configure
<1>15. CASE MakeCommand
  <2>1. Kept \/ Lost(chmpWriter) BY <1>15 DEF MakeCommand
  <2> QED BY <2>1
<1>16. CASE WriteCommand BY <1>16 DEF WriteCommand
<1>17. CASE WriteCommandFails BY <1>17 DEF WriteCommandFails
<1>18. CASE Read BY <1>18 DEF Read
<1>19. CASE ReadTimesOut BY <1>19 DEF ReadTimesOut
<1>20. CASE ReadFails BY <1>20 DEF ReadFails
<1>21. CASE EXIT BY <1>21 DEF EXIT
<1> HIDE DEF Kept, Lost
<1> QED BY <1>1, <1>2, <1>3, <1>4, <1>5, <1>6, <1>7, <1>8, <1>9, <1>10, <1>11, <1>12,
    <1>13, <1>14, <1>15, <1>16, <1>17, <1>18, <1>19, <1>20, <1>21 DEF Net2Step,
    ReadStatusPrint, CancelPrint

-----------------------------------------------------------------------------
\* The first protocol leaves the variables of the second alone.
LEMMA NetKeepsNet2 ==
  ASSUME InterfacesInv, ifType = "NET", NetStep,
         UNCHANGED <<net2Vars, ifType, stage>>, CallInv'
  PROVE  HandleInv' /\ SearchInv' /\ QueryInv' /\ CallOfSend' /\ LostInv'
<1> USE DEF InterfacesInv, CallInv
<1>1. call' = call /\ (at' = at \/ at' \in {"returned", "config", "search", "connect", "check",
                                         "error_close", "error_open"})
  BY DEF NetStep, Network_Init, Network_Config, Network_GetIPAddress, Network_OpenEx, Network_Check, error_close, error_open,
                  Network_StartSession, Network_Read, Network_Write, Network_Cancel, Network_Reset, Network_Close
<1>2. HandleInv' BY <1>1 DEF HandleInv, Opened, NetStep, Network_Init, Network_Config, Network_GetIPAddress, Network_OpenEx, Network_Check, error_close, error_open,
                  Network_StartSession, Network_Read, Network_Write, Network_Cancel, Network_Reset, Network_Close
<1>3. SearchInv' BY <1>1 DEF SearchInv, TableInv, Opened
<1>4. at \notin {"command", "read", "EXIT", "send"} BY DEF NetStep, Network_Init, Network_Config, Network_GetIPAddress, Network_OpenEx, Network_Check, error_close, error_open,
                  Network_StartSession, Network_Read, Network_Write, Network_Cancel, Network_Reset, Network_Close
<1>5. QueryInv' BY <1>1, <1>4 DEF QueryInv
<1>6. CallOfSend' BY <1>1, <1>4, SendKept DEF CallOfSend
<1>7. LostInv'
  <2>1. (live \ InUse)' \subseteq live \ InUse BY DEF HandleInv
  <2> QED BY <2>1, NoneLost
<1> QED BY <1>2, <1>3, <1>5, <1>6, <1>7

LEMMA Net2KeepsNet ==
  ASSUME InterfacesInv, ifType = "NET2", UNCHANGED <<netVars, ifType, stage>>
  PROVE  NetInv'
BY DEF InterfacesInv, NetInv, NetTypeOK

LEMMA NothingDone ==
  ASSUME InterfacesInv, NothingToDo, UNCHANGED <<ifType, stage>>
  PROVE  InterfacesInv'
<1> USE DEF InterfacesInv, NothingToDo
<1>1. CallInv' BY DEF CallInv, Places
<1>2. NetInv' BY DEF NetInv, NetTypeOK
<1>3. HandleInv' BY DEF HandleInv, Opened
<1>4. SearchInv' BY DEF SearchInv, TableInv, Opened
<1>5. QueryInv' BY DEF QueryInv
<1>6. CallOfSend' BY SendKept DEF CallOfSend
<1>7. LostInv'
  <2>1. (live \ InUse)' \subseteq live \ InUse BY DEF InUse
  <2> QED BY <2>1, NoneLost
<1> QED BY <1>1, <1>2, <1>3, <1>4, <1>5, <1>6, <1>7

\* The invariant holds before main() has opened anything.
LEMMA Beginning == InterfacesInit => InterfacesInv
<1> SUFFICES ASSUME InterfacesInit PROVE InterfacesInv OBVIOUS
<1> USE DEF InterfacesInit, NetInit, Net2Init
<1>1. CallInv BY DEF CallInv, Calls, Places
<1>2. NetInv
  <2>1. inited \in BOOLEAN /\ connected \in BOOLEAN /\ session \in BOOLEAN BY Zenon
  <2>2. NetTypeOK BY <2>1 DEF NetTypeOK
  <2> QED BY <2>2 DEF NetInv
<1>3. HandleInv BY DEF HandleInv, Opened, Handles
<1>4. SearchInv
  <2>1. TableInv BY EntryOfPrinter DEF TableInv
  <2> QED BY <2>1, Sizes DEF SearchInv, Opened
<1>5. QueryInv
  <2>1. timedOut \in BOOLEAN BY Zenon
  <2> QED BY <2>1, Sizes DEF QueryInv
<1>6. SendInv
  <2>1. Init BY DEF Init
  <2> QED BY <2>1, SendStart
<1>7. CallOfSend BY <1>6 DEF CallOfSend
<1>8. LostInv
  <2>1. live \ InUse = {} OBVIOUS
  <2> QED BY <2>1, FS_EmptySet DEF LostInv
<1> QED BY <1>1, <1>2, <1>3, <1>4, <1>5, <1>7, <1>8 DEF InterfacesInv

\* Every step keeps it.
LEMMA NextStep ==
  ASSUME InterfacesInv, [InterfacesNext]_allVars
  PROVE  InterfacesInv'
<1> USE DEF InterfacesInv
<1>1. CASE Main
  BY <1>1, MainCall, MainNet, MainHandle, MainSearch, MainQuery, MainSend, MainLost
<1>2. CASE Dispatch
  <2> USE <1>2 DEF Dispatch
  <2>1. CASE ifType = "NET" /\ NetStep /\ UNCHANGED net2Vars
    <3>1. CallInv' /\ NetInv' BY <2>1, NetCall, NetNet
    <3> QED BY <2>1, <3>1, NetKeepsNet2
  <2>2. CASE ifType = "NET2" /\ Net2Step /\ UNCHANGED netVars
    <3>1. TypeOK /\ SendInv BY DEF CallOfSend, SendInv
    <3> QED BY <2>2, <3>1, Net2Call, Net2KeepsNet, Net2Handle, Net2Search, Net2Query,
               Net2Send, Net2Lost
  <2>3. CASE NothingToDo
    BY <2>3, NothingDone
  <2> QED BY <2>1, <2>2, <2>3
<1>3. CASE UNCHANGED allVars
  <2> USE <1>3 DEF allVars
  <2>1. CallInv' /\ NetInv' BY DEF CallInv, NetInv, NetTypeOK
  <2>2. HandleInv' BY DEF HandleInv, Opened
  <2>3. SearchInv' /\ QueryInv' BY DEF SearchInv, TableInv, Opened, QueryInv
  <2>4. CallOfSend' BY SendKept DEF CallOfSend
  <2>5. (live \ InUse)' \subseteq live \ InUse BY DEF InUse
  <2> QED BY <2>1, <2>2, <2>3, <2>4, <2>5, NoneLost
<1> QED BY <1>1, <1>2, <1>3 DEF InterfacesNext, Over

LEMMA Invariance == InterfacesSpec => []InterfacesInv
<1>1. InterfacesInit => InterfacesInv BY Beginning
<1>2. InterfacesInv /\ [InterfacesNext]_allVars => InterfacesInv' BY NextStep
<1> QED BY <1>1, <1>2, PTL DEF InterfacesSpec

-----------------------------------------------------------------------------
\* The variables of main() and of both interfaces keep their ranges.
THEOREM InterfacesTyped == InterfacesSpec => []InterfacesTypeOK
<1>1. InterfacesInv => InterfacesTypeOK
  BY DEF InterfacesInv, InterfacesTypeOK, Net2TypeOK, CallInv, NetInv, HandleInv, SearchInv,
         TableInv, QueryInv, CallOfSend, SendInv
<1> QED BY <1>1, Invariance, PTL

\* On the first protocol an open that fails holds nothing, at whichever of its
\* steps it fails, and neither does a program that is over.
THEOREM OpenUnwinds == InterfacesSpec => []NetUnwound
<1>1. InterfacesInv => NetUnwound
  BY DEF InterfacesInv, CallInv, NetInv, NetUnwound
<1> QED BY <1>1, Invariance, PTL

\* On the second no handle is used that is not open, however many queries have
\* failed before.
THEOREM NoStaleHandle == InterfacesSpec => []HandlesInUseAreLive
<1>1. ASSUME InterfacesInv PROVE HandlesInUseAreLive
  <2>1. CallInv /\ HandleInv BY <1>1 DEF InterfacesInv
  <2>2. call \in {"Read", "Cancel", "StartSession", "Write", "KeepSession"}
          => stage \in {"ready", "session", "data"}
    BY <2>1 DEF CallInv
  <2>3. ifType = "NET2" /\ stage \in {"ready", "session", "data"}
          => port9100Writer \in live /\ ipAddr \notin {"null", "freed"}
    BY <2>1 DEF HandleInv, Opened
  <2> QED BY <2>1, <2>2, <2>3 DEF HandlesInUseAreLive, HandleInv
<1> QED BY <1>1, Invariance, PTL

\* Handles are lost only by failed opens and by queries without a library, one
\* by each at most.
THEOREM HandlesCounted == InterfacesSpec => []HandlesAccountedFor
<1>1. ASSUME InterfacesInv PROVE HandlesAccountedFor
  <2>0. CallInv /\ HandleInv /\ LostInv BY <1>1 DEF InterfacesInv
  <2> DEFINE S == live \ InUse   T == live \ {port9100Writer, chmpWriter}
  <2>1. IsFiniteSet(S) /\ Cardinality(S) \in Nat BY <2>0, LostFinite
  <2>2. T \in SUBSET S BY DEF InUse
  <2>3. IsFiniteSet(T) /\ Cardinality(T) <= Cardinality(S) BY <2>1, <2>2, FS_Subset
  <2>4. Cardinality(T) \in Nat BY <2>3, FS_CardinalityType
  <2>5. Cardinality(S) <= unclosed /\ unclosed \in Nat BY <2>0 DEF LostInv, HandleInv
  <2>6. Cardinality(T) <= unclosed
    <3> HIDE DEF S, T
    <3> QED BY <2>1, <2>3, <2>4, <2>5
  <2>7. ASSUME stage = "over" PROVE Cardinality(live) <= unclosed
    <3>1. live = S BY <2>0, <2>7 DEF CallInv, HandleInv, InUse
    <3> HIDE DEF S
    <3> QED BY <2>5, <3>1
  <2> QED BY <2>6, <2>7 DEF HandlesAccountedFor
<1> QED BY <1>1, Invariance, PTL

\* The job goes to an address that a search has given for our printer, or to none.
THEOREM AddressFound == InterfacesSpec => []AddressIsOfPrinter
<1>1. InterfacesInv => AddressIsOfPrinter
  BY DEF InterfacesInv, SearchInv, Opened, AddressIsOfPrinter
<1> QED BY <1>1, Invariance, PTL

\* Also when it is called again and again SendData reports what was taken.
THEOREM EveryCallReports == InterfacesSpec => []ReportsWhatWasTaken
<1>1. InterfacesInv => ReportsWhatWasTaken
  BY DEF InterfacesInv, CallOfSend, SendInv
<1> QED BY <1>1, Invariance, PTL

=============================================================================

------------------------------ MODULE Net2Send ------------------------------
(***************************************************************************)
(* CNIF_Network2_SendData: the buffer of one CNIF_Write on the second      *)
(* network protocol goes out in pieces.  A piece may be taken in part and  *)
(* may time out; three timeouts in a row end the call half-way, and the    *)
(* caller goes on from *writtenSize.                                       *)
(***************************************************************************)
EXTENDS WriteResults, Sequences

CONSTANTS
  MaxSend,   \* bound: the largest buffer, in units
  PieceSize  \* CNMPU2_SEND_DATA_SIZE in units

ASSUME SendAssumption == MaxSend \in Nat /\ PieceSize \in Nat \ {0}

VARIABLES
  bufferSize,   \* the parameter
  writtenSize,  \* *writtenSize
  cnt_timeout, ret,
  returned,     \* the call is over
  taken         \* what the printer took off the wire, in order

vars == <<bufferSize, writtenSize, cnt_timeout, ret, returned, taken>>

TypeOK ==
  /\ bufferSize \in 0 .. MaxSend
  /\ writtenSize \in 0 .. bufferSize
  /\ cnt_timeout \in 0 .. 3
  /\ ret \in {CNNET3_ERR_SUCCESS, CNNET3_ERR_WRITING_TIMEOUT, CN_NET3_SEND_TIMEOUT,
              CNNET3_ERR_FATAL, CNNET3_ERR_NOCONTENT}
  /\ returned \in BOOLEAN
  /\ taken \in Seq(1 .. bufferSize)

Init ==
  /\ bufferSize \in 0 .. MaxSend
  /\ writtenSize = 0 /\ cnt_timeout = 0 /\ ret = 0
  /\ returned = FALSE
  /\ taken = << >>

Smaller(a, b) == IF a < b THEN a ELSE b

\* The piece that is handed to CNNET3_Send.
bufSize == Smaller(bufferSize - writtenSize, PieceSize)

\* The first s units of it are taken, and *writtenSize advances.
Sent_Slip(s) ==   \* *writtenSize advances by the whole piece
  /\ taken' = taken \o [i \in 1 .. s |-> writtenSize + i]
  /\ writtenSize' = writtenSize + bufSize

Sent(s) ==
  /\ taken' = taken \o [i \in 1 .. s |-> writtenSize + i]
  /\ writtenSize' = writtenSize + s

\* A call that succeeds takes something.
SendSucceeds ==
  /\ ~returned /\ writtenSize < bufferSize
  /\ \E s \in 1 .. bufSize : Sent(s)
  /\ ret' = CNNET3_ERR_SUCCESS
  /\ cnt_timeout' = 0
  /\ UNCHANGED <<bufferSize, returned>>

\* A timeout may have taken anything of the piece; the third in a row ends it.
SendTimesOut ==
  /\ ~returned /\ writtenSize < bufferSize
  /\ \E s \in 0 .. bufSize : Sent(s)
  /\ cnt_timeout' = cnt_timeout + 1
  /\ IF cnt_timeout' >= 3
     THEN ret' = CN_NET3_SEND_TIMEOUT /\ returned' = TRUE
     ELSE ret' = CNNET3_ERR_WRITING_TIMEOUT /\ UNCHANGED returned
  /\ UNCHANGED bufferSize

\* Any other code ends it with nothing more taken.
SendFails ==
  /\ ~returned /\ writtenSize < bufferSize
  /\ ret' \in {CNNET3_ERR_FATAL, CNNET3_ERR_NOCONTENT}
  /\ returned' = TRUE
  /\ UNCHANGED <<bufferSize, writtenSize, cnt_timeout, taken>>

\* The loop is through: what the last piece returned is returned.
Return ==
  /\ ~returned /\ writtenSize = bufferSize
  /\ returned' = TRUE
  /\ UNCHANGED <<bufferSize, writtenSize, cnt_timeout, ret, taken>>

Next == SendSucceeds \/ SendTimesOut \/ SendFails \/ Return

\* One call.  Net2Device makes call after call of it.
Spec == Init /\ [][Next]_vars

-----------------------------------------------------------------------------
\* However the pieces fare, the caller is told exactly how much the printer has,
\* so that it can go on from there, and with one of the results that
\* LgmonSession reckons with: success, or a timeout of its own at the very end,
\* only when everything was taken.
ReportsWhatWasTaken ==
  returned => /\ Outcome(Len(taken), writtenSize, ret)
                   \in {Whole(bufferSize)} \cup Net2Outcomes(bufferSize)
              /\ \A i \in DOMAIN taken : taken[i] = i

=============================================================================

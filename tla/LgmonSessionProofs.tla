------------------------- MODULE LgmonSessionProofs -------------------------
(***************************************************************************)
(* The safety properties of LgmonSession, for every value of its           *)
(* constants.  IInv (LgmonInvariant) holds initially, every step keeps it, *)
(* and it implies the properties.  The step lemmas come one per conjunct   *)
(* of IInv, each with one step per action of Next.                         *)
(***************************************************************************)
EXTENDS LgmonInvariant, TLAPS

USE SessionAssumption
USE DEF SessionAssumption, inputs, flags, stdin, loops, wire, replies, printer, process

-----------------------------------------------------------------------------
(***************************************************************************)
(* What the operators return                                               *)
(***************************************************************************)
ReplyOK(r) ==
  /\ r.err \in Int
  /\ r.kind \in {"fail", "garbled", "status"} \cup JobAnswers
  /\ r.printing \in BOOLEAN
  /\ r.printing => ifType = "NET2" /\ pjob = "ours"

\* An answer of CNIF_GetResponse is a number, and only the second protocol's
\* names our job, while the printer has it.
LEMMA ReplyTypes ==
  ASSUME MessageTypes, NEW r \in Replies
  PROVE  ReplyOK(r)
  <1> USE DEF CN_NET3_READ_DATA_FAIL, CN_NET3_FAILED, CN_LGMON_ERROR, CN_LGMON_OK
  <1>1. ASSUME NEW k \in {"fail", "garbled", "status"} \cup JobAnswers, NEW e \in Int
        PROVE  ReplyOK(Reply(k, e, FALSE))
    BY DEF Reply, ReplyOK
  <1>2. ASSUME NEW e \in Int, NEW p \in BOOLEAN, p => ifType = "NET2" /\ pjob = "ours"
        PROVE  ReplyOK(Reply("status", e, p))
    BY <1>2 DEF Reply, ReplyOK
  <1>3. CASE ifType = "NET2"
    <2>1. \/ r = Reply("fail", -7, FALSE)
          \/ r = Reply("garbled", -1, FALSE)
          \/ r = Reply("status", Net2Result(Clss, pstat), Clss = CLSS_OK)
      BY <1>3 DEF Replies, Net2Replies
    <2>2. Net2Result(Clss, pstat) \in Int /\ (Clss = CLSS_OK => pjob = "ours")
      BY DEF Clss, Net2Result, CLSS_OK, CLSS_NOT_SUPPORT_CUSTOM, CLSS_OK_AND_IDLE,
         CLSS_NOT_SUPP_AND_IDLE, CN_IVEC_STATUS_IDLE, CLSS_OK_AND_CANCEL,
         CLSS_NOT_SUPP_AND_CANCEL, CN_IVEC_STATUS_CANCELING
    <2>3. (Clss = CLSS_OK) \in BOOLEAN
      OBVIOUS
    <2>4. ReplyOK(Reply("status", Net2Result(Clss, pstat), Clss = CLSS_OK))
      BY <1>2, <1>3, <2>2, <2>3
    <2>5. ReplyOK(Reply("fail", -7, FALSE)) /\ ReplyOK(Reply("garbled", -1, FALSE))
      BY DEF Reply, ReplyOK
    <2>6. QED
      BY <2>1, <2>4, <2>5
  <1>4. CASE ifType # "NET2"
    <2>1. \/ r = Reply("fail", -1, FALSE)
          \/ r = Reply("garbled", 0, FALSE)
          \/ r = Reply("status", StatusResult(pstat), FALSE)
          \/ \E op \in answers : r = Reply(op, JobAnswerResult[op], FALSE)
      BY <1>4 DEF Replies, IvecReplies
    <2>2. StatusResult(pstat) \in Int
      BY DEF StatusResult, CN_IVEC_STATUS_IDLE, CN_IVEC_STATUS_CANCELING,
         CN_IVEC_STATUS
    <2>3. \A op \in answers : op \in JobAnswers /\ JobAnswerResult[op] \in Int
      BY DEF MessageTypes, JobAnswers, JobAnswerResult, CN_IVEC_STARTJOB,
         CN_IVEC_VENDERSHIFT, CN_IVEC_ENDJOB
    <2>4. ReplyOK(Reply("fail", -1, FALSE)) /\ ReplyOK(Reply("garbled", 0, FALSE))
      BY DEF Reply, ReplyOK
    <2>5. ReplyOK(Reply("status", StatusResult(pstat), FALSE))
      BY <1>1, <2>2
    <2>6. \A op \in answers : ReplyOK(Reply(op, JobAnswerResult[op], FALSE))
      BY <1>1, <2>3
    <2>7. QED
      BY <2>1, <2>4, <2>5, <2>6
  <1>5. QED
    BY <1>3, <1>4

\* On the second protocol, an answer that ends the wait for the job is one the
\* printer gives when it does not have the job.
LEMMA FinishedMeansRid ==
  ASSUME ifType = "NET2", NEW r \in Replies, r.err \in FinishedResults
  PROVE  pjob # "ours"
  <1>1. \/ r = Reply("fail", -7, FALSE)
        \/ r = Reply("garbled", -1, FALSE)
        \/ r = Reply("status", Net2Result(Clss, pstat), Clss = CLSS_OK)
    BY DEF Replies, Net2Replies, CN_NET3_READ_DATA_FAIL, CN_NET3_FAILED
  <1>2. r.err \in {-7, -1, Net2Result(Clss, pstat)}
    BY <1>1 DEF Reply
  <1>3. pjob = "ours" => Net2Result(Clss, pstat) \in {0, 11, 12}
    BY DEF Net2Result, Clss, CLSS_OK, CLSS_OK_AND_IDLE, CLSS_OK_AND_CANCEL
  <1>4. QED
    BY <1>2, <1>3 DEF FinishedResults, CLSS_NOT_SUPPORT_CUSTOM,
       CLSS_NOT_SUPP_AND_IDLE, CLSS_NOT_SUPP_AND_CANCEL

\* CNIF_Write of n units never reports more than the printer took, and less
\* only at the cost of one of the MaxLate late timeouts.
LEMMA OutcomeTypes ==
  ASSUME NEW n \in Nat, NEW o \in WriteOutcomes(n)
  PROVE  /\ o.acc \in 0 .. n /\ o.rep \in 0 .. o.acc /\ o.err \in Int
         /\ o.rep < o.acc => late < MaxLate
  <1> USE DEF Outcome, Whole, CN_LGMON_OK, CN_LGMON_ERROR, CN_NET3_SEND_TIMEOUT,
       CNNET3_ERR_WRITING_TIMEOUT, CNNET3_ERR_FATAL, CNNET3_ERR_NOCONTENT
  <1>1. CASE o = Whole(n)
    BY <1>1
  <1>2. CASE o \in UsbOutcomes(n)
    BY <1>2 DEF UsbOutcomes
  <1>3. CASE o \in NetOutcomes(n)
    BY <1>3 DEF NetOutcomes
  <1>4. CASE o \in Net2Outcomes(n)
    BY <1>4 DEF Net2Outcomes
  <1>5. QED
    BY <1>1, <1>2, <1>3, <1>4 DEF WriteOutcomes

\* Deliver appends the a units of the job behind the place where the buffer
\* starts, which is fpos - readed_data.
LEMMA DeliverFacts ==
  ASSUME TypeOK, StdinInv, NEW a \in 0 .. readed_data, Deliver(a)
  PROVE  /\ received' \in Seq(0 .. job)
         /\ Len(received') = Len(received) + a
         /\ \A i \in 1 .. Len(received) : received'[i] = received[i]
         /\ \A i \in 1 .. a : received'[Len(received) + i] = fpos - readed_data + i
  <1> DEFINE new == [i \in 1 .. a |-> Offset + i]
  <1>1. /\ Offset = fpos - readed_data
        /\ fpos \in Int /\ readed_data \in Int /\ job \in Nat
        /\ fpos <= job /\ readed_data <= fpos
    BY DEF Offset, TypeOK, DataTypes, StdinInv
  <1>2. new \in Seq(0 .. job) /\ Len(new) = a
    BY <1>1
  <1>3. received \in Seq(0 .. job)
    BY DEF TypeOK, DataTypes
  <1>4. received' = received \o new
    BY DEF Deliver
  <1>5. \A i \in 1 .. a : new[i] = fpos - readed_data + i
    BY <1>1
  <1> HIDE DEF new
  <1>6. QED
    BY <1>2, <1>3, <1>4, <1>5

\* An abort command leaves the printer without our job, if it had it.
LEMMA AbortJobTypes ==
  ASSUME TypeOK, NEW cmd \in {"cancel", "reset"}, AbortJob(cmd)
  PROVE  /\ aborts' \subseteq {"cancel", "reset"} /\ aborts' # {}
         /\ pjob' \in {"none", "ours", "gone"} /\ pstat' \in Statuses
         /\ pjob # "none" => pjob' # "none"
         /\ pjob = "gone" => pjob' = "gone"
  <1>1. "idle" \in Statuses
    BY DEF Statuses
  <1>2. aborts' \subseteq {"cancel", "reset"} /\ aborts' # {}
    BY DEF AbortJob, TypeOK, MessageTypes
  <1>3. QED
    BY <1>1, <1>2 DEF AbortJob, TypeOK, PrinterTypes

-----------------------------------------------------------------------------
(***************************************************************************)
(* WriteData: what one CNIF_Write does to the wire, and where main() goes  *)
(***************************************************************************)
\* The printer gets the next o.acc units; the buffer moves by o.rep.
LEMMA WriteWire ==
  ASSUME IInv, NEW o \in WriteOutcomes(readed_data), Write(o)
  PROVE  /\ o.acc \in 0 .. readed_data /\ o.rep \in 0 .. o.acc /\ o.err \in Int
         /\ late' \in 0 .. MaxLate
         /\ late' = 0 => late = 0 /\ o.rep = o.acc
         /\ received' \in Seq(0 .. job)
         /\ Len(received') = Len(received) + o.acc
         /\ \A i \in 1 .. Len(received) : received'[i] = received[i]
         /\ \A i \in 1 .. o.acc : received'[Len(received) + i] = fpos - readed_data + i
  <1> USE DEF IInv
  <1>1. readed_data \in Nat
    BY DEF TypeOK, DataTypes
  <1>2. /\ o.acc \in 0 .. readed_data /\ o.rep \in 0 .. o.acc /\ o.err \in Int
        /\ o.rep < o.acc => late < MaxLate
    BY <1>1, OutcomeTypes
  <1>3. late' \in 0 .. MaxLate /\ (late' = 0 => late = 0 /\ o.rep = o.acc)
    BY <1>2 DEF Write, TypeOK, DataTypes
  <1>4. /\ received' \in Seq(0 .. job)
        /\ Len(received') = Len(received) + o.acc
        /\ \A i \in 1 .. Len(received) : received'[i] = received[i]
        /\ \A i \in 1 .. o.acc : received'[Len(received) + i] = fpos - readed_data + i
    BY <1>2, DeliverFacts DEF Write
  <1>5. QED
    BY <1>2, <1>3, <1>4

\* main() goes back to the head of the send loop, or to onErr.
LEMMA WriteGoes ==
  ASSUME IInv, NEW o \in WriteOutcomes(readed_data), Write(o)
  PROVE  \/ /\ pc' = "poll" /\ readed_data' = readed_data - o.rep
            /\ via' = via /\ err' = o.err /\ aborts' = aborts
         \/ /\ pc' = "reset" /\ readed_data' = readed_data
            /\ via' = "onErr" /\ err' \in Int
  <1> USE DEF GoOnErr, CN_LGMON_OK, CN_LGMON_WRITEDATA_ERROR
  <1>1. o.err \in Int
    BY WriteWire
  <1>2. CASE o.err < 0
    BY <1>1, <1>2 DEF Write
  <1>3. CASE interrupt_sign = 0 /\ ~(o.err < 0)
    BY <1>1, <1>3 DEF Write
  <1>4. CASE interrupt_sign = 1 /\ ~(o.err < 0)
    <2>1. CancelTransfer(o.err) /\ readed_data' = readed_data
      BY <1>1, <1>4 DEF Write
    <2>2. QED
      BY <1>1, <2>1 DEF CancelTransfer
  <1>5. QED
    BY <1>2, <1>3, <1>4 DEF IInv, TypeOK, FlagTypes

\* On the printer's side only an abort changes anything.
LEMMA WritePrinter ==
  ASSUME IInv, NEW o \in WriteOutcomes(readed_data), Write(o)
  PROVE  /\ AbortJob("cancel") \/ (aborts' = aborts /\ pjob' = pjob /\ pstat' = pstat)
         /\ isPrinting' \in BOOLEAN /\ (isPrinting' => isPrinting)
         /\ isCanceled' \in BOOLEAN
  <1>1. isPrinting \in BOOLEAN /\ isCanceled \in BOOLEAN
    BY DEF IInv, TypeOK, FlagTypes
  <1>2. /\ isPrinting' = isPrinting \/ isPrinting' = FALSE
        /\ isCanceled' = isCanceled \/ isCanceled' = FALSE
    BY DEF Write, CancelTransfer
  <1>3. AbortJob("cancel") \/ (aborts' = aborts /\ pjob' = pjob /\ pstat' = pstat)
    BY DEF Write, CancelTransfer
  <1>4. isPrinting' \in BOOLEAN /\ (isPrinting' => isPrinting)
    <2>1. CASE isPrinting' = isPrinting
      BY <1>1, <2>1
    <2>2. CASE isPrinting' = FALSE
      BY <2>2
    <2>3. QED
      BY <1>2, <2>1, <2>2
  <1>5. isCanceled' \in BOOLEAN
    BY <1>1, <1>2
  <1>6. QED
    BY <1>3, <1>4, <1>5

\* A write keeps the types ...
LEMMA WriteKeepsTypes ==
  ASSUME IInv, NEW o \in WriteOutcomes(readed_data), Write(o)
  PROVE  TypeOK'
  <1> USE DEF IInv, TypeOK
  <1>1. ProcessTypes'
    BY WriteGoes, WriteWire DEF Write, ProcessTypes
  <1>2. FlagTypes'
    <2>1. flgSendStart' \in BOOLEAN
      BY DEF Write, FlagTypes
    <2>2. QED
      BY <2>1, WritePrinter DEF Write, FlagTypes
  <1>3. readed_data' \in 0 .. WriteSize
    <2>1. readed_data \in 0 .. WriteSize /\ o.acc \in 0 .. readed_data /\ o.rep \in 0 .. o.acc
      BY WriteWire DEF DataTypes
    <2>2. readed_data' = readed_data \/ readed_data' = readed_data - o.rep
      BY WriteGoes
    <2>3. QED
      BY <2>1, <2>2
  <1>4. DataTypes'
    BY <1>3, WriteWire DEF Write, DataTypes
  <1>5. PrinterTypes' /\ MessageTypes'
    BY WritePrinter, AbortJobTypes DEF Write, PrinterTypes, MessageTypes
  <1>6. QED
    BY <1>1, <1>2, <1>4, <1>5 DEF Write

\* ... the bookkeeping of stdin ...
LEMMA WriteKeepsStdin ==
  ASSUME IInv, NEW o \in WriteOutcomes(readed_data), Write(o)
  PROVE  StdinInv'
  <1>1. /\ fpos' = fpos /\ fstate' = fstate /\ sign' = sign /\ job' = job
        /\ copies' = copies /\ pc = "write" /\ fpos \in Nat /\ readed_data \in Nat
    BY DEF Write, IInv, TypeOK, DataTypes
  <1>2. QED
    BY <1>1, WriteGoes, WriteWire DEF IInv, StdinInv, Starting, Sending, Waiting

\* ... the relation between buffer and wire: what is left in the buffer is what
\* the printer lacks of the units read ...
LEMMA WriteKeepsWire ==
  ASSUME IInv, NEW o \in WriteOutcomes(readed_data), Write(o)
  PROVE  WireInv'
  <1> USE DEF IInv
  <1>1. /\ fpos' = fpos /\ job' = job /\ pc = "write" /\ dev' = dev /\ ifType' = ifType
        /\ fpos \in Nat /\ readed_data \in Nat /\ readed_data <= fpos
        /\ received \in Seq(0 .. job)
    BY DEF Write, TypeOK, DataTypes, StdinInv
  <1>2. /\ dev = "session" /\ ifType \in IfTypes /\ via = "none" /\ Reached
        /\ late = 0 => Len(received) = fpos - readed_data
    BY <1>1 DEF WireInv, ControlInv, Sending
  <1>3. pc' \in {"poll", "reset"} /\ via' # "OK"
    BY <1>2, WriteGoes
  <1>4. ASSUME pc' = "poll" PROVE Reached'
    <2>1. readed_data' = readed_data - o.rep
      BY <1>4, WriteGoes
    <2>2. CASE o.acc = 0
      <3>1. Len(received') = Len(received) /\ o.rep = 0
        BY <2>2, WriteWire, <1>1
      <3>2. received' = << >> <=> received = << >>
        BY <3>1, <1>1, WriteWire
      <3>3. received # << >> => received'[Len(received')] = received[Len(received)]
        BY <3>1, <1>1, WriteWire
      <3>4. QED
        BY <1>1, <1>2, <2>1, <3>1, <3>2, <3>3 DEF Reached
    <2>3. CASE o.acc > 0
      <3>1. o.acc \in 1 .. o.acc /\ Len(received) \in Nat
        BY <1>1, <2>3, WriteWire
      <3>2. Len(received') = Len(received) + o.acc /\ Len(received') > 0
        BY <3>1, WriteWire
      <3>3. received'[Len(received')] = fpos - readed_data + o.acc
        BY <3>1, <3>2, WriteWire
      <3>4. received' # << >>
        BY <3>2
      <3>5. QED
        BY <1>1, <2>1, <3>3, <3>4, WriteWire DEF Reached
    <2>4. QED
      BY <2>2, <2>3, WriteWire
  <1>5. pc' = "poll" /\ late' = 0 => Len(received') = fpos' - readed_data'
    BY <1>1, <1>2, WriteWire, WriteGoes
  <1>6. QED
    BY <1>1, <1>2, <1>3, <1>4, <1>5 DEF WireInv, Starting, Sending, Waiting

\* ... and the order on the wire.
LEMMA WriteKeepsOrder ==
  ASSUME IInv, NEW o \in WriteOutcomes(readed_data), Write(o)
  PROVE  InOrder' /\ NoGap'
  <1> USE DEF IInv
  <1>1. /\ job' = job /\ pc = "write" /\ job \in Nat /\ received \in Seq(0 .. job)
        /\ fpos \in Nat /\ readed_data \in Nat /\ readed_data <= fpos /\ fpos <= job
    BY DEF Write, TypeOK, DataTypes, StdinInv
  <1>2. Reached /\ (late = 0 => Len(received) = fpos - readed_data)
    BY <1>1 DEF WireInv, Sending
  <1>3. /\ DOMAIN received' = 1 .. Len(received) + o.acc
        /\ DOMAIN received = 1 .. Len(received) /\ Len(received) \in Nat
    BY <1>1, WriteWire
  <1>4. ASSUME NEW i \in 1 .. Len(received) + o.acc, i > Len(received)
        PROVE  received'[i] = fpos - readed_data + (i - Len(received))
    <2>1. /\ i - Len(received) \in 1 .. o.acc
          /\ i = Len(received) + (i - Len(received))
      BY <1>3, <1>4, WriteWire
    <2>2. QED
      BY <2>1, WriteWire
  <1>5. InOrder'
    <2> SUFFICES ASSUME late' = 0, NEW i \in 1 .. Len(received) + o.acc
                 PROVE  received'[i] = IF i <= job THEN i ELSE 0
      BY <1>1, <1>3 DEF InOrder
    <2>1. late = 0 /\ Len(received) = fpos - readed_data
      BY <1>2, WriteWire
    <2>2. CASE i <= Len(received)
      BY <1>3, <2>1, <2>2, WriteWire DEF InOrder
    <2>3. CASE i > Len(received)
      BY <1>1, <1>3, <1>4, <2>1, <2>3, WriteWire
    <2>4. QED
      BY <1>3, <2>2, <2>3, WriteWire
  <1>6. NoGap'
    <2> SUFFICES ASSUME NEW i \in 1 .. Len(received) + o.acc
                 PROVE  received'[i] <= IF i = 1 THEN 1 ELSE received'[i - 1] + 1
      BY <1>3 DEF NoGap
    <2>1. o.acc \in Nat /\ i \in Int
      BY <1>1, WriteWire
    <2>2. CASE i <= Len(received)
      <3>1. received[i] <= IF i = 1 THEN 1 ELSE received[i - 1] + 1
        BY <1>3, <2>1, <2>2 DEF NoGap
      <3>2. received'[i] = received[i] /\ (i # 1 => received'[i - 1] = received[i - 1])
        BY <1>3, <2>1, <2>2, WriteWire
      <3>3. QED
        BY <3>1, <3>2
    <2>3. CASE i = Len(received) + 1
      <3>1. received'[i] = fpos - readed_data + 1
        BY <1>1, <1>3, <1>4, <2>1, <2>3
      <3>2. CASE received = << >>
        BY <1>1, <1>2, <2>3, <3>1, <3>2 DEF Reached
      <3>3. CASE received # << >>
        <4>1. /\ Len(received) >= 1 /\ received[Len(received)] >= fpos - readed_data
              /\ received[Len(received)] \in 0 .. job
          BY <1>1, <1>2, <1>3, <3>3 DEF Reached
        <4>2. received'[i - 1] = received[Len(received)] /\ i # 1
          BY <1>3, <2>3, <4>1, WriteWire
        <4>3. QED
          BY <1>1, <3>1, <4>1, <4>2
      <3>4. QED
        BY <3>2, <3>3
    <2>4. CASE i > Len(received) + 1
      <3>1. i - 1 \in 1 .. Len(received) + o.acc /\ i - 1 > Len(received) /\ i # 1
        BY <1>3, <2>1, <2>4
      <3>2. received'[i - 1] = fpos - readed_data + ((i - 1) - Len(received))
        BY <1>4, <3>1
      <3>3. received'[i] = fpos - readed_data + (i - Len(received))
        BY <1>3, <1>4, <2>1, <2>4
      <3>4. QED
        BY <1>1, <1>3, <2>1, <3>1, <3>2, <3>3
    <2>5. QED
      BY <1>3, <2>1, <2>2, <2>3, <2>4
  <1>7. QED
    BY <1>5, <1>6

-----------------------------------------------------------------------------
(***************************************************************************)
(* Every step keeps every conjunct of IInv                                 *)
(***************************************************************************)
\* The status names are statuses.
LEMMA StatusNames ==
  /\ "idle" \in Statuses /\ "processing" \in Statuses
  /\ "stopped" \in Statuses /\ "canceling" \in Statuses
  BY DEF Statuses

\* The types.
LEMMA TypeStep ==
  ASSUME IInv, [Next]_vars
  PROVE  TypeOK'
  <1> USE DEF IInv, TypeOK, ProcessTypes, FlagTypes, DataTypes, PrinterTypes,
     MessageTypes
  <1>1. CASE Prepare
    BY <1>1 DEF Prepare, PrepareFails, PrepareReads, Fread, GoOnErr, Smaller,
       IfTypes, StdinInv, CN_LGMON_OK, CN_LGMON_OTHER_ERROR,
       CN_LGMON_DYNAMID_LINK_ERROR
  <1>2. CASE OpenFails
    BY <1>2 DEF OpenFails, CN_LGMON_ERROR
  <1>3. CASE OpenSucceeds
    BY <1>3 DEF OpenSucceeds, CN_LGMON_OK
  <1>4. CASE ClearBuffer
    <2>1. \A r \in Replies : ReplyOK(r)
      BY ReplyTypes
    <2>2. QED
      BY <1>4, <2>1 DEF ClearBuffer, Take, Consume, GoOnErr,
         CN_LGMON_RESPONSE_ERROR, ReplyOK
  <1>5. CASE AwaitIdle
    <2>1. \A r \in Replies : ReplyOK(r)
      BY ReplyTypes
    <2>2. QED
      BY <1>5, <2>1 DEF AwaitIdle, Take, Consume, GoOnErr,
         CN_LGMON_RESPONSE_ERROR, ReplyOK
  <1>6. CASE StartSession
    <2>1. \A r \in Replies : ReplyOK(r)
      BY ReplyTypes
    <2>2. QED
      BY <1>6, <2>1 DEF StartSession, SessionStarts, SessionResults, Take, Consume, GoOnErr,
         CN_LGMON_OK, CN_LGMON_OPEN_ERROR, CN_LGMON_BUSY, CN_LGMON_ERROR,
         CNNET3_ERR_NOCONTENT, ReplyOK
  <1>7. CASE NextCopy
    BY <1>7 DEF NextCopy
  <1>8. CASE NextChunk
    BY <1>8 DEF NextChunk, AtEnd, Broken, GoOnErr, CN_LGMON_OTHER_ERROR
  <1>9. CASE PollStatus
    <2>1. PICK r \in Replies : Take(r) /\ err' = r.err
      BY <1>9 DEF PollStatus
    <2>2. ReplyOK(r)
      BY ReplyTypes
    <2>3. interrupt_sign' \in {0, 1} /\ isCanceled' \in BOOLEAN
      BY <1>9 DEF PollStatus
    <2>4. QED
      BY <1>9, <2>1, <2>2, <2>3 DEF PollStatus, ReplyOK, Take, Consume
  <1>10. CASE SkipPoll
    BY <1>10 DEF SkipPoll
  <1>11. CASE ReadNext
    BY <1>11 DEF ReadNext, Fread, Smaller
  <1>12. CASE WriteData
    BY <1>12, WriteKeepsTypes DEF WriteData
  <1>13. CASE NothingSent
    BY <1>13 DEF NothingSent, GoOK
  <1>14. CASE KeepSession
    <2>1. received' \in Seq(0 .. job) /\ keeps' \in 0 .. MaxKeeps
      BY <1>14 DEF KeepSession
    <2>2. QED
      BY <1>14, <2>1 DEF KeepSession
  <1>15. CASE SkipKeep
    BY <1>15 DEF SkipKeep
  <1>16. CASE CancelWaiting
    <2>1. MessageTypes' /\ PrinterTypes'
      BY <1>16, AbortJobTypes DEF CancelWaiting
    <2>2. err' \in Int
      BY <1>16 DEF CancelWaiting, GoOnErr, CN_LGMON_OK, CN_NET3_FAILED
    <2>3. QED
      BY <1>16, <2>1, <2>2 DEF CancelWaiting, GoOnErr
  <1>17. CASE Await
    <2>1. PICK r \in Replies : AwaitFinish(r) \/ AwaitReady(r)
      BY <1>17 DEF Await
    <2>2. ReplyOK(r)
      BY ReplyTypes
    <2>3. CASE AwaitFinish(r)
      <3>1. isPrinting' \in BOOLEAN
        BY <2>2, <2>3 DEF AwaitFinish, ReplyOK
      <3>2. QED
        BY <2>2, <2>3, <3>1 DEF AwaitFinish, ReplyOK, Consume, GoOK
    <2>4. CASE AwaitReady(r)
      BY <2>2, <2>4 DEF AwaitReady, ReplyOK, Take, Consume, GoOK, GoOnErr,
         CN_LGMON_RESPONSE_ERROR
    <2>5. QED
      BY <2>1, <2>3, <2>4
  <1>18. CASE InterruptReady
    BY <1>18 DEF InterruptReady, GoOnErr
  <1>19. CASE Reset
    <2>1. MessageTypes' /\ PrinterTypes'
      BY <1>19, AbortJobTypes DEF Reset
    <2>2. QED
      BY <1>19, <2>1 DEF Reset
  <1>20. CASE Close
    BY <1>20 DEF Close
  <1>21. CASE SigCatch
    BY <1>21 DEF SigCatch
  <1>22. CASE OtherHostPrints
    BY <1>22 DEF OtherHostPrints
  <1>23. CASE OtherHostDone
    BY <1>23, StatusNames DEF OtherHostDone
  <1>24. CASE PrinterTakesJob
    BY <1>24, StatusNames DEF PrinterTakesJob, Queue, JobAnswers
  <1>25. CASE PrinterStops
    BY <1>25, StatusNames DEF PrinterStops
  <1>26. CASE PrinterResumes
    BY <1>26, StatusNames DEF PrinterResumes
  <1>27. CASE PanelCancel
    BY <1>27, StatusNames DEF PanelCancel
  <1>28. CASE PrinterDropsJob
    BY <1>28, StatusNames DEF PrinterDropsJob
  <1>29. CASE PrinterFinishes
    BY <1>29, StatusNames DEF PrinterFinishes, Queue, JobAnswers
  <1>30. CASE FallSilent
    BY <1>30 DEF FallSilent
  <1>31. CASE AnswerAgain
    <2>1. PrinterTypes'
      BY <1>31 DEF AnswerAgain
    <2>2. QED
      BY <1>31, <2>1 DEF AnswerAgain
  <1>32. CASE UNCHANGED vars
    BY <1>32 DEF vars
  <1>33. QED
    BY <1>1, <1>2, <1>3, <1>4, <1>5, <1>6, <1>7, <1>8, <1>9, <1>10, <1>11,
       <1>12, <1>13, <1>14, <1>15, <1>16, <1>17, <1>18, <1>19, <1>20, <1>21,
       <1>22, <1>23, <1>24, <1>25, <1>26, <1>27, <1>28, <1>29, <1>30, <1>31,
       <1>32 DEF Next, Lgmon3, Terminated, Printer

\* Where main() is, and what it holds there.
LEMMA ControlStep ==
  ASSUME IInv, [Next]_vars
  PROVE  ControlInv'
  <1> USE DEF IInv, ControlInv, Starting, Sending, Waiting
  <1>1. CASE Prepare
    BY <1>1 DEF Prepare, PrepareFails, PrepareReads, GoOnErr, IfTypes
  <1>2. CASE OpenFails
    BY <1>2 DEF OpenFails
  <1>3. CASE OpenSucceeds
    BY <1>3 DEF OpenSucceeds
  <1>4. CASE ClearBuffer
    BY <1>4 DEF ClearBuffer, Take, Consume, GoOnErr
  <1>5. CASE AwaitIdle
    BY <1>5 DEF AwaitIdle, Take, Consume, GoOnErr
  <1>6. CASE StartSession
    <2>1. ifType \in IfTypes /\ via = "none" /\ pc = "start" /\ aborts' = aborts
      BY <1>6 DEF StartSession
    <2>2. QED
      BY <1>6, <2>1 DEF StartSession, SessionStarts, GoOnErr
  <1>7. CASE NextCopy
    BY <1>7 DEF NextCopy
  <1>8. CASE NextChunk
    BY <1>8 DEF NextChunk, AtEnd, Broken, GoOnErr
  <1>9. CASE PollStatus
    BY <1>9 DEF PollStatus, Take, Consume
  <1>10. CASE SkipPoll
    BY <1>10 DEF SkipPoll
  <1>11. CASE ReadNext
    BY <1>11 DEF ReadNext, Fread
  <1>12. CASE WriteData
    <2>1. PICK o \in WriteOutcomes(readed_data) : Write(o)
      BY <1>12 DEF WriteData
    <2>2. pc = "write" /\ dev' = dev /\ ifType' = ifType
      BY <2>1 DEF Write
    <2>3. QED
      BY <2>1, <2>2, WriteGoes
  <1>13. CASE NothingSent
    BY <1>13 DEF NothingSent, GoOK
  <1>14. CASE KeepSession
    BY <1>14 DEF KeepSession
  <1>15. CASE SkipKeep
    BY <1>15 DEF SkipKeep
  <1>16. CASE CancelWaiting
    BY <1>16 DEF CancelWaiting, GoOnErr
  <1>17. CASE Await
    BY <1>17 DEF Await, AwaitFinish, AwaitReady, Take, Consume, GoOnErr, GoOK
  <1>18. CASE InterruptReady
    BY <1>18 DEF InterruptReady, GoOnErr
  <1>19. CASE Reset
    BY <1>19 DEF Reset
  <1>20. CASE Close
    BY <1>20 DEF Close
  <1>21. CASE SigCatch
    BY <1>21 DEF SigCatch
  <1>22. CASE Printer
    BY <1>22 DEF Printer, OtherHostPrints, OtherHostDone, PrinterTakesJob,
       PrinterStops, PrinterResumes, PanelCancel, PrinterDropsJob,
       PrinterFinishes, FallSilent, AnswerAgain
  <1>23. CASE UNCHANGED vars
    BY <1>23 DEF vars
  <1>24. QED
    BY <1>1, <1>2, <1>3, <1>4, <1>5, <1>6, <1>7, <1>8, <1>9, <1>10, <1>11,
       <1>12, <1>13, <1>14, <1>15, <1>16, <1>17, <1>18, <1>19, <1>20, <1>21,
       <1>22, <1>23 DEF Next, Lgmon3, Terminated

\* How far stdin has been read.
LEMMA StdinStep ==
  ASSUME IInv, [Next]_vars
  PROVE  StdinInv'
  <1> USE DEF IInv, TypeOK, DataTypes, FlagTypes, StdinInv, Starting, Sending,
     Waiting
  <1>1. CASE Prepare
    <2>1. UNCHANGED <<job, copies, sign>> /\ pc = "prepare"
          /\ pc' \in {"reset", "exit", "open"}
      BY <1>1 DEF Prepare, PrepareFails, PrepareReads, GoOnErr
    <2>2. CASE PrepareFails
      <3>1. UNCHANGED stdin /\ pc' = "reset"
        BY <2>2 DEF PrepareFails, GoOnErr
      <3>2. QED
        BY <2>1, <3>1
    <2>3. CASE PrepareReads
      <3>1. /\ fpos' = readed_data' /\ fpos' \in 0 .. job
            /\ fstate' = "eof" => fpos' = job
        BY <2>1, <2>3 DEF PrepareReads, Fread, Smaller
      <3>2. QED
        BY <2>1, <3>1
    <2>4. QED
      BY <1>1, <2>2, <2>3 DEF Prepare
  <1>2. CASE OpenFails
    BY <1>2 DEF OpenFails
  <1>3. CASE OpenSucceeds
    BY <1>3 DEF OpenSucceeds
  <1>4. CASE ClearBuffer
    BY <1>4 DEF ClearBuffer, Take, Consume, GoOnErr
  <1>5. CASE AwaitIdle
    BY <1>5 DEF AwaitIdle, Take, Consume, GoOnErr
  <1>6. CASE StartSession
    BY <1>6 DEF StartSession, SessionStarts, Take, Consume, GoOnErr
  <1>7. CASE NextCopy
    BY <1>7 DEF NextCopy
  <1>8. CASE NextChunk
    BY <1>8 DEF NextChunk, AtEnd, Broken, GoOnErr
  <1>9. CASE PollStatus
    BY <1>9 DEF PollStatus, Take, Consume
  <1>10. CASE SkipPoll
    BY <1>10 DEF SkipPoll
  <1>11. CASE ReadNext
    BY <1>11 DEF ReadNext, Fread, Smaller
  <1>12. CASE WriteData
    BY <1>12, WriteKeepsStdin DEF WriteData, IInv
  <1>13. CASE NothingSent
    BY <1>13 DEF NothingSent, GoOK
  <1>14. CASE KeepSession
    BY <1>14 DEF KeepSession
  <1>15. CASE SkipKeep
    BY <1>15 DEF SkipKeep
  <1>16. CASE CancelWaiting
    BY <1>16 DEF CancelWaiting, GoOnErr
  <1>17. CASE Await
    BY <1>17 DEF Await, AwaitFinish, AwaitReady, Take, Consume, GoOnErr, GoOK
  <1>18. CASE InterruptReady
    BY <1>18 DEF InterruptReady, GoOnErr
  <1>19. CASE Reset
    BY <1>19 DEF Reset
  <1>20. CASE Close
    BY <1>20 DEF Close
  <1>21. CASE SigCatch
    BY <1>21 DEF SigCatch
  <1>22. CASE Printer
    BY <1>22 DEF Printer, OtherHostPrints, OtherHostDone, PrinterTakesJob,
       PrinterStops, PrinterResumes, PanelCancel, PrinterDropsJob,
       PrinterFinishes, FallSilent, AnswerAgain
  <1>23. CASE UNCHANGED vars
    BY <1>23 DEF vars
  <1>24. QED
    BY <1>1, <1>2, <1>3, <1>4, <1>5, <1>6, <1>7, <1>8, <1>9, <1>10, <1>11,
       <1>12, <1>13, <1>14, <1>15, <1>16, <1>17, <1>18, <1>19, <1>20, <1>21,
       <1>22, <1>23 DEF Next, Lgmon3, Terminated

\* How far the printer has read.
LEMMA WireStep ==
  ASSUME IInv, [Next]_vars
  PROVE  WireInv'
  <1> USE DEF IInv, WireInv, ControlInv, StdinInv, Starting, Sending, Waiting,
     TypeOK, DataTypes, Reached, AllTaken
  <1>1. CASE Prepare
    BY <1>1 DEF Prepare, PrepareFails, PrepareReads, Fread, GoOnErr, Smaller
  <1>2. CASE OpenFails
    BY <1>2 DEF OpenFails
  <1>3. CASE OpenSucceeds
    BY <1>3 DEF OpenSucceeds
  <1>4. CASE ClearBuffer
    BY <1>4 DEF ClearBuffer, Take, Consume, GoOnErr
  <1>5. CASE AwaitIdle
    BY <1>5 DEF AwaitIdle, Take, Consume, GoOnErr
  <1>6. CASE StartSession
    BY <1>6 DEF StartSession, SessionStarts, Take, Consume, GoOnErr
  <1>7. CASE NextCopy
    <2>1. /\ received' = received /\ late' = late /\ job' = job /\ fpos' = fpos
          /\ readed_data' = readed_data /\ via' = via /\ dev' = dev
          /\ ifType' = ifType
      BY <1>7 DEF NextCopy
    <2>2. CASE copies > 0
      BY <1>7, <2>1, <2>2 DEF NextCopy
    <2>3. CASE copies = 0
      <3>1. sign = 0 /\ readed_data = 0 /\ fpos = job
        BY <1>7, <2>3 DEF NextCopy, FlagTypes
      <3>2. ASSUME job > 0 PROVE AllTaken
        <4>1. received # << >> /\ received[Len(received)] >= job
          BY <1>7, <3>1, <3>2 DEF NextCopy
        <4>2. /\ Len(received) \in DOMAIN received
              /\ received[Len(received)] \in 0 .. job
          BY <4>1
        <4>3. QED
          BY <4>1, <4>2
      <3>3. QED
        BY <1>7, <2>1, <2>3, <3>1, <3>2 DEF NextCopy
    <2>4. QED
      BY <2>2, <2>3
  <1>8. CASE NextChunk
    BY <1>8 DEF NextChunk, AtEnd, Broken, GoOnErr
  <1>9. CASE PollStatus
    BY <1>9 DEF PollStatus, Take, Consume
  <1>10. CASE SkipPoll
    BY <1>10 DEF SkipPoll
  <1>11. CASE ReadNext
    BY <1>11 DEF ReadNext, Fread, Smaller
  <1>12. CASE WriteData
    BY <1>12, WriteKeepsWire DEF WriteData
  <1>13. CASE NothingSent
    BY <1>13 DEF NothingSent, GoOK
  <1>14. CASE KeepSession
    <2>1. /\ fpos = job /\ readed_data = 0 /\ pc' = "finish"
          /\ job' = job /\ late' = late /\ via' = via
      BY <1>14 DEF KeepSession
    <2>2. CASE received' = received
      BY <1>14, <2>1, <2>2 DEF KeepSession
    <2>3. CASE received' = Append(received, 0)
      <3>1. /\ Len(received') = Len(received) + 1
            /\ \A i \in 1 .. Len(received) : received'[i] = received[i]
        BY <2>3
      <3>2. AllTaken => AllTaken'
        BY <2>1, <3>1
      <3> HIDE DEF AllTaken
      <3>3. QED
        BY <1>14, <2>1, <3>1, <3>2 DEF KeepSession
    <2>4. QED
      BY <1>14, <2>2, <2>3 DEF KeepSession
  <1>15. CASE SkipKeep
    BY <1>15 DEF SkipKeep
  <1>16. CASE CancelWaiting
    BY <1>16 DEF CancelWaiting, GoOnErr
  <1>17. CASE Await
    BY <1>17 DEF Await, AwaitFinish, AwaitReady, Take, Consume, GoOnErr, GoOK
  <1>18. CASE InterruptReady
    BY <1>18 DEF InterruptReady, GoOnErr
  <1>19. CASE Reset
    BY <1>19 DEF Reset
  <1>20. CASE Close
    BY <1>20 DEF Close
  <1>21. CASE SigCatch
    BY <1>21 DEF SigCatch
  <1>22. CASE Printer
    BY <1>22 DEF Printer, OtherHostPrints, OtherHostDone, PrinterTakesJob,
       PrinterStops, PrinterResumes, PanelCancel, PrinterDropsJob,
       PrinterFinishes, FallSilent, AnswerAgain
  <1>23. CASE UNCHANGED vars
    BY <1>23 DEF vars
  <1>24. QED
    BY <1>1, <1>2, <1>3, <1>4, <1>5, <1>6, <1>7, <1>8, <1>9, <1>10, <1>11,
       <1>12, <1>13, <1>14, <1>15, <1>16, <1>17, <1>18, <1>19, <1>20, <1>21,
       <1>22, <1>23 DEF Next, Lgmon3, Terminated

\* The order on the wire.
LEMMA OrderStep ==
  ASSUME IInv, [Next]_vars
  PROVE  (InOrder /\ NoGap)'
  <1> USE DEF IInv, InOrder, NoGap
  <1>1. CASE Prepare
    BY <1>1 DEF Prepare, PrepareFails, PrepareReads, Fread, GoOnErr
  <1>2. CASE OpenFails
    BY <1>2 DEF OpenFails
  <1>3. CASE OpenSucceeds
    BY <1>3 DEF OpenSucceeds
  <1>4. CASE ClearBuffer
    BY <1>4 DEF ClearBuffer, Take, Consume, GoOnErr
  <1>5. CASE AwaitIdle
    BY <1>5 DEF AwaitIdle, Take, Consume, GoOnErr
  <1>6. CASE StartSession
    BY <1>6 DEF StartSession, SessionStarts, Take, Consume, GoOnErr
  <1>7. CASE NextCopy
    BY <1>7 DEF NextCopy
  <1>8. CASE NextChunk
    BY <1>8 DEF NextChunk, AtEnd, Broken, GoOnErr
  <1>9. CASE PollStatus
    BY <1>9 DEF PollStatus, Take, Consume
  <1>10. CASE SkipPoll
    BY <1>10 DEF SkipPoll
  <1>11. CASE ReadNext
    BY <1>11 DEF ReadNext, Fread
  <1>12. CASE WriteData
    BY <1>12, WriteKeepsOrder DEF WriteData
  <1>13. CASE NothingSent
    BY <1>13 DEF NothingSent, GoOK
  <1>14. CASE KeepSession
    <2>1. job' = job /\ late' = late /\ (late = 0 => Len(received) >= job)
      BY <1>14 DEF KeepSession, IInv, WireInv, Waiting
    <2>2. CASE received' = received
      BY <2>1, <2>2
    <2>3. CASE received' = Append(received, 0)
      <3>1. /\ Len(received') = Len(received) + 1 /\ received'[Len(received) + 1] = 0
            /\ \A i \in 1 .. Len(received) : received'[i] = received[i]
            /\ DOMAIN received' = 1 .. Len(received) + 1
            /\ DOMAIN received = 1 .. Len(received) /\ job \in Nat
        BY <2>3 DEF IInv, TypeOK, DataTypes
      <3>2. InOrder'
        BY <2>1, <3>1
      <3>3. NoGap'
        <4>1. \A i \in 1 .. Len(received) : received[i] \in 0 .. job
          BY DEF IInv, TypeOK, DataTypes
        <4>2. ASSUME NEW i \in 1 .. Len(received) + 1
              PROVE  received'[i] <= IF i = 1 THEN 1 ELSE received'[i - 1] + 1
          <5>1. CASE i <= Len(received)
            <6>1. received'[i] = received[i] /\ (i # 1 => received'[i - 1] = received[i - 1])
              BY <3>1, <5>1
            <6>2. QED
              BY <3>1, <5>1, <6>1
          <5>2. CASE i = Len(received) + 1
            <6>1. received'[i] = 0 /\ (i # 1 => received'[i - 1] \in 0 .. job)
              BY <3>1, <4>1, <5>2
            <6>2. QED
              BY <3>1, <6>1
          <5>3. QED
            BY <5>1, <5>2
        <4>3. QED
          BY <3>1, <4>2
      <3>4. QED
        BY <3>2, <3>3
    <2>4. QED
      BY <1>14, <2>2, <2>3 DEF KeepSession
  <1>15. CASE SkipKeep
    BY <1>15 DEF SkipKeep
  <1>16. CASE CancelWaiting
    BY <1>16 DEF CancelWaiting, GoOnErr
  <1>17. CASE Await
    BY <1>17 DEF Await, AwaitFinish, AwaitReady, Take, Consume, GoOnErr, GoOK
  <1>18. CASE InterruptReady
    BY <1>18 DEF InterruptReady, GoOnErr
  <1>19. CASE Reset
    BY <1>19 DEF Reset
  <1>20. CASE Close
    BY <1>20 DEF Close
  <1>21. CASE SigCatch
    BY <1>21 DEF SigCatch
  <1>22. CASE Printer
    BY <1>22 DEF Printer, OtherHostPrints, OtherHostDone, PrinterTakesJob,
       PrinterStops, PrinterResumes, PanelCancel, PrinterDropsJob,
       PrinterFinishes, FallSilent, AnswerAgain
  <1>23. CASE UNCHANGED vars
    BY <1>23 DEF vars
  <1>24. QED
    BY <1>1, <1>2, <1>3, <1>4, <1>5, <1>6, <1>7, <1>8, <1>9, <1>10, <1>11,
       <1>12, <1>13, <1>14, <1>15, <1>16, <1>17, <1>18, <1>19, <1>20, <1>21,
       <1>22, <1>23 DEF Next, Lgmon3, Terminated

\* What the printer was told on the way out.
LEMMA AbortStep ==
  ASSUME IInv, [Next]_vars
  PROVE  AbortInv'
  <1> USE DEF IInv, AbortInv, ControlInv, WireInv, Starting, Sending, Waiting,
     TypeOK
  <1>1. CASE Prepare
    BY <1>1 DEF Prepare, PrepareFails, PrepareReads, Fread, GoOnErr
  <1>2. CASE OpenFails
    BY <1>2 DEF OpenFails
  <1>3. CASE OpenSucceeds
    BY <1>3 DEF OpenSucceeds
  <1>4. CASE ClearBuffer
    BY <1>4 DEF ClearBuffer, Take, Consume, GoOnErr
  <1>5. CASE AwaitIdle
    BY <1>5 DEF AwaitIdle, Take, Consume, GoOnErr
  <1>6. CASE StartSession
    BY <1>6 DEF StartSession, SessionStarts, Take, Consume, GoOnErr
  <1>7. CASE NextCopy
    BY <1>7 DEF NextCopy
  <1>8. CASE NextChunk
    BY <1>8 DEF NextChunk, AtEnd, Broken, GoOnErr
  <1>9. CASE PollStatus
    BY <1>9 DEF PollStatus, Take, Consume
  <1>10. CASE SkipPoll
    BY <1>10 DEF SkipPoll
  <1>11. CASE ReadNext
    BY <1>11 DEF ReadNext, Fread
  <1>12. CASE WriteData
    <2>1. PICK o \in WriteOutcomes(readed_data) : Write(o)
      BY <1>12 DEF WriteData
    <2>2. QED
      BY <2>1, WriteGoes
  <1>13. CASE NothingSent
    BY <1>13 DEF NothingSent, GoOK
  <1>14. CASE KeepSession
    BY <1>14 DEF KeepSession
  <1>15. CASE SkipKeep
    BY <1>15 DEF SkipKeep
  <1>16. CASE CancelWaiting
    BY <1>16 DEF CancelWaiting, GoOnErr
  <1>17. CASE Await
    BY <1>17 DEF Await, AwaitFinish, AwaitReady, Take, Consume, GoOnErr, GoOK
  <1>18. CASE InterruptReady
    BY <1>18 DEF InterruptReady, GoOnErr
  <1>19. CASE Reset
    <2>1. CASE ifType \in {"USB", "NET"} /\ dev # "closed"
      BY <1>19, <2>1, AbortJobTypes DEF Reset, Resettable
    <2>2. CASE ~(ifType \in {"USB", "NET"} /\ dev # "closed")
      BY <1>19, <2>2 DEF Reset, Resettable, IfTypes
    <2>3. QED
      BY <2>1, <2>2
  <1>20. CASE Close
    BY <1>20 DEF Close
  <1>21. CASE SigCatch
    BY <1>21 DEF SigCatch
  <1>22. CASE Printer
    BY <1>22 DEF Printer, OtherHostPrints, OtherHostDone, PrinterTakesJob,
       PrinterStops, PrinterResumes, PanelCancel, PrinterDropsJob,
       PrinterFinishes, FallSilent, AnswerAgain
  <1>23. CASE UNCHANGED vars
    BY <1>23 DEF vars
  <1>24. QED
    BY <1>1, <1>2, <1>3, <1>4, <1>5, <1>6, <1>7, <1>8, <1>9, <1>10, <1>11,
       <1>12, <1>13, <1>14, <1>15, <1>16, <1>17, <1>18, <1>19, <1>20, <1>21,
       <1>22, <1>23 DEF Next, Lgmon3, Terminated

\* isPrinting is set only from an answer about our job.
LEMMA SeenStep ==
  ASSUME IInv, [Next]_vars
  PROVE  SeenMeansStarted'
  <1> USE DEF IInv, SeenMeansStarted
  <1>1. CASE Prepare
    <2>1. ~isPrinting
      BY <1>1 DEF Prepare, PrepareFails, PrepareReads, ControlInv
    <2>2. QED
      BY <1>1, <2>1 DEF Prepare
  <1>2. CASE OpenFails
    BY <1>2 DEF OpenFails
  <1>3. CASE OpenSucceeds
    BY <1>3 DEF OpenSucceeds
  <1>4. CASE ClearBuffer
    <2>1. \A r \in Replies : r.printing => ifType = "NET2" /\ pjob = "ours"
      BY ReplyTypes DEF ReplyOK, TypeOK
    <2>2. isPrinting' => isPrinting \/ (ifType = "NET2" /\ pjob = "ours")
      BY <1>4, <2>1 DEF ClearBuffer, Take
    <2>3. ifType' = ifType /\ pjob' = pjob
      BY <1>4 DEF ClearBuffer
    <2>4. QED
      BY <2>2, <2>3
  <1>5. CASE AwaitIdle
    <2>1. \A r \in Replies : r.printing => ifType = "NET2" /\ pjob = "ours"
      BY ReplyTypes DEF ReplyOK, TypeOK
    <2>2. isPrinting' => isPrinting \/ (ifType = "NET2" /\ pjob = "ours")
      BY <1>5, <2>1 DEF AwaitIdle, Take
    <2>3. ifType' = ifType /\ pjob' = pjob
      BY <1>5 DEF AwaitIdle
    <2>4. QED
      BY <2>2, <2>3
  <1>6. CASE StartSession
    <2>1. \A r \in Replies : r.printing => ifType = "NET2" /\ pjob = "ours"
      BY ReplyTypes DEF ReplyOK, TypeOK
    <2>2. isPrinting' => isPrinting \/ (ifType = "NET2" /\ pjob = "ours")
      BY <1>6, <2>1 DEF StartSession, SessionStarts, Take
    <2>3. ifType' = ifType /\ pjob' = pjob
      BY <1>6 DEF StartSession
    <2>4. QED
      BY <2>2, <2>3
  <1>7. CASE NextCopy
    BY <1>7 DEF NextCopy
  <1>8. CASE NextChunk
    BY <1>8 DEF NextChunk, AtEnd, Broken, GoOnErr
  <1>9. CASE PollStatus
    <2>1. \A r \in Replies : r.printing => ifType = "NET2" /\ pjob = "ours"
      BY ReplyTypes DEF ReplyOK, TypeOK
    <2>2. isPrinting' => isPrinting \/ (ifType = "NET2" /\ pjob = "ours")
      BY <1>9, <2>1 DEF PollStatus, Take
    <2>3. ifType' = ifType /\ pjob' = pjob
      BY <1>9 DEF PollStatus
    <2>4. QED
      BY <2>2, <2>3
  <1>10. CASE SkipPoll
    BY <1>10 DEF SkipPoll
  <1>11. CASE ReadNext
    BY <1>11 DEF ReadNext, Fread
  <1>12. CASE WriteData
    <2>1. PICK o \in WriteOutcomes(readed_data) : Write(o)
      BY <1>12 DEF WriteData
    <2>2. isPrinting' => isPrinting
      BY <2>1, WritePrinter
    <2>3. ifType' = ifType /\ (pjob # "none" => pjob' # "none")
      BY <2>1, WritePrinter, AbortJobTypes DEF Write
    <2>4. QED
      BY <2>2, <2>3
  <1>13. CASE NothingSent
    BY <1>13 DEF NothingSent, GoOK
  <1>14. CASE KeepSession
    BY <1>14 DEF KeepSession
  <1>15. CASE SkipKeep
    BY <1>15 DEF SkipKeep
  <1>16. CASE CancelWaiting
    BY <1>16 DEF CancelWaiting
  <1>17. CASE Await
    <2>1. \A r \in Replies : r.printing => ifType = "NET2" /\ pjob = "ours"
      BY ReplyTypes DEF ReplyOK, TypeOK
    <2>2. isPrinting' => isPrinting \/ (ifType = "NET2" /\ pjob = "ours")
      BY <1>17, <2>1 DEF Await, AwaitFinish, AwaitReady, Take
    <2>3. ifType' = ifType /\ pjob' = pjob
      BY <1>17 DEF Await, AwaitFinish, AwaitReady
    <2>4. QED
      BY <2>2, <2>3
  <1>18. CASE InterruptReady
    BY <1>18 DEF InterruptReady, GoOnErr
  <1>19. CASE Reset
    BY <1>19, AbortJobTypes DEF Reset
  <1>20. CASE Close
    BY <1>20 DEF Close
  <1>21. CASE SigCatch
    BY <1>21 DEF SigCatch
  <1>22. CASE Printer
    BY <1>22 DEF Printer, OtherHostPrints, OtherHostDone, PrinterTakesJob,
       PrinterStops, PrinterResumes, PanelCancel, PrinterDropsJob,
       PrinterFinishes, FallSilent, AnswerAgain
  <1>23. CASE UNCHANGED vars
    BY <1>23 DEF vars
  <1>24. QED
    BY <1>1, <1>2, <1>3, <1>4, <1>5, <1>6, <1>7, <1>8, <1>9, <1>10, <1>11,
       <1>12, <1>13, <1>14, <1>15, <1>16, <1>17, <1>18, <1>19, <1>20, <1>21,
       <1>22, <1>23 DEF Next, Lgmon3, Terminated

\* The end of a NET2 job is reported by the printer that has had it.
LEMMA OverStep ==
  ASSUME IInv, [Next]_vars
  PROVE  OKMeansJobOver'
  <1> USE DEF IInv, OKMeansJobOver, ControlInv, Starting, Sending, Waiting
  <1>1. CASE Prepare
    BY <1>1 DEF Prepare, PrepareFails, PrepareReads, Fread, GoOnErr
  <1>2. CASE OpenFails
    BY <1>2 DEF OpenFails
  <1>3. CASE OpenSucceeds
    BY <1>3 DEF OpenSucceeds
  <1>4. CASE ClearBuffer
    BY <1>4 DEF ClearBuffer, Take, Consume, GoOnErr
  <1>5. CASE AwaitIdle
    BY <1>5 DEF AwaitIdle, Take, Consume, GoOnErr
  <1>6. CASE StartSession
    BY <1>6 DEF StartSession, SessionStarts, Take, Consume, GoOnErr
  <1>7. CASE NextCopy
    BY <1>7 DEF NextCopy
  <1>8. CASE NextChunk
    BY <1>8 DEF NextChunk, AtEnd, Broken, GoOnErr
  <1>9. CASE PollStatus
    BY <1>9 DEF PollStatus, Take, Consume
  <1>10. CASE SkipPoll
    BY <1>10 DEF SkipPoll
  <1>11. CASE ReadNext
    BY <1>11 DEF ReadNext, Fread
  <1>12. CASE WriteData
    <2>1. PICK o \in WriteOutcomes(readed_data) : Write(o)
      BY <1>12 DEF WriteData
    <2>2. via' # "OK"
      BY <2>1, WriteGoes DEF Write
    <2>3. QED
      BY <2>2
  <1>13. CASE NothingSent
    BY <1>13 DEF NothingSent, GoOK
  <1>14. CASE KeepSession
    BY <1>14 DEF KeepSession
  <1>15. CASE SkipKeep
    BY <1>15 DEF SkipKeep
  <1>16. CASE CancelWaiting
    BY <1>16 DEF CancelWaiting, GoOnErr
  <1>17. CASE Await
    <2>1. PICK r \in Replies : AwaitFinish(r) \/ AwaitReady(r)
      BY <1>17 DEF Await
    <2>2. CASE AwaitFinish(r)
      <3>1. via = "none" /\ ifType = "NET2" /\ pjob' = pjob /\ ifType' = ifType
        BY <1>17, <2>2 DEF AwaitFinish
      <3>2. via' = "OK" => isPrinting /\ r.err \in FinishedResults
        BY <2>2, <3>1 DEF AwaitFinish, GoOK
      <3>3. via' = "OK" => pjob \notin {"none", "ours"}
        BY <3>1, <3>2, FinishedMeansRid DEF SeenMeansStarted
      <3>4. QED
        BY <3>1, <3>3 DEF TypeOK, PrinterTypes
    <2>3. CASE AwaitReady(r)
      BY <2>3 DEF AwaitReady
    <2>4. QED
      BY <2>1, <2>2, <2>3
  <1>18. CASE InterruptReady
    BY <1>18 DEF InterruptReady, GoOnErr
  <1>19. CASE Reset
    BY <1>19 DEF Reset
  <1>20. CASE Close
    BY <1>20 DEF Close
  <1>21. CASE SigCatch
    BY <1>21 DEF SigCatch
  <1>22. CASE Printer
    BY <1>22 DEF Printer, OtherHostPrints, OtherHostDone, PrinterTakesJob,
       PrinterStops, PrinterResumes, PanelCancel, PrinterDropsJob,
       PrinterFinishes, FallSilent, AnswerAgain
  <1>23. CASE UNCHANGED vars
    BY <1>23 DEF vars
  <1>24. QED
    BY <1>1, <1>2, <1>3, <1>4, <1>5, <1>6, <1>7, <1>8, <1>9, <1>10, <1>11,
       <1>12, <1>13, <1>14, <1>15, <1>16, <1>17, <1>18, <1>19, <1>20, <1>21,
       <1>22, <1>23 DEF Next, Lgmon3, Terminated

-----------------------------------------------------------------------------
(***************************************************************************)
(* The inductive invariant                                                 *)
(***************************************************************************)
\* IInv holds when the signal handler has just been installed.
LEMMA InitInv == Init => IInv
  <1> SUFFICES ASSUME Init PROVE IInv
    OBVIOUS
  <1> USE DEF Init
  <1>1. ProcessTypes
    BY DEF ProcessTypes, CN_LGMON_OK
  <1>2. FlagTypes
    BY DEF FlagTypes
  <1>3. DataTypes
    BY DEF DataTypes
  <1>4. silences \in 0 .. MaxSilences
    OBVIOUS
  <1>5. PrinterTypes
    BY <1>4 DEF PrinterTypes
  <1>6. MessageTypes
    BY DEF MessageTypes
  <1>7. TypeOK
    BY <1>1, <1>2, <1>3, <1>5, <1>6 DEF TypeOK
  <1>8. ControlInv /\ StdinInv /\ AbortInv
    BY DEF ControlInv, StdinInv, AbortInv, Starting, Sending, Waiting
  <1>9. WireInv
    BY DEF WireInv, Starting, Sending, Waiting
  <1>10. InOrder /\ NoGap /\ SeenMeansStarted /\ OKMeansJobOver
    BY DEF InOrder, NoGap, SeenMeansStarted, OKMeansJobOver
  <1>11. QED
    BY <1>7, <1>8, <1>9, <1>10 DEF IInv

\* Every step, of main(), the handler or the printer, keeps IInv.
LEMMA StepInv == IInv /\ [Next]_vars => IInv'
  BY TypeStep, ControlStep, StdinStep, WireStep, OrderStep, AbortStep, SeenStep,
     OverStep DEF IInv

\* IInv is an invariant of the session.
THEOREM Invariance == Spec => []IInv
  BY InitInv, StepInv, PTL DEF Spec

\* Every variable keeps its type: the counts of the send loop never leave the
\* buffer, and fpos never leaves the job.
THEOREM TypeCorrect == Spec => []TypeOK
  BY Invariance, PTL DEF IInv

-----------------------------------------------------------------------------
(***************************************************************************)
(* The properties                                                          *)
(***************************************************************************)
\* However its writes are cut up, retried and timed out, the send loop gives
\* the printer every unit once and in order, unless a USB transfer timed out
\* with everything taken.
THEOREM DataInOrder == Spec => []InOrder
  BY Invariance, PTL DEF IInv

\* Even then nothing is skipped.
THEOREM NothingSkipped == Spec => []NoGap
  BY Invariance, PTL DEF IInv

\* A job that ends through OK was taken whole.
THEOREM WholeJobTaken == Spec => []OKMeansAllTaken
  <1>1. IInv => OKMeansAllTaken
    BY DEF IInv, WireInv, OKMeansAllTaken
  <1>2. QED
    BY <1>1, Invariance, PTL

\* ... was seen through by the printer, on NET2,
THEOREM JobSeenThrough == Spec => []OKMeansJobOver
  BY Invariance, PTL DEF IInv, ControlInv

\* ... and was not aborted.
THEOREM JobNotAborted == Spec => []OKMeansNotAborted
  <1>1. IInv => OKMeansNotAborted
    BY DEF IInv, ControlInv, OKMeansNotAborted
  <1>2. QED
    BY <1>1, Invariance, PTL

\* isPrinting is never ahead of the printer.
THEOREM SeenIsStarted == Spec => []SeenMeansStarted
  BY Invariance, PTL DEF IInv

\* A job broken off half-way on USB or NET is always aborted.
THEOREM BrokenJobAborted == Spec => []HalfJobAborted
  <1>1. IInv => HalfJobAborted
    BY DEF IInv, AbortInv, HalfJobAborted
  <1>2. QED
    BY <1>1, Invariance, PTL

\* Only WriteData and KeepSession send anything to the printer.
LEMMA WhoSends ==
  ASSUME [Next]_vars, received' # received
  PROVE  WriteData \/ KeepSession
  BY DEF Next, Lgmon3, Terminated, vars, Prepare, OpenFails, OpenSucceeds, ClearBuffer,
     AwaitIdle, StartSession, NextCopy, NextChunk, PollStatus, SkipPoll, ReadNext,
     NothingSent, SkipKeep, CancelWaiting, Await, AwaitFinish, AwaitReady,
     InterruptReady, Reset, Close, SigCatch, Printer, OtherHostPrints, OtherHostDone,
     PrinterTakesJob, PrinterStops, PrinterResumes, PanelCancel, PrinterDropsJob,
     PrinterFinishes, FallSilent, AnswerAgain

\* After an abort command no unit follows: every way to an abort leads to the
\* exit, whatever the send loop was doing.
THEOREM QuietAfterAbort == Spec => NoDataAfterAbort
  <1>1. IInv /\ [Next]_vars => (aborts # {} => UNCHANGED received)
    <2> SUFFICES ASSUME IInv, [Next]_vars, aborts # {}, received' # received
                 PROVE  FALSE
      OBVIOUS
    <2>1. pc \in {"write", "keep"}
      BY WhoSends DEF WriteData, Write, KeepSession
    <2>2. via = "onErr"
      BY DEF IInv, ControlInv
    <2>3. QED
      BY <2>1, <2>2 DEF IInv, ControlInv, Sending, Waiting
  <1>2. QED
    BY <1>1, Invariance, PTL DEF Spec, NoDataAfterAbort

\* Data goes out only inside a session that was started.
THEOREM SentInSession == Spec => DataInSession
  <1>1. IInv /\ [Next]_vars
          => (received' # received => dev = "session" /\ pc \in {"write", "keep"})
    <2> SUFFICES ASSUME IInv, [Next]_vars, received' # received
                 PROVE  dev = "session" /\ pc \in {"write", "keep"}
      OBVIOUS
    <2>1. pc \in {"write", "keep"}
      BY WhoSends DEF WriteData, Write, KeepSession
    <2>2. QED
      BY <2>1 DEF IInv, ControlInv, Sending, Waiting
  <1>2. QED
    BY <1>1, Invariance, PTL DEF Spec, DataInSession

-----------------------------------------------------------------------------
(***************************************************************************)
(* The refinement of PrintJob                                              *)
(***************************************************************************)
\* The job part of a tape that is in order is a prefix of the job.
LEMMA PrefixOfOrdered ==
  ASSUME NEW j \in Nat, NEW s \in Seq(0 .. j),
         \A i \in DOMAIN s : s[i] = IF i <= j THEN i ELSE 0
  PROVE  /\ [i \in 1 .. Smaller(Len(s), j) |-> s[i]] = PJ!Prefix(Smaller(Len(s), j))
         /\ Len(PJ!Prefix(Smaller(Len(s), j))) = Smaller(Len(s), j)
         /\ Smaller(Len(s), j) \in 0 .. j
  <1>1. \A i \in 1 .. Smaller(Len(s), j) : s[i] = i
    BY DEF Smaller
  <1>2. Smaller(Len(s), j) \in 0 .. j
    BY DEF Smaller
  <1>3. QED
    BY <1>1, <1>2 DEF PJ!Prefix

\* What a step does to the job as PrintJob sees it.
LEMMA SeenFromOutside ==
  ASSUME IInv, [Next]_vars
  PROVE  /\ job' = job
         /\ Len(received') >= Len(received)
         /\ aborts # {} => aborts' # {} /\ received' = received
         /\ pc = "exit" => UNCHANGED <<pc, via, received, aborts>>
         /\ pc # "exit" /\ pc' = "exit" =>
              received' = received /\ aborts' = aborts /\ (via' = "OK" => via = "OK")
  <1> USE DEF IInv, TypeOK, DataTypes
  <1>1. CASE WriteData
    <2>1. PICK o \in WriteOutcomes(readed_data) : Write(o)
      BY <1>1 DEF WriteData
    <2>2. pc' # "exit" /\ pc = "write" /\ job' = job
      BY <2>1, WriteGoes DEF Write
    <2>3. Len(received') >= Len(received)
      <3>1. Len(received') = Len(received) + o.acc /\ o.acc \in Nat
        BY <2>1, WriteWire
      <3>2. Len(received) \in Nat
        OBVIOUS
      <3>3. QED
        BY <3>1, <3>2
    <2>4. aborts = {}
      BY <2>2 DEF ControlInv, Sending
    <2>5. QED
      BY <2>2, <2>3, <2>4
  <1>2. CASE KeepSession
    BY <1>2 DEF KeepSession, ControlInv, Waiting
  <1>3. CASE ~WriteData /\ ~KeepSession
    <2>1. received' = received
      BY <1>3, WhoSends
    <2>2. job' = job
      BY <1>3 DEF Next, Lgmon3, Terminated, vars, Prepare, OpenFails, OpenSucceeds,
         ClearBuffer, AwaitIdle, StartSession, NextCopy, NextChunk, PollStatus,
         SkipPoll, ReadNext, NothingSent, SkipKeep, CancelWaiting, Await, AwaitFinish,
         AwaitReady, InterruptReady, Reset, Close, SigCatch, Printer, OtherHostPrints,
         OtherHostDone, PrinterTakesJob, PrinterStops, PrinterResumes, PanelCancel,
         PrinterDropsJob, PrinterFinishes, FallSilent, AnswerAgain
    <2>3. aborts' = aborts \/ aborts' # {}
      BY <1>3, AbortJobTypes DEF Next, Lgmon3, Terminated, vars, Prepare, OpenFails,
         OpenSucceeds, ClearBuffer, AwaitIdle, StartSession, NextCopy, NextChunk,
         PollStatus, SkipPoll, ReadNext, NothingSent, SkipKeep, CancelWaiting, Await,
         AwaitFinish, AwaitReady, InterruptReady, Reset, Close, SigCatch, Printer,
         OtherHostPrints, OtherHostDone, PrinterTakesJob, PrinterStops,
         PrinterResumes, PanelCancel, PrinterDropsJob, PrinterFinishes, FallSilent,
         AnswerAgain
    <2>4. pc = "exit" => UNCHANGED <<pc, via, aborts>>
      BY <1>3 DEF Next, Lgmon3, Terminated, vars, Prepare, PrepareFails, PrepareReads,
         OpenFails, OpenSucceeds, ClearBuffer, AwaitIdle, StartSession, NextCopy,
         NextChunk, PollStatus, SkipPoll, ReadNext, NothingSent, SkipKeep,
         CancelWaiting, Await, AwaitFinish, AwaitReady, InterruptReady, Reset, Close,
         SigCatch, Printer, OtherHostPrints, OtherHostDone, PrinterTakesJob,
         PrinterStops, PrinterResumes, PanelCancel, PrinterDropsJob, PrinterFinishes,
         FallSilent, AnswerAgain
    <2>5. pc # "exit" /\ pc' = "exit"
            => aborts' = aborts /\ (via' = "OK" => via = "OK")
      BY <1>3 DEF Next, Lgmon3, Terminated, vars, Prepare, PrepareFails, PrepareReads,
         GoOnErr, GoOK, OpenFails, OpenSucceeds, ClearBuffer, AwaitIdle,
         StartSession, NextCopy, NextChunk, PollStatus, SkipPoll, ReadNext,
         NothingSent, SkipKeep, CancelWaiting, Await, AwaitFinish, AwaitReady,
         InterruptReady, Reset, Close, SigCatch, Printer, OtherHostPrints,
         OtherHostDone, PrinterTakesJob, PrinterStops, PrinterResumes, PanelCancel,
         PrinterDropsJob, PrinterFinishes, FallSilent, AnswerAgain
    <2>6. QED
      BY <2>1, <2>2, <2>3, <2>4, <2>5
  <1>4. QED
    BY <1>1, <1>2, <1>3

\* A session starts as a print job starts.
LEMMA JobStarts == Init => PJ!Init
  <1> SUFFICES ASSUME Init PROVE PJ!Init
    OBVIOUS
  <1>1. JobPart = PJ!Prefix(0)
    BY DEF Init, JobPart, PJ!Prefix, Smaller
  <1>2. QED
    BY <1>1 DEF Init, PJ!Init, OutcomeOf

\* Every step of a session is a step of the print job, or none.
LEMMA JobSteps ==
  ASSUME MaxLate = 0, IInv, IInv', [Next]_vars
  PROVE  [PJ!Next]_(PJ!vars)
  <1> DEFINE n == Smaller(Len(received), job)
  <1>1. /\ JobPart = PJ!Prefix(n) /\ Len(JobPart) = n /\ n \in 0 .. job
        /\ JobPart' = PJ!Prefix(n') /\ n' \in 0 .. job'
    <2>1. /\ late = 0 /\ late' = 0 /\ job \in Nat /\ job' \in Nat
          /\ received \in Seq(0 .. job) /\ received' \in Seq(0 .. job')
      BY DEF IInv, TypeOK, DataTypes
    <2>2. /\ \A i \in DOMAIN received : received[i] = IF i <= job THEN i ELSE 0
          /\ \A i \in DOMAIN received' : received'[i] = IF i <= job' THEN i ELSE 0
      BY <2>1 DEF IInv, InOrder
    <2>3. JobPart = PJ!Prefix(n) /\ Len(PJ!Prefix(n)) = n /\ n \in 0 .. job
      BY <2>1, <2>2, PrefixOfOrdered DEF JobPart
    <2>4. JobPart' = PJ!Prefix(n') /\ n' \in 0 .. job'
      BY <2>1, <2>2, PrefixOfOrdered DEF JobPart
    <2>5. QED
      BY <2>3, <2>4
  <1>2. job \in Nat /\ Len(received) \in Nat /\ Len(received') \in Nat
    BY DEF IInv, TypeOK, DataTypes
  <1>3. CASE pc = "exit"
    <2>1. UNCHANGED <<job, received, aborts, pc, via>>
      BY <1>3, SeenFromOutside
    <2>2. QED
      BY <2>1 DEF PJ!vars, JobPart, OutcomeOf
  <1>4. CASE pc # "exit" /\ pc' # "exit"
    <2>1. OutcomeOf(pc, via) = "open" /\ OutcomeOf(pc, via)' = "open"
      BY <1>4 DEF OutcomeOf
    <2>2. CASE aborts = {}
      <3>1. n' \in n .. job /\ job' = job
        BY <1>1, <1>2, SeenFromOutside DEF Smaller
      <3>2. PJ!Pass
        BY <1>1, <2>1, <2>2, <3>1 DEF PJ!Pass
      <3>3. QED
        BY <3>2 DEF PJ!Next
    <2>3. CASE aborts # {}
      <3>1. job' = job /\ received' = received /\ aborts' # {}
        BY <2>3, SeenFromOutside
      <3>2. QED
        BY <2>1, <2>3, <3>1 DEF PJ!vars, JobPart
    <2>4. QED
      BY <2>2, <2>3
  <1>5. CASE pc # "exit" /\ pc' = "exit"
    <2>1. /\ job' = job /\ received' = received /\ aborts' = aborts
          /\ via' = "OK" => via = "OK"
      BY <1>5, SeenFromOutside
    <2>2. OutcomeOf(pc, via) = "open" /\ JobPart' = JobPart
      BY <1>5, <2>1 DEF OutcomeOf, JobPart
    <2>3. CASE via' = "OK"
      <3>1. aborts = {} /\ (job > 0 => AllTaken)
        BY <2>1, <2>3 DEF IInv, ControlInv, WireInv
      <3>2. n = job
        <4>1. CASE job = 0
          BY <1>1, <4>1
        <4>2. CASE job > 0
          <5>1. PICK i \in DOMAIN received : received[i] = job
            BY <3>1, <4>2 DEF AllTaken
          <5>2. i <= job /\ received[i] = i
            BY <4>2, <5>1 DEF IInv, TypeOK, DataTypes, InOrder
          <5>3. QED
            BY <1>2, <5>1, <5>2 DEF Smaller, IInv, TypeOK, DataTypes
        <4>3. QED
          BY <1>2, <4>1, <4>2
      <3>3. PJ!Done
        BY <1>1, <1>5, <2>1, <2>2, <2>3, <3>1, <3>2 DEF PJ!Done, OutcomeOf
      <3>4. QED
        BY <3>3 DEF PJ!Next
    <2>4. CASE via' # "OK"
      BY <1>5, <2>1, <2>2, <2>4 DEF PJ!Next, PJ!Fail, OutcomeOf
    <2>5. QED
      BY <2>3, <2>4
  <1>6. QED
    BY <1>3, <1>4, <1>5

\* When no USB transfer times out with everything taken, a session of cnijlgmon3
\* is a print job as PrintJob promises it, on every interface.
THEOREM Refinement == ASSUME MaxLate = 0 PROVE Spec => ImplementsPrintJob
  <1>1. IInv /\ IInv' /\ [Next]_vars => [PJ!Next]_(PJ!vars)
    BY JobSteps
  <1>2. QED
    BY <1>1, JobStarts, Invariance, PTL DEF Spec, ImplementsPrintJob, PJ!Spec

=============================================================================

---------------------------- MODULE LgmonSession ----------------------------
(***************************************************************************)
(* One print job of cnijlgmon3: main() from the moment its SIGTERM handler *)
(* is installed, with the calls it makes into cnijcomif.c, the handler     *)
(* itself, and a printer that takes the data, works on the job and answers *)
(* status queries.                                                         *)
(*                                                                         *)
(* The print data is abstracted to its position: the job is the units      *)
(* 1 .. job, and received is what the printer took off the wire, in the    *)
(* order it took it (0 is the dummy byte of CNIF_KeepSession).  pc names   *)
(* the place in main() the process has reached.                            *)
(*                                                                         *)
(* A definition X_Slip is X with a plausible mistake in it: no action uses *)
(* it; it stands before X to show what one of the properties is sensitive  *)
(* to, and the README says which.                                          *)
(***************************************************************************)
EXTENDS WriteResults, Sequences, FiniteSets

CONSTANTS
  MaxJob,      \* bound: the longest job, in units
  MaxCopies,   \* bound: the largest copy count on the command line
  WriteSize,   \* CN_WRITE_SIZE in units: what one fread asks for
  MaxLate,     \* bound: USB transfers that time out though all was taken
  MaxKeeps,    \* bound: dummy bytes sent while waiting for the end of a job
  MaxSilences  \* bound: how often the printer stops answering for a while

ASSUME SessionAssumption ==
  /\ MaxJob \in Nat
  /\ MaxCopies \in Nat \ {0}
  /\ WriteSize \in Nat \ {0}
  /\ MaxLate \in Nat
  /\ MaxKeeps \in Nat
  /\ MaxSilences \in Nat

VARIABLES
  job,            \* units that arrive on stdin
  arg_copies,     \* argv[2]
  pc,             \* the point of main() reached
  ifType,         \* if_info.ifType; "unset" is none of the three
  dev,            \* what CNIF_Open and CNIF_StartSession have acquired
  interrupt_sign, isCanceled, isPrinting,
  copies, sign, flgSendStart,
  fpos, fstate,   \* stdin: units read, and the stream's eof/error flag
  readed_data, max_read_size,
  err,
  via,            \* the label main() left through: "OK", "onErr", "return"
  received,       \* the printer's input, in order
  late, keeps, silences,    \* how much of the bounds is used up
  aborts,         \* the abort commands given to the printer
  pjob,           \* our job at the printer
  pstat,          \* the printer's status
  answers,        \* job answers the printer has queued for the host
  silent,         \* the printer does not answer for the time being
  lastReply       \* the kind of the last message CNIF_GetResponse decoded

inputs  == <<job, arg_copies>>
flags   == <<interrupt_sign, isCanceled>>
stdin   == <<fpos, fstate, readed_data>>
loops   == <<copies, sign, max_read_size, flgSendStart>>
wire    == <<received, late, keeps>>
replies == <<answers, lastReply>>
printer == <<pjob, pstat, silent, silences>>

vars == <<inputs, pc, ifType, dev, flags, isPrinting, stdin, loops, err, via,
          wire, aborts, replies, printer>>

IfTypes == {"USB", "NET", "NET2"}

ProcessTypes ==
  /\ pc \in {"prepare", "open", "clear", "idle", "start", "copy", "chunk",
             "poll", "write", "keep", "finish", "ready", "reset", "close",
             "exit"}
  /\ ifType \in IfTypes \cup {"unset"}
  /\ dev \in {"closed", "open", "session"}
  /\ via \in {"none", "OK", "onErr", "return"}
  /\ err \in Int

FlagTypes ==
  /\ interrupt_sign \in {0, 1}
  /\ isCanceled \in BOOLEAN
  /\ isPrinting \in BOOLEAN
  /\ sign \in {0, 1}
  /\ flgSendStart \in BOOLEAN

DataTypes ==
  /\ job \in 0 .. MaxJob
  /\ arg_copies \in 1 .. MaxCopies
  /\ copies \in 0 .. MaxCopies
  /\ fpos \in 0 .. job
  /\ fstate \in {"ok", "eof", "error"}
  /\ readed_data \in 0 .. WriteSize
  /\ max_read_size \in 0 .. WriteSize
  /\ received \in Seq(0 .. job)
  /\ late \in 0 .. MaxLate
  /\ keeps \in 0 .. MaxKeeps

PrinterTypes ==
  /\ pjob \in {"none", "ours", "gone"}
  /\ pstat \in Statuses
  /\ silent \in BOOLEAN
  /\ silences \in 0 .. MaxSilences

MessageTypes ==
  /\ aborts \subseteq {"cancel", "reset"}
  /\ answers \subseteq JobAnswers

TypeOK ==
  /\ ProcessTypes
  /\ FlagTypes
  /\ DataTypes
  /\ PrinterTypes
  /\ MessageTypes
  /\ lastReply \in {"none", "fail", "garbled", "status"} \cup JobAnswers

Init ==
  /\ job \in 0 .. MaxJob
  /\ arg_copies \in 1 .. MaxCopies
  /\ pc = "prepare" /\ ifType = "unset" /\ dev = "closed"
  /\ interrupt_sign = 0 /\ isCanceled = FALSE /\ isPrinting = FALSE
  /\ copies = arg_copies /\ sign = 1 /\ flgSendStart = FALSE
  /\ fpos = 0 /\ fstate = "ok" /\ readed_data = 0 /\ max_read_size = 0
  /\ err = CN_LGMON_OK /\ via = "none"
  /\ received = << >> /\ late = 0 /\ keeps = 0 /\ silences = 0 /\ aborts = {}
  /\ pjob = "none" /\ pstat \in Statuses /\ answers = {} /\ silent = FALSE
  /\ lastReply = "none"

-----------------------------------------------------------------------------
(***************************************************************************)
(* Steps shared by several actions                                         *)
(***************************************************************************)
GoOnErr(e) == pc' = "reset" /\ via' = "onErr" /\ err' = e

Smaller(a, b) == IF a < b THEN a ELSE b

\* fread(write_buffer, 1, CN_WRITE_SIZE, stdin): a short count is the end of
\* the input or a stream error.
Fread ==
  LET n == Smaller(WriteSize, job - fpos) IN
  \/ /\ readed_data' = n
     /\ fpos' = fpos + n
     /\ fstate' = IF n < WriteSize THEN "eof" ELSE fstate
  \/ /\ fstate = "ok"
     /\ \E k \in 0 .. n :
          /\ k < WriteSize
          /\ readed_data' = k
          /\ fpos' = fpos + k
     /\ fstate' = "error"

Reply(k, e, p) == [kind |-> k, err |-> e, printing |-> p]

\* What GET_STATUS2 answers for our uuid: OK, with a job id, while the
\* printer has the job.
Clss == IF pjob = "ours" THEN CLSS_OK ELSE CLSS_NOT_SUPPORT_CUSTOM

(***************************************************************************)
(* What CNIF_GetResponse can come back with now.  A silent printer makes   *)
(* the network reads fail; the USB read repeats its timed-out transfer     *)
(* inside CNIF_USB_Read and does not come back at all.                     *)
(***************************************************************************)
Net2Replies_Slip ==   \* any answer counts as one about our job
  {Reply("status", Net2Result(Clss, pstat), ~silent)}

Net2Replies ==
  {Reply("fail", CN_NET3_READ_DATA_FAIL, FALSE)}
    \cup (IF silent THEN {}
          ELSE {Reply("garbled", CN_NET3_FAILED, FALSE),
                Reply("status", Net2Result(Clss, pstat), Clss = CLSS_OK)})

IvecReplies ==
  (IF silent /\ ifType = "USB" THEN {}
   ELSE {Reply("fail", CN_LGMON_ERROR, FALSE)})
    \cup (IF silent THEN {}
          ELSE {Reply("garbled", CN_LGMON_OK, FALSE),
                Reply("status", StatusResult(pstat), FALSE)}
                 \cup {Reply(op, JobAnswerResult[op], FALSE) : op \in answers})

Replies == IF ifType = "NET2" THEN Net2Replies ELSE IvecReplies

\* The message is taken off the queue; isPrinting is set when it names our job.
Consume(r) == answers' = answers \ {r.kind} /\ lastReply' = r.kind

Take(r) == Consume(r) /\ isPrinting' = (isPrinting \/ r.printing)

\* An abort command takes our job away from the printer.
AbortJob(cmd) ==
  /\ aborts' = aborts \cup {cmd}
  /\ pjob' = IF pjob = "ours" THEN "gone" ELSE pjob
  /\ pstat' = IF pjob = "ours" THEN "idle" ELSE pstat

-----------------------------------------------------------------------------
(***************************************************************************)
(* main(), up to the open loop.  The first chunk is read before anything   *)
(* can fail on the device side.  A failure to load the message table or to *)
(* allocate comes before that read and leaves if_info uninitialised, as    *)
(* does a URI that CNIF_GetSerialNum does not recognise; a PPD without a   *)
(* capability string jumps to onErr with err still 0.                      *)
(***************************************************************************)
PrepareFails ==
  /\ pc = "prepare"
  /\ \E e \in {CN_LGMON_OK, CN_LGMON_OTHER_ERROR} : GoOnErr(e)
  /\ ifType' \in IfTypes \cup {"unset"}
  /\ UNCHANGED stdin

PrepareReads ==
  /\ pc = "prepare"
  /\ Fread
  /\ \/ /\ pc' = "exit" /\ via' = "return" /\ err' = CN_LGMON_DYNAMID_LINK_ERROR
        /\ UNCHANGED ifType
     \/ /\ GoOnErr(CN_LGMON_OTHER_ERROR)
        /\ ifType' \in IfTypes \cup {"unset"}
     \/ /\ GoOnErr(err)
        /\ ifType' \in {"USB", "NET"}
     \/ /\ pc' = "open"
        /\ ifType' \in IfTypes
        /\ UNCHANGED <<err, via>>

Prepare ==
  /\ PrepareFails \/ PrepareReads
  /\ UNCHANGED <<inputs, dev, flags, isPrinting, loops, wire, aborts, replies,
                 printer>>

\* The open loop: a failed CNIF_Open is tried again after 30 seconds, and
\* interrupt_sign is not looked at.
OpenFails ==
  /\ pc = "open"
  /\ err' = CN_LGMON_ERROR
  /\ UNCHANGED <<inputs, pc, ifType, dev, flags, isPrinting, stdin, loops, via,
                 wire, aborts, replies, printer>>

OpenSucceeds ==
  /\ pc = "open"
  /\ err' = CN_LGMON_OK
  /\ dev' = "open"
  /\ pc' = "clear"
  /\ UNCHANGED <<inputs, ifType, flags, isPrinting, stdin, loops, via, wire,
                 aborts, replies, printer>>

\* "clear printer buffer": one message is read and dropped.
ClearBuffer ==
  /\ pc = "clear"
  /\ \E r \in Replies :
       /\ Take(r)
       /\ \/ r.err < 0 /\ GoOnErr(CN_LGMON_RESPONSE_ERROR)
          \/ r.err >= 0 /\ pc' = "idle" /\ err' = r.err /\ UNCHANGED via
  /\ UNCHANGED <<inputs, ifType, dev, flags, stdin, loops, wire, aborts, printer>>

IdleResults == {CN_IVEC_STATUS_IDLE, CLSS_OK_AND_IDLE, CLSS_NOT_SUPP_AND_IDLE}

AwaitIdle_Slip ==   \* interrupt_sign is not looked at
  /\ pc = "idle"
  /\ \E r \in Replies :
       /\ Take(r)
       /\ \/ r.err < 0 /\ GoOnErr(CN_LGMON_RESPONSE_ERROR)
          \/ /\ r.err >= 0
             /\ err' = r.err
             /\ pc' = IF r.err \in IdleResults THEN "start" ELSE "idle"
             /\ UNCHANGED via
  /\ UNCHANGED <<inputs, ifType, dev, flags, stdin, loops, wire, aborts, printer>>

\* Wait until the printer is idle.
AwaitIdle ==
  /\ pc = "idle"
  /\ \/ /\ interrupt_sign = 1
        /\ GoOnErr(err)
        /\ UNCHANGED <<replies, isPrinting>>
     \/ /\ interrupt_sign = 0
        /\ \E r \in Replies :
             /\ Take(r)
             /\ \/ r.err < 0 /\ GoOnErr(CN_LGMON_RESPONSE_ERROR)
                \/ /\ r.err >= 0
                   /\ err' = r.err
                   /\ pc' = IF r.err \in IdleResults THEN "start" ELSE "idle"
                   /\ UNCHANGED via
  /\ UNCHANGED <<inputs, ifType, dev, flags, stdin, loops, wire, aborts, printer>>

\* Results of CNIF_StartSession: USB has no session to start.  A positive
\* library code counts as busy.
SessionResults ==
  IF ifType = "USB" THEN {CN_LGMON_OK}
  ELSE {CN_LGMON_OK, CN_LGMON_BUSY, CN_LGMON_ERROR}
         \cup (IF ifType = "NET2" THEN {CNNET3_ERR_NOCONTENT} ELSE {})

SessionStarts_Slip(e) ==   \* a positive library code passes for success
  /\ e >= 0
  /\ dev' = IF e = CN_LGMON_OK THEN "session" ELSE dev
  /\ pc' = "copy" /\ err' = e

SessionStarts(e) ==
  /\ e = CN_LGMON_OK
  /\ dev' = "session"
  /\ pc' = "copy" /\ err' = e

StartSession ==
  /\ pc = "start"
  /\ \/ /\ interrupt_sign = 1
        /\ GoOnErr(err)
        /\ UNCHANGED <<dev, replies, isPrinting>>
     \/ /\ interrupt_sign = 0
        /\ \E e \in SessionResults :
             \/ /\ SessionStarts(e)
                /\ UNCHANGED <<via, replies, isPrinting>>
             \/ /\ e < 0 /\ e # CN_LGMON_BUSY
                /\ GoOnErr(CN_LGMON_OPEN_ERROR)
                /\ UNCHANGED <<dev, replies, isPrinting>>
             \/ /\ e > 0 \/ e = CN_LGMON_BUSY
                /\ \E r \in Replies : Take(r) /\ err' = r.err
                /\ UNCHANGED <<pc, via, dev>>
  /\ UNCHANGED <<inputs, ifType, flags, stdin, loops, wire, aborts, printer>>

-----------------------------------------------------------------------------
(***************************************************************************)
(* The transfer                                                            *)
(***************************************************************************)
\* while (copies > 0): sign is not set again, so later rounds send nothing.
NextCopy ==
  /\ pc = "copy"
  /\ \/ copies > 0 /\ copies' = copies - 1 /\ pc' = "chunk"
     \/ /\ copies = 0 /\ UNCHANGED copies
        /\ pc' = IF ifType = "NET2" THEN "keep" ELSE "ready"
  /\ UNCHANGED <<inputs, ifType, dev, flags, isPrinting, stdin, sign,
                 max_read_size, flgSendStart, err, via, wire, aborts, replies,
                 printer>>

AtEnd_Slip ==   \* feof() is not asked
  readed_data < WriteSize

AtEnd == readed_data < WriteSize /\ fstate = "eof"

Broken == readed_data < WriteSize /\ fstate = "error"

\* while (sign): note the end of the input, give up on a read error.
NextChunk ==
  /\ pc = "chunk"
  /\ \/ sign = 0 /\ pc' = "copy" /\ UNCHANGED <<sign, max_read_size, err, via>>
     \/ /\ sign = 1
        /\ max_read_size' = readed_data
        /\ sign' = IF AtEnd THEN 0 ELSE sign
        /\ IF Broken
           THEN GoOnErr(CN_LGMON_OTHER_ERROR)
           ELSE pc' = "poll" /\ UNCHANGED <<err, via>>
  /\ UNCHANGED <<inputs, ifType, dev, flags, isPrinting, stdin, copies,
                 flgSendStart, wire, aborts, replies, printer>>

CancelingResults ==
  {CN_IVEC_STATUS_CANCELING, CLSS_OK_AND_CANCEL, CLSS_NOT_SUPP_AND_CANCEL}

\* The head of the send loop, when four seconds have gone by: ask for the
\* status, and take a cancel at the panel for a SIGTERM.
PollStatus ==
  /\ pc = "poll" /\ readed_data # 0
  /\ \E r \in Replies :
       /\ Take(r)
       /\ err' = r.err
       /\ IF r.err \in CancelingResults
          THEN interrupt_sign' = 1 /\ isCanceled' = TRUE
          ELSE UNCHANGED flags
  /\ pc' = "write"
  /\ UNCHANGED <<inputs, ifType, dev, stdin, loops, via, wire, aborts, printer>>

\* The same, when they have not.
SkipPoll ==
  /\ pc = "poll" /\ readed_data # 0
  /\ pc' = "write"
  /\ UNCHANGED <<inputs, ifType, dev, flags, isPrinting, stdin, loops, err, via,
                 wire, aborts, replies, printer>>

\* The chunk is through: read the next one.
ReadNext ==
  /\ pc = "poll" /\ readed_data = 0
  /\ Fread
  /\ pc' = "chunk"
  /\ UNCHANGED <<inputs, ifType, dev, flags, isPrinting, loops, err, via, wire,
                 aborts, replies, printer>>

UsbOutcomes_Slip(n) ==   \* the size asked for is reported, not the one written
  {Outcome(k, n, CN_LGMON_OK) : k \in 0 .. n}

\* A bulk transfer that times out counts as success; when it says that all
\* was written, CNIF_Write makes that nothing.
UsbOutcomes(n) ==
  {Outcome(k, k, CN_LGMON_OK) : k \in 0 .. n - 1}
    \cup {Outcome(k, k, CN_LGMON_ERROR) : k \in 0 .. n - 1}
    \cup {o \in {Outcome(n, 0, CN_LGMON_OK)} : late < MaxLate}

WriteOutcomes(n) ==
  {Whole(n)} \cup (CASE ifType = "USB"  -> UsbOutcomes(n)
                     [] ifType = "NET"  -> NetOutcomes(n)
                     [] ifType = "NET2" -> Net2Outcomes(n)
                     [] OTHER           -> {})

Offset_Slip ==   \* every retry starts at the head of write_buffer
  fpos - max_read_size

\* The position in the job of the first unit handed to CNIF_Write: the
\* buffer was filled up to fpos, and write_buffer is offset by what is gone.
Offset == (fpos - max_read_size) + (max_read_size - readed_data)

Deliver(a) == received' = received \o [i \in 1 .. a |-> Offset + i]

CancelTransfer_Slip(e) ==   \* the break leaves only the if
  /\ AbortJob("cancel")
  /\ pc' = "poll" /\ err' = e
  /\ UNCHANGED <<via, isPrinting, isCanceled>>

\* What follows a CNIF_Write that returned e >= 0 once interrupt_sign is set
\* (isCanceled is set with it).  The result of the NET2 cancel is dropped.
CancelTransfer(e) ==
  \/ /\ ifType = "NET2" /\ isPrinting /\ isCanceled
     /\ AbortJob("cancel") \/ UNCHANGED <<aborts, pjob, pstat>>
     /\ GoOnErr(CN_LGMON_OK)
     /\ isPrinting' = FALSE /\ isCanceled' = FALSE
  \/ /\ ifType \in {"USB", "NET2"} /\ ~isPrinting /\ isCanceled
     /\ GoOnErr(e)
     /\ UNCHANGED <<aborts, pjob, pstat, isPrinting, isCanceled>>
  \/ /\ ifType = "NET"
     /\ AbortJob("cancel")
     /\ GoOnErr(CN_LGMON_OK)
     /\ UNCHANGED <<isPrinting, isCanceled>>

Write(o) ==
  /\ pc = "write"
  /\ Deliver(o.acc)
  /\ late' = IF o.rep < o.acc THEN late + 1 ELSE late
  /\ \/ /\ o.err < 0
        /\ IF ifType = "NET2" /\ (interrupt_sign = 1 \/ o.err = CN_NET3_SEND_TIMEOUT)
           THEN /\ readed_data' = readed_data - o.rep
                /\ pc' = "poll" /\ err' = o.err /\ UNCHANGED via
           ELSE /\ UNCHANGED readed_data
                /\ GoOnErr(CN_LGMON_WRITEDATA_ERROR)
        /\ UNCHANGED <<flgSendStart, aborts, pjob, pstat, isPrinting, isCanceled>>
     \/ /\ o.err >= 0
        /\ flgSendStart' = TRUE
        /\ \/ /\ interrupt_sign = 0
              /\ readed_data' = readed_data - o.rep
              /\ pc' = "poll" /\ err' = o.err
              /\ UNCHANGED <<via, aborts, pjob, pstat, isPrinting, isCanceled>>
           \/ /\ interrupt_sign = 1
              /\ CancelTransfer(o.err)
              /\ UNCHANGED readed_data
  /\ UNCHANGED <<inputs, ifType, dev, interrupt_sign, fpos, fstate, copies, sign,
                 max_read_size, keeps, replies, silent, silences>>

WriteData == \E o \in WriteOutcomes(readed_data) : Write(o)

-----------------------------------------------------------------------------
(***************************************************************************)
(* After the last chunk: wait for the end of the job                       *)
(***************************************************************************)
GoOK == pc' = "close" /\ via' = "OK"

\* NET2: nothing was sent, nothing to wait for.
NothingSent ==
  /\ pc = "keep" /\ ~flgSendStart
  /\ GoOK
  /\ UNCHANGED <<inputs, ifType, dev, flags, isPrinting, stdin, loops, err, wire,
                 aborts, replies, printer>>

\* NET2, 15 seconds after the last time: one dummy byte on the data port.
KeepSession ==
  /\ pc = "keep" /\ flgSendStart /\ keeps < MaxKeeps
  /\ keeps' = keeps + 1
  /\ received' \in {received, Append(received, 0)}
  /\ pc' = "finish"
  /\ UNCHANGED <<inputs, ifType, dev, flags, isPrinting, stdin, loops, err, via,
                 late, aborts, replies, printer>>

SkipKeep ==
  /\ pc = "keep" /\ flgSendStart
  /\ pc' = "finish"
  /\ UNCHANGED <<inputs, ifType, dev, flags, isPrinting, stdin, loops, err, via,
                 wire, aborts, replies, printer>>

CancelWaiting_Slip ==   \* the cancelled job leaves through OK
  /\ pc = "finish" /\ isPrinting /\ isCanceled
  /\ AbortJob("cancel")
  /\ GoOK
  /\ isPrinting' = FALSE /\ isCanceled' = FALSE
  /\ UNCHANGED <<inputs, ifType, dev, interrupt_sign, stdin, loops, err, wire,
                 replies, silent, silences>>

\* NET2: a cancel is sent only once the printer has reported our job.
CancelWaiting ==
  /\ pc = "finish" /\ isPrinting /\ isCanceled
  /\ \/ AbortJob("cancel") /\ GoOnErr(CN_LGMON_OK)
     \/ UNCHANGED <<aborts, pjob, pstat>> /\ GoOnErr(CN_NET3_FAILED)
  /\ isPrinting' = FALSE /\ isCanceled' = FALSE
  /\ UNCHANGED <<inputs, ifType, dev, interrupt_sign, stdin, loops, wire, replies,
                 silent, silences>>

FinishedResults_Slip ==   \* a job that is being cancelled counts as over
  {CLSS_NOT_SUPPORT_CUSTOM, CLSS_NOT_SUPP_AND_IDLE, CLSS_NOT_SUPP_AND_CANCEL,
   CLSS_OK_AND_CANCEL}

FinishedResults_Slip2 ==   \* the idle printer is left out
  {CLSS_NOT_SUPPORT_CUSTOM, CLSS_NOT_SUPP_AND_CANCEL}

FinishedResults ==
  {CLSS_NOT_SUPPORT_CUSTOM, CLSS_NOT_SUPP_AND_IDLE, CLSS_NOT_SUPP_AND_CANCEL}

\* NET2: the job is over when it was seen before and no longer is; any other
\* answer, errors included, is waited out.  response_detail stays 0 on NET2
\* (only GET_RESPONSE writes it), so CLSS_OK is one of those answers.
AwaitFinish(r) ==
  /\ pc = "finish" /\ ~(isPrinting /\ isCanceled)
  /\ Consume(r)
  /\ err' = r.err
  /\ \/ /\ isPrinting /\ r.err \in FinishedResults
        /\ isPrinting' = FALSE
        /\ GoOK
     \/ /\ ~(isPrinting /\ r.err \in FinishedResults)
        /\ isPrinting' = (isPrinting \/ r.printing)
        /\ pc' = "keep" /\ UNCHANGED via
  /\ UNCHANGED <<inputs, ifType, dev, flags, stdin, loops, wire, aborts, printer>>

\* USB, NET: a SIGTERM ends the wait ...
InterruptReady ==
  /\ pc = "ready" /\ interrupt_sign = 1
  /\ GoOnErr(err)
  /\ UNCHANGED <<inputs, ifType, dev, flags, isPrinting, stdin, loops, wire,
                 aborts, replies, printer>>

\* ... and so does the result that stands for an idle printer.
AwaitReady(r) ==
  /\ pc = "ready" /\ interrupt_sign = 0
  /\ Take(r)
  /\ \/ r.err < 0 /\ GoOnErr(CN_LGMON_RESPONSE_ERROR)
     \/ r.err = CN_IVEC_STATUS_IDLE /\ GoOK /\ err' = r.err
     \/ /\ r.err >= 0 /\ r.err # CN_IVEC_STATUS_IDLE
        /\ err' = r.err /\ UNCHANGED <<pc, via>>
  /\ UNCHANGED <<inputs, ifType, dev, flags, stdin, loops, wire, aborts, printer>>

Await == \E r \in Replies : AwaitFinish(r) \/ AwaitReady(r)

-----------------------------------------------------------------------------
(***************************************************************************)
(* The way out                                                             *)
(***************************************************************************)
Resettable_Slip == {"USB"}   \* NET is left out

\* The interfaces on which CNIF_Reset does something.
Resettable == {"USB", "NET"}

\* onErr: a printer on USB or on the first protocol is reset.
Reset ==
  /\ pc = "reset"
  /\ err' = IF err < 0 THEN 1 ELSE err
  /\ IF ifType \in Resettable /\ dev # "closed"
     THEN AbortJob("reset")
     ELSE UNCHANGED <<aborts, pjob, pstat>>
  /\ pc' = "close"
  /\ UNCHANGED <<inputs, ifType, dev, flags, isPrinting, stdin, loops, via, wire,
                 replies, silent, silences>>

\* OK: close the device, free everything, return err.
Close ==
  /\ pc = "close"
  /\ dev' = "closed"
  /\ pc' = "exit"
  /\ UNCHANGED <<inputs, ifType, flags, isPrinting, stdin, loops, err, via, wire,
                 aborts, replies, printer>>

\* CNIF_SigCatch, between any two steps of main().
SigCatch ==
  /\ pc # "exit" /\ interrupt_sign = 0
  /\ interrupt_sign' = 1
  /\ isCanceled' = TRUE
  /\ UNCHANGED <<inputs, pc, ifType, dev, isPrinting, stdin, loops, err, via, wire,
                 aborts, replies, printer>>

-----------------------------------------------------------------------------
(***************************************************************************)
(* The printer and its other hosts                                         *)
(***************************************************************************)
process == <<inputs, pc, ifType, dev, flags, isPrinting, stdin, loops, err, via,
             wire, aborts, lastReply>>

\* The answers a job leaves on the response channel of USB and NET.
Queue(ops) == answers' = IF ifType = "NET2" THEN answers ELSE answers \cup ops

\* While we do not hold the session another host may use the printer.
OtherHostPrints ==
  /\ pjob # "ours" /\ dev # "session" /\ pc # "exit"
  /\ pstat' \in Statuses \ {"idle"}
  /\ UNCHANGED <<process, pjob, answers, silent, silences>>

OtherHostDone ==
  /\ pjob # "ours" /\ pstat # "idle"
  /\ pstat' = "idle"
  /\ UNCHANGED <<process, pjob, answers, silent, silences>>

PrinterTakesJob ==
  /\ pjob = "none" /\ pstat = "idle" /\ received # << >> /\ aborts = {}
  /\ pjob' = "ours" /\ pstat' = "processing"
  /\ Queue({"START", "VENDER"})
  /\ UNCHANGED <<process, silent, silences>>

\* Paper out, cover open, and the like; then dealt with.
PrinterStops ==
  /\ pjob = "ours" /\ pstat = "processing"
  /\ pstat' = "stopped"
  /\ UNCHANGED <<process, pjob, answers, silent, silences>>

PrinterResumes ==
  /\ pjob = "ours" /\ pstat = "stopped"
  /\ pstat' = "processing"
  /\ UNCHANGED <<process, pjob, answers, silent, silences>>

\* The user presses Stop at the panel, and the job goes away.
PanelCancel ==
  /\ pjob = "ours" /\ pstat \in {"processing", "stopped"}
  /\ pstat' = "canceling"
  /\ UNCHANGED <<process, pjob, answers, silent, silences>>

PrinterDropsJob ==
  /\ pjob = "ours" /\ pstat = "canceling"
  /\ pjob' = "gone" /\ pstat' = "idle"
  /\ UNCHANGED <<process, answers, silent, silences>>

AllTaken == \E i \in DOMAIN received : received[i] = job

PrinterFinishes ==
  /\ pjob = "ours" /\ pstat = "processing" /\ AllTaken
  /\ pjob' = "gone" /\ pstat' = "idle"
  /\ Queue({"END"})
  /\ UNCHANGED <<process, silent, silences>>

FallSilent ==
  /\ ~silent /\ silences < MaxSilences /\ pc # "exit"
  /\ silent' = TRUE /\ silences' = silences + 1
  /\ UNCHANGED <<process, pjob, pstat, answers>>

AnswerAgain ==
  /\ silent
  /\ silent' = FALSE
  /\ UNCHANGED <<process, pjob, pstat, answers, silences>>

-----------------------------------------------------------------------------
Lgmon3 ==
  \/ Prepare \/ OpenFails \/ OpenSucceeds \/ ClearBuffer \/ AwaitIdle
  \/ StartSession \/ NextCopy \/ NextChunk \/ PollStatus \/ SkipPoll
  \/ ReadNext \/ WriteData \/ NothingSent \/ KeepSession \/ SkipKeep
  \/ CancelWaiting \/ Await \/ InterruptReady \/ Reset \/ Close

Printer ==
  \/ OtherHostPrints \/ OtherHostDone \/ PrinterTakesJob \/ PrinterStops
  \/ PrinterResumes \/ PanelCancel \/ PrinterDropsJob \/ PrinterFinishes
  \/ FallSilent \/ AnswerAgain

\* The process is gone and the printer is at rest.
Terminated ==
  /\ pc = "exit"
  /\ UNCHANGED vars

Next == Lgmon3 \/ SigCatch \/ Printer \/ Terminated

Spec == Init /\ [][Next]_vars

-----------------------------------------------------------------------------
(***************************************************************************)
(* Safety                                                                  *)
(***************************************************************************)
\* What the printer reads is the job, every unit once and in order, followed
\* by dummy bytes only: across partial writes, timeouts and retries of the
\* send loop.  The exception is the one CNIF_Write makes of a USB transfer
\* that times out with everything taken (late).
InOrder ==
  late = 0 => \A i \in DOMAIN received :
                received[i] = IF i <= job THEN i ELSE 0

\* With such timeouts the printer may read a stretch of the job again, but no
\* unit is ever skipped: each one is at most one further than the one before.
NoGap ==
  \A i \in DOMAIN received :
    received[i] <= IF i = 1 THEN 1 ELSE received[i - 1] + 1

\* main() leaves through OK only when the printer has taken the last unit.
OKMeansAllTaken == via = "OK" /\ job > 0 => AllTaken

\* ... and on NET2, when any write succeeded, only when the printer has had our
\* job and is rid of it.  (A job of which every CNIF_Write ran into its third
\* timeout with the data taken leaves flgSendStart unset: it is not waited for.)
OKMeansJobOver == via = "OK" /\ ifType = "NET2" /\ flgSendStart => pjob = "gone"

\* isPrinting is never ahead of the printer: a CancelPrint can only be sent
\* for a job the printer has started (it names every job "00000002").
SeenMeansStarted == isPrinting => ifType = "NET2" /\ pjob # "none"

\* A job that was aborted never ends as a normal one.
OKMeansNotAborted == via = "OK" => aborts = {}

\* A job broken off half-way on USB or on the first protocol leaves a printer
\* that was told so, by a reset or an abort.
HalfJobAborted ==
  pc = "exit" /\ via = "onErr" /\ received # << >> /\ ifType # "NET2"
    => aborts # {}

\* Once the printer was told to abort, not one more unit is sent to it.
NoDataAfterAbort == [][aborts # {} => UNCHANGED received]_vars

\* The printer is sent data only within a session that was started, and no
\* status query ever moves the input.
DataInSession == [][received' # received => dev = "session" /\ pc \in {"write", "keep"}]_vars

(***************************************************************************)
(* Liveness.  The process keeps running and its calls return (a USB read   *)
(* returns once the printer answers, and silences end); an open, a write   *)
(* or a status query that is tried again and again succeeds at last; the   *)
(* printer works through its job and other hosts through theirs.           *)
(***************************************************************************)
WriteWhole   == Write(Whole(readed_data))
StatusAnswer == \E r \in Replies : r.kind = "status" /\ (AwaitFinish(r) \/ AwaitReady(r))

ProcessFairness ==
  /\ WF_vars(Lgmon3)
  /\ WF_vars(AnswerAgain)

RetryFairness ==
  /\ SF_vars(OpenSucceeds)
  /\ SF_vars(WriteWhole)
  /\ SF_vars(StatusAnswer)

PrinterFairness ==
  /\ WF_vars(OtherHostDone)
  /\ WF_vars(PrinterTakesJob)
  /\ WF_vars(PrinterResumes)
  /\ WF_vars(PrinterDropsJob)
  /\ SF_vars(PrinterFinishes)

FairSpec == Spec /\ ProcessFairness /\ RetryFairness /\ PrinterFairness

\* On NET2 a job that is over before a status query has named it, see LgmonClaims.
OverUnseen == ifType = "NET2" /\ pjob = "gone" /\ ~isPrinting

\* A SIGTERM, or a cancel at the panel that a poll has seen, ends the process,
\* wherever it is: the open loop, which does not look at interrupt_sign, the
\* send loop, where on NET2 it keeps write errors from ending the job, the waits.
CancelEndsSession == interrupt_sign = 1 ~> pc = "exit" \/ OverUnseen

\* A session that was started ends by itself, and for certain once our job was
\* seen.
SessionEnds ==
  /\ dev = "session" ~> pc = "exit" \/ OverUnseen
  /\ isPrinting ~> pc = "exit"

=============================================================================

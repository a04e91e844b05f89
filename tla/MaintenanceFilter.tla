------------------------- MODULE MaintenanceFilter -------------------------
(***************************************************************************)
(* cmdtocanonij2: main() reads the first two lines of a command file,      *)
(* looks the second one up in the printer description and writes the job   *)
(* that carries the command it finds.                                      *)
(*                                                                         *)
(* A SIGTERM only sets g_signal_received, which nobody reads; it shows as  *)
(* the read() or the write() it interrupts.  These calls, and those into   *)
(* the libraries and the file system, may go wrong (faults).  Their        *)
(* results are looked at, but not always for what they are: read_line()    *)
(* keeps a result of -1 and does not read again, and write_buffer() adds   *)
(* it to a count that has no sign.                                         *)
(***************************************************************************)
EXTENDS Integers, Sequences

CONSTANTS
  Files,      \* command files, as sequences of characters
  Entries,    \* printer descriptions: sequences of names with sizes of data
  Header,     \* "#CUPS-COMMAND"
  Returns,    \* the characters that end a line
  DataBuf,    \* DATA_BUF_SIZE, in characters
  SizeMax,    \* SIZE_MAX, the largest size_t, in units of data
  MaxSize,    \* bound: units of a piece of the job
  MaxFaults   \* bound: calls that go wrong

ASSUME MaintenanceAssumption ==
  /\ Files \subseteq Seq(STRING) /\ Header \in Seq(STRING)
  /\ \A e \in Entries : Len(e) \in Nat
  /\ \A e \in Entries : \A i \in 1 .. Len(e) :
       e[i].name \in Seq(STRING) /\ e[i].size \in 0 .. MaxSize
  /\ DataBuf \in Nat /\ DataBuf > 1
  /\ MaxSize \in Nat \ {0} /\ SizeMax \in Nat /\ MaxSize < SizeMax
  /\ MaxFaults \in Nat

VARIABLES
  file, ppd, device,   \* what the filter is given: see MaintenanceJob
  pc, retVal,
  lines,        \* lines that were looked at
  start, pos,   \* p_buf holds the characters of the file behind start, up to pos
  buf_bytes,    \* characters in read_buf, -1 after a failed read()
  prot,         \* what CNCL_GetProtocol made of the device ID
  command,      \* the command that was found, 0 if none
  piece, size,  \* the piece in command_buffer
  writtenSize,
  got,          \* the units of this piece that are out
  wire,         \* what was written last
  faults,
  spoiled       \* a fault has gone into the job

given  == <<file, ppd, device>>
reader == <<lines, start, pos, buf_bytes>>
writer == <<piece, size, writtenSize, got>>
vars   == <<given, pc, retVal, reader, prot, command, writer, wire, faults, spoiled>>

LineCap == DataBuf - 1
Last    == 8

TypeOK ==
  /\ file \in Files /\ ppd \in Entries
  /\ device \in [prot : {1, 2}, date : BOOLEAN]
  /\ pc \in {"start", "line", "look", "job", "make", "write", "exit"}
  /\ retVal \in {0, 1}
  /\ lines \in {0, 1}
  /\ start \in Nat /\ pos \in Nat /\ buf_bytes \in Nat \cup {-1}
  /\ start <= pos /\ pos - start <= LineCap
  /\ pos <= Len(file) /\ pos + buf_bytes <= Len(file)
  /\ prot \in {1, 2}
  /\ command \in 0 .. Len(ppd)
  /\ piece \in 0 .. Last /\ size \in 0 .. MaxSize
  /\ writtenSize \in 0 .. SizeMax
  /\ got \subseteq 0 .. MaxSize - 1
  /\ wire \in [piece : 0 .. Last, n : 0 .. MaxSize, of : 0 .. MaxSize]
  /\ faults \in 0 .. MaxFaults
  /\ spoiled \in BOOLEAN

Init ==
  /\ file \in Files /\ ppd \in Entries
  /\ device \in [prot : {1, 2}, date : BOOLEAN]
  /\ pc = "start" /\ retVal = 0
  /\ lines = 0 /\ start = 0 /\ pos = 0 /\ buf_bytes = 0
  /\ prot = 1 /\ command = 0
  /\ piece = 0 /\ size = 0 /\ writtenSize = 0 /\ got = {}
  /\ wire = [piece |-> 0, n |-> 0, of |-> 0]
  /\ faults = 0 /\ spoiled = FALSE

-----------------------------------------------------------------------------
Exit(code) == pc' = "exit" /\ retVal' = code

Goto(place) == pc' = place /\ UNCHANGED retVal

Fault == faults < MaxFaults /\ faults' = faults + 1

Start ==
  /\ pc = "start"
  /\ Goto("line")
  /\ UNCHANGED <<given, reader, prot, command, writer, wire, faults, spoiled>>

\* The handler, the number of arguments, the file.
StartFails ==
  /\ pc = "start"
  /\ Fault /\ Exit(1)
  /\ UNCHANGED <<given, reader, prot, command, writer, wire, spoiled>>

-----------------------------------------------------------------------------
\* read_line
Smaller(a, b) == IF a < b THEN a ELSE b

Read ==
  /\ pc = "line" /\ buf_bytes = 0 /\ pos < Len(file)
  /\ buf_bytes' \in 1 .. Smaller(DataBuf, Len(file) - pos)
  /\ UNCHANGED <<given, pc, retVal, lines, start, pos, prot, command, writer, wire,
                 faults, spoiled>>

ReadFails ==
  /\ pc = "line" /\ buf_bytes = 0
  /\ Fault /\ buf_bytes' = -1
  /\ UNCHANGED <<given, pc, retVal, lines, start, pos, prot, command, writer, wire,
                 spoiled>>

\* "if( errno == EINTR ) continue;", and for every other error the same: the
\* loop goes on, but read() is only called when buf_bytes is 0.
Spin == pc = "line" /\ buf_bytes = -1 /\ UNCHANGED vars

Take ==
  /\ pc = "line" /\ buf_bytes > 0
  /\ pos' = pos + 1 /\ buf_bytes' = buf_bytes - 1
  /\ Goto(IF file[pos + 1] \in Returns \/ pos + 1 - start = LineCap
          THEN "look" ELSE "line")
  /\ UNCHANGED <<given, lines, start, prot, command, writer, wire, faults, spoiled>>

FileEnds_Slip ==   \* the end of the file does not end the loop
  /\ pc = "line" /\ buf_bytes = 0 /\ pos = Len(file)
  /\ Goto("line")
  /\ UNCHANGED <<given, reader, prot, command, writer, wire, faults, spoiled>>

FileEnds ==
  /\ pc = "line" /\ buf_bytes = 0 /\ pos = Len(file)
  /\ Goto("look")
  /\ UNCHANGED <<given, reader, prot, command, writer, wire, faults, spoiled>>

-----------------------------------------------------------------------------
\* send_maintenance_command
Begins(s, t, n) == n <= Len(t) /\ \A i \in 1 .. n : s[i] = t[i]

p_buf == SubSeq(file, start + 1, pos)

NoLine ==
  /\ pc = "look" /\ pos = start
  /\ Exit(1)
  /\ UNCHANGED <<given, reader, prot, command, writer, wire, faults, spoiled>>

\* The character at the end of the line is not compared.
CheckHeader ==
  /\ pc = "look" /\ pos > start /\ lines = 0
  /\ \/ /\ Begins(p_buf, Header, pos - start - 1)
        /\ lines' = 1 /\ start' = pos
        /\ Goto("line")
     \/ /\ ~Begins(p_buf, Header, pos - start - 1)
        /\ Exit(1) /\ UNCHANGED <<lines, start>>
  /\ UNCHANGED <<given, pos, buf_bytes, prot, command, writer, wire, faults, spoiled>>

Found_Slip(i) == Begins(ppd[i].name, p_buf, Len(ppd[i].name))   \* goes on searching

\* get_printer_command: the first name the line begins with.
Found(i) ==
  /\ Begins(ppd[i].name, p_buf, Len(ppd[i].name))
  /\ \A j \in 1 .. i - 1 : ~Begins(ppd[j].name, p_buf, Len(ppd[j].name))

get_printer_command ==
  /\ pc = "look" /\ pos > start /\ lines = 1
  /\ \/ command' \in {i \in 1 .. Len(ppd) : Found(i)} /\ Goto("job")
     \/ (\A i \in 1 .. Len(ppd) : ~Found(i)) /\ Exit(1) /\ UNCHANGED command
  /\ UNCHANGED <<given, reader, prot, writer, wire, faults, spoiled>>

\* fopen
DescriptionFails ==
  /\ pc = "look" /\ pos > start /\ lines = 1
  /\ Fault /\ Exit(1)
  /\ UNCHANGED <<given, reader, prot, command, writer, wire, spoiled>>

-----------------------------------------------------------------------------
\* write_command
GetCapability ==
  /\ pc = "job"
  /\ prot' = device.prot
  /\ piece' = 1 /\ Goto("make")
  /\ UNCHANGED <<given, reader, command, size, writtenSize, got, wire, faults, spoiled>>

\* Memory, the libraries, no device ID.
CapabilityFails ==
  /\ pc = "job"
  /\ Fault /\ Exit(1)
  /\ UNCHANGED <<given, reader, prot, command, writer, wire, spoiled>>

\* GetCapabilityFromPPDFile() answers -1 without its library, which is no 0:
\* the job goes on without a device ID, and so with the first protocol.
CapabilityUnread ==
  /\ pc = "job"
  /\ Fault
  /\ prot' = 1 /\ spoiled' = (device.prot # 1)
  /\ piece' = 1 /\ Goto("make")
  /\ UNCHANGED <<given, reader, command, size, writtenSize, got, wire>>

\* The sizes are the library's but for the time (none is sent), the command and
\* its brackets.
Sizes(p) ==
  CASE p = 4        -> {0}
    [] p = 6        -> {ppd[command].size}
    [] p \in {5, 7} -> {MaxSize}
    [] OTHER        -> 1 .. MaxSize

MakePiece ==
  /\ pc = "make"
  /\ size' \in Sizes(piece) /\ writtenSize' = 0 /\ got' = {}
  /\ Goto("write")
  /\ UNCHANGED <<given, reader, prot, command, piece, wire, faults, spoiled>>

MakeFails ==
  /\ pc = "make" /\ piece \in {1, 3, Last}
  /\ Fault /\ Exit(1)
  /\ UNCHANGED <<given, reader, prot, command, writer, wire, spoiled>>

\* The result of MakeCommand_SetJobConfiguration is not looked at: zeros are
\* sent, as many as the size happens to say.
DateNotMade ==
  /\ pc = "make" /\ piece = 2
  /\ Fault /\ spoiled' = TRUE
  /\ size' \in 0 .. MaxSize /\ writtenSize' = 0 /\ got' = {}
  /\ Goto("write")
  /\ UNCHANGED <<given, reader, prot, command, piece, wire>>

\* write_buffer
Write ==
  /\ pc = "write" /\ writtenSize < size
  /\ \E w \in 1 .. size - writtenSize :
       /\ writtenSize' = writtenSize + w
       /\ got' = got \cup (writtenSize .. writtenSize + w - 1)
       /\ wire' = [piece |-> piece, n |-> writtenSize + w, of |-> size]
  /\ UNCHANGED <<given, pc, retVal, reader, prot, command, piece, size, faults, spoiled>>

\* -1 is the largest size_t and no number below 0: the count goes one back, or
\* from 0 beyond every size.
WriteFails_Slip ==   \* the count of a failed write is the size
  /\ pc = "write" /\ writtenSize < size
  /\ Fault /\ spoiled' = TRUE
  /\ writtenSize' = size
  /\ UNCHANGED <<given, pc, retVal, reader, prot, command, piece, size, got, wire>>

WriteFails ==
  /\ pc = "write" /\ writtenSize < size
  /\ Fault /\ spoiled' = TRUE
  /\ writtenSize' = (writtenSize + SizeMax) % (SizeMax + 1)
  /\ UNCHANGED <<given, pc, retVal, reader, prot, command, piece, size, got, wire>>

After(p) == IF p = 1 /\ ~(prot = 2 /\ device.date) THEN 3 ELSE p + 1

Written ==
  /\ pc = "write" /\ writtenSize >= size
  /\ \/ piece < Last /\ piece' = After(piece) /\ Goto("make")
     \/ piece = Last /\ Exit(0) /\ UNCHANGED piece
  /\ UNCHANGED <<given, reader, prot, command, size, writtenSize, got, wire, faults,
                 spoiled>>

-----------------------------------------------------------------------------
\* main() returns 0, whatever retVal is.
Exited == pc = "exit" /\ UNCHANGED vars

Work ==
  \/ Start \/ Read \/ Take \/ FileEnds
  \/ NoLine \/ CheckHeader \/ get_printer_command
  \/ GetCapability \/ MakePiece \/ Write \/ Written

Faults ==
  \/ StartFails \/ ReadFails \/ DescriptionFails
  \/ CapabilityFails \/ CapabilityUnread
  \/ MakeFails \/ DateNotMade \/ WriteFails

Next == Work \/ Faults \/ Spin \/ Exited

Spec == Init /\ [][Next]_vars

\* The file and the reader of stdout are there: the process is not stopped.
FairSpec == Spec /\ WF_vars(Work)

-----------------------------------------------------------------------------
(***************************************************************************)
(* Properties                                                              *)
(***************************************************************************)

Job == INSTANCE MaintenanceJob
         WITH chosen  <- command,
              trouble <- faults > 0,
              outcome <- IF spoiled THEN "spoiled"
                         ELSE IF pc # "exit" THEN "open"
                         ELSE IF retVal = 0 THEN "done" ELSE "failed"

\* The job of the command that the second line of the file names is written,
\* each piece whole and in its order, and retVal is PROC_SUCCEEDED only behind
\* the last; it is given up only when a call went wrong or the file names no
\* command.  Nothing is promised once a write has failed, the date was not made
\* or the device ID was not read (write_command, send_maintenance_command).
ImplementsMaintenanceJob == Job!Spec

\* Also with writes that fail a piece is left only when all of it is out, some
\* of it perhaps twice, or when the count went below its beginning: then the
\* rest is lost and write_buffer() says PROC_SUCCEEDED all the same.
PieceLeftWhole ==
  pc = "write" /\ writtenSize >= size => got = 0 .. size - 1 \/ writtenSize = SizeMax

\* The filter ends, unless a read() failed or was interrupted: then read_line()
\* has no way out.
FilterEnds == <>(pc = "exit" \/ buf_bytes = -1)

=============================================================================

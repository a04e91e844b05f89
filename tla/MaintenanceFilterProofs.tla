---------------------- MODULE MaintenanceFilterProofs ----------------------
(***************************************************************************)
(* The filter implements MaintenanceJob, and leaves no piece in part but   *)
(* in the one way PieceLeftWhole names.                                    *)
(*                                                                         *)
(* What has been read is determined by lines, start and pos (Reading);     *)
(* what the printer has, as long as nothing has gone into the job, by      *)
(* piece and writtenSize (Standing); the units of a piece by writtenSize   *)
(* alone (Counting).                                                       *)
(***************************************************************************)
EXTENDS MaintenanceFilter, TLAPS

Before == pc \in {"start", "line", "look"}

Reading ==
  /\ pc = "start" => lines = 0 /\ pos = 0 /\ buf_bytes = 0
  /\ pc = "line" => /\ pos - start < LineCap
                    /\ \A i \in start + 1 .. pos : file[i] \notin Returns
  /\ pc = "look" => IF pos = start THEN pos = Len(file) ELSE Job!IsLine(start, pos)
  /\ Before /\ lines = 0 => start = 0
  /\ Before /\ lines = 1 =>
       start \in 1 .. Len(file) /\ Job!IsLine(0, start) /\ Begins(file, Header, start - 1)

\* All that was written is in front of the piece.
InFront ==
  /\ wire.n = wire.of /\ wire.piece < piece
  /\ \A r \in wire.piece + 1 .. piece - 1 : Job!Absent(r)

Nothing == wire = [piece |-> 0, n |-> 0, of |-> 0]

Standing ==
  /\ Before => command = 0
  /\ Before \/ pc = "job" => Nothing /\ ~spoiled
  /\ pc \in {"job", "make", "write"} => command # 0
  /\ pc \in {"make", "write"} => piece # 0
  /\ pc \in {"make", "write"} /\ ~spoiled => prot = device.prot
  /\ pc \in {"make", "write"} /\ piece = 2 => prot = 2 /\ device.date
  /\ pc = "make" /\ ~spoiled => InFront
  /\ pc = "write" /\ ~spoiled =>
       /\ size \in Sizes(piece) /\ writtenSize <= size
       /\ IF writtenSize = 0 THEN InFront
          ELSE wire = [piece |-> piece, n |-> writtenSize, of |-> size]
  /\ pc = "exit" /\ retVal = 0 /\ ~spoiled => wire.piece = Last /\ wire.n = wire.of

Counting ==
  pc = "write" =>
    \/ writtenSize = SizeMax
    \/ /\ writtenSize <= size
       /\ 0 .. writtenSize - 1 \subseteq got /\ got \subseteq 0 .. size - 1

IInv == TypeOK /\ Reading /\ Standing /\ Counting

-----------------------------------------------------------------------------
\* A size_t that is given -1 more.
LEMMA OneLess ==
  ASSUME NEW n \in 0 .. SizeMax
  PROVE  (n + SizeMax) % (SizeMax + 1) = IF n = 0 THEN SizeMax ELSE n - 1
<1>1. SizeMax \in Nat
  BY MaintenanceAssumption
<1>2. CASE n = 0
  BY <1>1, <1>2
<1>3. CASE n # 0
  <2>1. n - 1 \in 0 .. SizeMax /\ n + SizeMax = (n - 1) + 1 * (SizeMax + 1)
    BY <1>1, <1>3
  <2>2. \A b \in Nat \ {0} : \A r \in 0 .. b - 1 : (r + 1 * b) % b = r
    OBVIOUS
  <2>3. QED
    BY <1>1, <1>3, <2>1, <2>2
<1>4. QED
  BY <1>2, <1>3

LEMMA FileLength == ASSUME TypeOK PROVE Len(file) \in Nat /\ Len(ppd) \in Nat
BY MaintenanceAssumption DEF TypeOK

LEMMA LineOfFile ==
  ASSUME TypeOK
  PROVE  \A i \in 1 .. pos - start : p_buf[i] = file[start + i]
<1>1. file \in Seq(STRING)
  BY MaintenanceAssumption DEF TypeOK
<1>2. QED
  BY <1>1 DEF TypeOK, p_buf

\* Types.
LEMMA TypeStep ==
  ASSUME IInv, [Next]_vars PROVE TypeOK'
<1> USE MaintenanceAssumption DEF IInv
<1>1. CASE Start
  BY <1>1 DEF TypeOK, Start, given, reader, writer, Exit, Goto, Fault
<1>2. CASE Read
  BY <1>2, FileLength DEF TypeOK, Read, Smaller, given, reader, writer, Exit, Goto,
     Fault
<1>3. CASE Take
  BY <1>3, FileLength DEF TypeOK, Take, Reading, LineCap, given, reader, writer,
     Exit, Goto, Fault
<1>4. CASE FileEnds
  BY <1>4 DEF TypeOK, FileEnds, given, reader, writer, Exit, Goto, Fault
<1>5. CASE NoLine
  BY <1>5 DEF TypeOK, NoLine, given, reader, writer, Exit, Goto, Fault
<1>6. CASE CheckHeader
  <2>1. lines' \in {0, 1} /\ start' \in Nat /\ start' <= pos /\ pos - start' <= LineCap
    BY <1>6, FileLength DEF TypeOK, CheckHeader, LineCap
  <2>2. QED
    BY <1>6, <2>1 DEF TypeOK, CheckHeader, given, reader, writer, Exit, Goto, Fault
<1>7. CASE get_printer_command
  <2>1. command' \in 0 .. Len(ppd)
    BY <1>7, FileLength DEF TypeOK, get_printer_command
  <2>2. QED
    BY <1>7, <2>1 DEF TypeOK, get_printer_command, given, reader, writer, Exit, Goto,
       Fault
<1>8. CASE GetCapability
  BY <1>8 DEF TypeOK, GetCapability, Last, given, reader, writer, Exit, Goto, Fault
<1>9. CASE MakePiece
  <2>1. Sizes(piece) \subseteq 0 .. MaxSize
    <3>1. command \in 1 .. Len(ppd)
      BY <1>9, FileLength DEF TypeOK, Standing, MakePiece
    <3>2. ppd[command].size \in 0 .. MaxSize
      BY <3>1 DEF TypeOK
    <3>3. QED
      BY <3>2 DEF Sizes
  <2>2. QED
    BY <1>9, <2>1 DEF TypeOK, MakePiece, given, reader, writer, Exit, Goto, Fault
<1>10. CASE Write
  BY <1>10 DEF TypeOK, Write, given, reader, writer, Exit, Goto, Fault
<1>11. CASE Written
  <2>1. piece' \in 0 .. Last
    BY <1>11 DEF TypeOK, Written, After, Last
  <2>2. QED
    BY <1>11, <2>1 DEF TypeOK, Written, given, reader, writer, Exit, Goto, Fault
<1>12. CASE StartFails
  BY <1>12 DEF TypeOK, StartFails, given, reader, writer, Exit, Goto, Fault
<1>13. CASE ReadFails
  BY <1>13 DEF TypeOK, ReadFails, given, reader, writer, Exit, Goto, Fault
<1>14. CASE DescriptionFails
  BY <1>14 DEF TypeOK, DescriptionFails, given, reader, writer, Exit, Goto, Fault
<1>15. CASE CapabilityFails
  BY <1>15 DEF TypeOK, CapabilityFails, given, reader, writer, Exit, Goto, Fault
<1>16. CASE CapabilityUnread
  BY <1>16 DEF TypeOK, CapabilityUnread, Last, given, reader, writer, Exit, Goto, Fault
<1>17. CASE MakeFails
  BY <1>17 DEF TypeOK, MakeFails, given, reader, writer, Exit, Goto, Fault
<1>18. CASE DateNotMade
  BY <1>18 DEF TypeOK, DateNotMade, given, reader, writer, Exit, Goto, Fault
<1>19. CASE WriteFails
  BY <1>19, OneLess DEF TypeOK, WriteFails, given, reader, writer, Exit, Goto, Fault
<1>20. CASE UNCHANGED vars
  BY <1>20 DEF TypeOK, vars, given, reader, writer, Exit, Goto, Fault
<1>21. QED
  BY <1>1, <1>2, <1>3, <1>4, <1>5, <1>6, <1>7, <1>8, <1>9, <1>10,
     <1>11, <1>12, <1>13, <1>14, <1>15, <1>16, <1>17, <1>18, <1>19, <1>20
     DEF Next, Work, Faults, Spin, Exited

\* What was read.
LEMMA ReadingStep ==
  ASSUME IInv, [Next]_vars PROVE Reading'
<1> USE MaintenanceAssumption DEF IInv
<1>1. CASE Start
  BY <1>1 DEF TypeOK, Reading, Before, LineCap, Start, given, reader, writer, Exit,
     Goto, Fault
<1>2. CASE Read
  BY <1>2 DEF TypeOK, Reading, Before, Begins, Job!IsLine, Read, given, reader,
     writer, Exit, Goto, Fault
<1>3. CASE Take
  <2>1. lines' = lines /\ start' = start /\ pos' = pos + 1 /\ UNCHANGED <<file, retVal>>
    BY <1>3 DEF Take, given, reader, writer, Exit, Goto, Fault
  <2>2. pos - start < LineCap /\ \A i \in start + 1 .. pos : file[i] \notin Returns
    BY <1>3 DEF Take, Reading
  <2>3. pos + 1 <= Len(file) /\ pos \in Nat /\ start \in Nat /\ start <= pos /\ LineCap \in Nat
    BY <1>3, FileLength DEF Take, TypeOK, LineCap
  <2>4. /\ lines = 0 => start = 0
        /\ lines = 1 => start \in 1 .. Len(file) /\ Job!IsLine(0, start)
                       /\ Begins(file, Header, start - 1)
    BY <1>3 DEF Take, Reading, Before
  <2>5. CASE file[pos + 1] \in Returns \/ pos + 1 - start = LineCap
    <3>1. pc' = "look" /\ Job!IsLine(start, pos + 1)
      BY <1>3, FileLength, <2>2, <2>3, <2>5 DEF Take, Goto, Job!IsLine
    <3>2. QED
      BY <2>1, <2>3, <2>4, <3>1 DEF Reading, Before, Job!IsLine
  <2>6. CASE ~(file[pos + 1] \in Returns \/ pos + 1 - start = LineCap)
    <3>1. pc' = "line"
      BY <1>3, <2>6 DEF Take, Goto
    <3>2. pos + 1 - start < LineCap /\ \A i \in start + 1 .. pos + 1 : file[i] \notin Returns
      BY <2>2, <2>3, <2>6
    <3>3. QED
      BY <2>1, <2>3, <2>4, <3>1, <3>2 DEF Reading, Before, Job!IsLine
  <2>7. QED
    BY <2>5, <2>6
<1>4. CASE FileEnds
  BY <1>4, FileLength DEF TypeOK, Reading, Before, Job!IsLine, FileEnds, LineCap,
     given, reader, writer, Exit, Goto, Fault
<1>5. CASE CheckHeader
  <2>1. CASE pc' = "line"
    <3>1. start' = pos /\ pos' = pos /\ file' = file /\ lines = 0 /\ lines' = 1 /\ start = 0
      BY <1>5, <2>1 DEF CheckHeader, Reading, Before, given, reader, writer, Exit,
         Goto, Fault
    <3>2. pos > 0 /\ Job!IsLine(0, pos) /\ pos \in 1 .. Len(file)
      BY <1>5, <3>1, FileLength DEF CheckHeader, Reading, TypeOK
    <3>3. Begins(file, Header, pos - 1)
      <4>1. Begins(p_buf, Header, pos - start - 1)
        BY <1>5, <2>1 DEF CheckHeader, Exit
      <4>2. \A i \in 1 .. pos - start - 1 : p_buf[i] = file[i]
        BY <3>1, <3>2, FileLength, LineOfFile
      <4>3. QED
        BY <3>1, <3>2, <4>1, <4>2, FileLength DEF Begins
    <3>4. QED
      BY <2>1, <3>1, <3>2, <3>3, FileLength, MaintenanceAssumption
         DEF Reading, Before, Job!IsLine, LineCap, Begins, TypeOK
  <2>2. CASE pc' = "exit"
    BY <2>2 DEF Reading, Before
  <2>3. QED
    BY <1>5, <2>1, <2>2 DEF CheckHeader, Goto, Exit
<1>6. CASE ReadFails
  BY <1>6 DEF TypeOK, Reading, Before, Begins, Job!IsLine, ReadFails, given, reader,
     writer, Exit, Goto, Fault
<1>7. CASE \/ NoLine \/ get_printer_command \/ GetCapability \/ MakePiece \/ Write \/ Written
            \/ StartFails \/ DescriptionFails \/ CapabilityFails \/ CapabilityUnread
            \/ MakeFails \/ DateNotMade \/ WriteFails
  <2>1. ~Before'
    BY <1>7 DEF Before, Goto, Exit, NoLine, get_printer_command, GetCapability,
       MakePiece, Write, Written,
       StartFails, DescriptionFails, CapabilityFails, CapabilityUnread,
       MakeFails, DateNotMade, WriteFails
  <2>2. QED
    BY <2>1 DEF Reading, Before
<1>8. CASE UNCHANGED vars
  BY <1>8 DEF Reading, Before, Begins, Job!IsLine, vars, given, reader, writer,
     Exit, Goto, Fault
<1>9. QED
  BY <1>1, <1>2, <1>3, <1>4, <1>5, <1>6, <1>7, <1>8
     DEF Next, Work, Faults, Spin, Exited

\* A piece without units is one the job does without.
LEMMA EmptyIsAbsent ==
  ASSUME IInv, pc = "write", size = 0, size \in Sizes(piece)
  PROVE  piece \in {4, 6} /\ Job!Absent(piece)
<1>1. MaxSize > 0 /\ MaxSize \in Nat
  BY MaintenanceAssumption
<1>2. QED
  BY <1>1 DEF Sizes, Job!Absent

\* What the printer has.
LEMMA StandingStep ==
  ASSUME IInv, [Next]_vars PROVE Standing'
<1> USE DEF IInv
<1>1. CASE Start \/ Read \/ Take \/ FileEnds \/ ReadFails
  <2>1. Before /\ Before' /\ UNCHANGED <<command, wire, spoiled>>
    BY <1>1 DEF Start, Read, Take, FileEnds, ReadFails, Before, Goto
  <2>2. QED
    BY <2>1 DEF Standing, Before, Nothing
<1>2. CASE NoLine \/ StartFails \/ DescriptionFails \/ CapabilityFails \/ MakeFails
  <2>1. pc' = "exit" /\ retVal' = 1
    BY <1>2 DEF NoLine, StartFails, DescriptionFails, CapabilityFails, MakeFails, Exit
  <2>2. QED
    BY <2>1 DEF Standing, Before
<1>3. CASE CheckHeader
  <2>1. Before /\ pc' \in {"line", "exit"} /\ (pc' = "exit" => retVal' = 1)
    BY <1>3 DEF CheckHeader, Before, Goto, Exit
  <2>2. QED
    BY <1>3, <2>1 DEF CheckHeader, Standing, Before, Nothing
<1>4. CASE get_printer_command
  <2>1. Before /\ pc' \in {"job", "exit"} /\ (pc' = "exit" => retVal' = 1)
    BY <1>4 DEF get_printer_command, Before, Goto, Exit
  <2>2. pc' = "job" => command' # 0
    BY <1>4, FileLength DEF get_printer_command, Exit
  <2>3. QED
    BY <1>4, <2>1, <2>2 DEF get_printer_command, Standing, Before, Nothing
<1>5. CASE GetCapability \/ CapabilityUnread
  <2>1. /\ pc = "job" /\ pc' = "make" /\ piece' = 1
        /\ UNCHANGED <<wire, command, device>>
    BY <1>5 DEF GetCapability, CapabilityUnread, Goto, given
  <2>2. Nothing /\ ~spoiled /\ command # 0
    BY <2>1 DEF Standing
  <2>3. InFront'
    BY <2>1, <2>2 DEF Nothing, InFront
  <2>4. ~spoiled' => prot' = device'.prot
    BY <1>5, <2>1, <2>2 DEF GetCapability, CapabilityUnread, given
  <2>5. QED
    BY <2>1, <2>2, <2>3, <2>4 DEF Standing, Before
<1>6. CASE MakePiece
  <2>1. pc = "make" /\ pc' = "write" /\ writtenSize' = 0 /\ size' \in Sizes(piece)
        /\ UNCHANGED <<wire, command, device, prot, piece, spoiled, ppd>>
    BY <1>6 DEF MakePiece, Goto, given
  <2>2. size' \in Sizes(piece)' /\ size' >= 0
    BY <1>6, <2>1, TypeStep DEF Sizes, TypeOK
  <2>3. InFront => InFront'
    BY <2>1 DEF InFront, Job!Absent
  <2>4. QED
    BY <2>1, <2>2, <2>3 DEF Standing, Before
<1>7. CASE DateNotMade \/ WriteFails
  <2>1. pc \in {"make", "write"} /\ pc' = "write" /\ spoiled'
        /\ UNCHANGED <<command, device, prot, piece>>
    BY <1>7 DEF DateNotMade, WriteFails, Goto, given
  <2>2. QED
    BY <2>1 DEF Standing, Before
<1>8. CASE Write
  <2>1. /\ pc = "write" /\ pc' = "write"
        /\ wire' = [piece |-> piece, n |-> writtenSize', of |-> size]
        /\ writtenSize' \in writtenSize + 1 .. size
        /\ UNCHANGED <<command, device, prot, piece, size, spoiled, ppd>>
    BY <1>8 DEF Write, given, TypeOK
  <2>2. size \in Sizes(piece) => size' \in Sizes(piece)'
    BY <2>1 DEF Sizes
  <2>3. QED
    BY <2>1, <2>2 DEF Standing, Before, TypeOK
<1>9. CASE Written
  <2>1. pc = "write" /\ writtenSize >= size /\ UNCHANGED <<command, device, prot, spoiled, ppd, wire>>
    BY <1>9 DEF Written, given
  <2>2. CASE spoiled
    <3>1. pc' \in {"make", "exit"} /\ spoiled'
      BY <1>9, <2>1, <2>2 DEF Written, Goto, Exit
    <3>2. pc' = "make" => piece' = After(piece)
      BY <1>9 DEF Written, Exit
    <3>3. command # 0 /\ piece # 0 /\ (piece = 2 => prot = 2 /\ device.date)
      BY <2>1 DEF Standing
    <3>4. pc' = "make" => piece' # 0 /\ (piece' = 2 => prot = 2 /\ device.date)
      BY <3>2, <3>3 DEF After, TypeOK
    <3>5. QED
      BY <2>1, <3>1, <3>3, <3>4 DEF Standing, Before
  <2>3. CASE ~spoiled /\ size = 0
    <3>1. size \in Sizes(piece) /\ writtenSize = 0 /\ InFront
      BY <2>1, <2>3 DEF Standing, TypeOK
    <3>2. piece \in {4, 6} /\ Job!Absent(piece)
      BY <2>1, <2>3, <3>1, EmptyIsAbsent
    <3>3. pc' = "make" /\ piece' = piece + 1
      BY <1>9, <3>2 DEF Written, After, Goto, Last
    <3>4. \A r \in wire.piece + 1 .. piece : Job!Absent(r)
      BY <3>1, <3>2 DEF InFront, TypeOK
    <3>5. InFront'
      BY <2>1, <3>1, <3>3, <3>4 DEF InFront, Job!Absent, TypeOK
    <3>6. QED
      BY <2>1, <2>3, <3>2, <3>3, <3>5 DEF Standing, Before
  <2>4. CASE ~spoiled /\ size # 0
    <3>1. wire = [piece |-> piece, n |-> size, of |-> size]
      BY <2>1, <2>4 DEF Standing, TypeOK
    <3>2. CASE piece = Last
      <4>1. pc' = "exit" /\ wire'.piece = Last /\ wire'.n = wire'.of
        BY <1>9, <2>1, <3>1, <3>2 DEF Written, Exit, Last
      <4>2. QED
        BY <4>1 DEF Standing, Before
    <3>3. CASE piece # Last
      <4>1. pc' = "make" /\ piece' = After(piece)
        BY <1>9, <3>3 DEF Written, Goto
      <4>2. piece # 0 /\ prot = device.prot /\ (piece = 2 => prot = 2 /\ device.date)
        BY <2>1, <2>4 DEF Standing
      <4>3. piece' > piece /\ \A r \in piece + 1 .. piece' - 1 : Job!Absent(r)
        BY <4>1, <4>2 DEF After, Job!Absent, TypeOK
      <4>4. InFront'
        BY <2>1, <3>1, <4>3 DEF InFront, Job!Absent, TypeOK
      <4>5. piece' # 0 /\ (piece' = 2 => prot = 2 /\ device.date)
        BY <4>1, <4>2 DEF After, TypeOK
      <4>6. QED
        BY <2>1, <2>4, <4>1, <4>2, <4>4, <4>5 DEF Standing, Before
    <3>4. QED
      BY <3>2, <3>3
  <2>5. QED
    BY <2>2, <2>3, <2>4
<1>10. CASE UNCHANGED vars
  BY <1>10 DEF Standing, Before, Nothing, InFront, Job!Absent, Sizes, vars, given,
     writer, reader
<1>11. QED
  BY <1>1, <1>2, <1>3, <1>4, <1>5, <1>6, <1>7, <1>8, <1>9, <1>10
     DEF Next, Work, Faults, Spin, Exited

\* The units of a piece.
LEMMA CountingStep ==
  ASSUME IInv, [Next]_vars PROVE Counting'
<1> USE DEF IInv
<1>1. CASE pc' # "write"
  BY <1>1 DEF Counting
<1>2. CASE MakePiece \/ DateNotMade
  <2>1. writtenSize' = 0 /\ got' = {} /\ size' \in Nat
    <3>1. writtenSize' = 0 /\ got' = {}
      BY <1>2 DEF MakePiece, DateNotMade
    <3>2. size' \in 0 .. MaxSize /\ MaxSize \in Nat
      BY TypeStep, MaintenanceAssumption DEF TypeOK
    <3>3. QED
      BY <3>1, <3>2
  <2>2. QED
    BY <2>1 DEF Counting
<1>3. CASE Write
  <2>1. PICK w \in 1 .. size - writtenSize :
          /\ writtenSize' = writtenSize + w
          /\ got' = got \cup (writtenSize .. writtenSize + w - 1)
    BY <1>3 DEF Write
  <2>2. /\ 0 .. writtenSize - 1 \subseteq got /\ got \subseteq 0 .. size - 1
        /\ size' = size /\ size \in Nat /\ writtenSize \in Nat /\ writtenSize < size
    BY <1>3, MaintenanceAssumption DEF Write, Counting, TypeOK
  <2>3. QED
    BY <2>1, <2>2 DEF Counting
<1>4. CASE WriteFails
  <2>1. /\ 0 .. writtenSize - 1 \subseteq got /\ got \subseteq 0 .. size - 1
        /\ writtenSize < size /\ UNCHANGED <<size, got>>
        /\ size \in Nat /\ writtenSize \in Nat
    BY <1>4, MaintenanceAssumption DEF WriteFails, Counting, TypeOK
  <2>2. writtenSize' = SizeMax \/ writtenSize' = writtenSize - 1
    BY <1>4, OneLess DEF WriteFails, TypeOK
  <2>3. QED
    BY <2>1, <2>2 DEF Counting
<1>5. CASE UNCHANGED vars
  BY <1>5 DEF Counting, vars, writer
<1>6. ASSUME Next, ~(MakePiece \/ DateNotMade \/ Write \/ WriteFails \/ UNCHANGED vars)
      PROVE  pc' # "write"
  <2>1. pc' # "write" \/ Start \/ Read \/ Take \/ FileEnds \/ ReadFails
    BY <1>6 DEF Next, Work, Faults, Spin, Exited, Goto, Exit, NoLine, CheckHeader,
       get_printer_command, GetCapability, Written, StartFails, DescriptionFails,
       CapabilityFails, CapabilityUnread, MakeFails
  <2>2. QED
    BY <2>1 DEF Start, Read, Take, FileEnds, ReadFails, Goto
<1>7. QED
  BY <1>1, <1>2, <1>3, <1>4, <1>5, <1>6

LEMMA InitHolds == Init => IInv
<1> SUFFICES ASSUME Init PROVE IInv
  OBVIOUS
<1>1. TypeOK
  <2>1. Len(file) \in Nat /\ LineCap \in Nat /\ MaxSize \in Nat /\ SizeMax \in Nat
        /\ MaxFaults \in Nat /\ Len(ppd) \in Nat
    BY MaintenanceAssumption DEF Init, LineCap
  <2>2. wire \in [piece : 0 .. Last, n : 0 .. MaxSize, of : 0 .. MaxSize]
    BY <2>1 DEF Init, Last
  <2>3. 0 <= LineCap
    BY MaintenanceAssumption DEF LineCap
  <2>4. /\ file \in Files /\ ppd \in Entries /\ device \in [prot : {1, 2}, date : BOOLEAN]
        /\ pc = "start" /\ retVal = 0 /\ lines = 0 /\ prot = 1 /\ spoiled = FALSE
    BY DEF Init
  <2>5. /\ start = 0 /\ pos = 0 /\ buf_bytes = 0 /\ command = 0 /\ piece = 0 /\ size = 0
        /\ writtenSize = 0 /\ got = {} /\ faults = 0
    BY DEF Init
  <2>6. start <= pos /\ pos - start <= LineCap /\ pos <= Len(file) /\ pos + buf_bytes <= Len(file)
    BY <2>1, <2>3, <2>5
  <2>7. /\ command \in 0 .. Len(ppd) /\ piece \in 0 .. Last /\ size \in 0 .. MaxSize
        /\ writtenSize \in 0 .. SizeMax /\ got \subseteq 0 .. MaxSize - 1
        /\ faults \in 0 .. MaxFaults
    BY <2>1, <2>5 DEF Last
  <2>8. start \in Nat /\ pos \in Nat /\ buf_bytes \in Nat \cup {-1}
    BY <2>5
  <2>9. QED
    BY <2>2, <2>4, <2>6, <2>7, <2>8 DEF TypeOK
<1>2. Reading /\ Standing /\ Counting
  BY MaintenanceAssumption DEF Init, Reading, Standing, Counting, Before, Nothing
<1>3. QED
  BY <1>1, <1>2 DEF IInv

LEMMA Invariance == Spec => []IInv
<1>1. IInv /\ [Next]_vars => IInv'
  BY TypeStep, ReadingStep, StandingStep, CountingStep DEF IInv
<1>2. QED
  BY <1>1, InitHolds, PTL DEF Spec

\* The counters, places and sizes of cmdtocanonij.c stay in their ranges; among
\* them p_buf, which ends where the buffer does, and lies in the file.
THEOREM FilterTyped == Spec => []TypeOK
<1>1. IInv => TypeOK
  BY DEF IInv
<1>2. QED
  BY <1>1, Invariance, PTL

\* write_buffer leaves a piece whole or by way of the count below 0, however
\* often a write fails and for pieces of any size.
THEOREM WholeOrNegative == Spec => []PieceLeftWhole
<1>1. IInv => PieceLeftWhole
  <2>1. ASSUME IInv, pc = "write", writtenSize >= size, writtenSize # SizeMax
        PROVE  got = 0 .. size - 1
    <3>1. writtenSize = size /\ 0 .. writtenSize - 1 \subseteq got /\ got \subseteq 0 .. size - 1
      BY <2>1, MaintenanceAssumption DEF IInv, TypeOK, Counting
    <3>2. QED
      BY <3>1
  <2>2. QED
    BY <2>1 DEF PieceLeftWhole
<1>2. QED
  BY <1>1, Invariance, PTL

\* The ends of the two lines are what they are: no others have the property.
LEMMA LinesAreUnique ==
  ASSUME TypeOK, NEW a \in Nat, NEW b \in Nat, NEW c \in Nat,
         Job!IsLine(a, b), Job!IsLine(a, c)
  PROVE  b = c
<1>1. LineCap \in Nat /\ Len(file) \in Nat
  BY FileLength, MaintenanceAssumption DEF LineCap
<1>2. ~(b < c) /\ ~(c < b)
  BY <1>1 DEF Job!IsLine
<1>3. QED
  BY <1>2

\* The line the filter looks at is the one the promise is about.
LEMMA SameCommand ==
  ASSUME IInv, pc = "look", pos > start, lines = 1, NEW i \in 1 .. Len(ppd)
  PROVE  Found(i) <=> Job!Command(i)
<1> USE DEF IInv
<1>1. /\ Job!IsLine(0, start) /\ Begins(file, Header, start - 1) /\ start \in 1 .. Len(file)
      /\ Job!IsLine(start, pos) /\ pos \in 1 .. Len(file) /\ start \in Nat /\ pos \in Nat
  BY FileLength DEF Reading, Before, TypeOK
<1>2. file \in Seq(STRING) /\ Header \in Seq(STRING)
  BY MaintenanceAssumption DEF TypeOK
<1>3. Job!Begins(Job!Line(0, start - 1), Header)
  <2>1. Len(SubSeq(file, 1, start - 1)) = start - 1
        /\ \A j \in 1 .. start - 1 : SubSeq(file, 1, start - 1)[j] = file[j]
    BY <1>1, <1>2
  <2>2. QED
    BY <1>1, <2>1 DEF Begins, Job!Begins, Job!Line
<1>4. p_buf = Job!Line(start, pos) /\ Len(p_buf) = pos - start
  BY <1>1, <1>2 DEF p_buf, Job!Line
<1>5. \A j \in 1 .. Len(ppd) :
        Begins(ppd[j].name, p_buf, Len(ppd[j].name)) <=> Job!Begins(ppd[j].name, p_buf)
  BY DEF Begins, Job!Begins
<1>6. Found(i) <=> Job!Names(Job!Line(start, pos), i)
  BY <1>4, <1>5, FileLength DEF Found, Job!Names
<1>7. ASSUME NEW a \in 1 .. Len(file), NEW b \in 1 .. Len(file),
             Job!IsLine(0, a), Job!IsLine(a, b)
      PROVE  a = start /\ b = pos
  <2>1. a \in Nat /\ b \in Nat
    BY <1>7, FileLength
  <2>2. a = start
    BY <1>1, <1>7, <2>1, LinesAreUnique
  <2>3. QED
    BY <1>1, <1>7, <2>1, <2>2, LinesAreUnique
<1>8. QED
  BY <1>1, <1>3, <1>6, <1>7 DEF Job!Command

\* Without a header or a second line there is no command.
LEMMA NoCommand ==
  ASSUME IInv, pc = "look", NEW i \in 1 .. Len(ppd),
         \/ pos = start
         \/ lines = 0 /\ ~Begins(p_buf, Header, pos - start - 1)
  PROVE  ~Job!Command(i)
<1> USE DEF IInv
<1>1. SUFFICES ASSUME NEW a \in 1 .. Len(file), NEW b \in 1 .. Len(file),
                      Job!IsLine(0, a), Job!Begins(Job!Line(0, a - 1), Header),
                      Job!IsLine(a, b)
               PROVE  FALSE
  BY DEF Job!Command
<1>2. a \in Nat /\ b \in Nat /\ start \in Nat /\ pos \in Nat /\ Len(file) \in Nat
  BY <1>1, FileLength DEF TypeOK
<1>3. CASE pos = start
  <2>1. pos = Len(file)
    BY <1>3 DEF Reading
  <2>2. lines = 1
    BY <1>1, <1>2, <1>3, <2>1 DEF Reading, Before, TypeOK
  <2>3. a = start
    BY <1>1, <1>2, <2>2, LinesAreUnique DEF Reading, Before
  <2>4. QED
    <3>1. a < b /\ b <= Len(file)
      BY <1>1 DEF Job!IsLine
    <3>2. a = Len(file)
      BY <1>3, <2>1, <2>3
    <3>3. QED
      BY <1>2, <3>1, <3>2
<1>4. CASE lines = 0 /\ ~Begins(p_buf, Header, pos - start - 1) /\ pos # start
  <2>1. start = 0 /\ Job!IsLine(0, pos)
    BY <1>4 DEF Reading, Before
  <2>2. a = pos
    BY <1>1, <1>2, <2>1, LinesAreUnique
  <2>3. file \in Seq(STRING)
    BY MaintenanceAssumption DEF TypeOK
  <2>4. /\ Len(SubSeq(file, 1, a - 1)) = a - 1
        /\ \A j \in 1 .. a - 1 : SubSeq(file, 1, a - 1)[j] = file[j]
    BY <1>1, <1>2, <2>3
  <2>5. \A j \in 1 .. pos - start : p_buf[j] = file[j]
    BY <2>1, LineOfFile, <1>2
  <2>6. a - 1 <= Len(Header) /\ \A j \in 1 .. a - 1 : file[j] = Header[j]
    BY <1>1, <2>4 DEF Job!Begins, Job!Line
  <2>7. QED
    BY <1>2, <1>4, <2>1, <2>2, <2>5, <2>6 DEF Begins
<1>5. QED
  BY <1>3, <1>4

-----------------------------------------------------------------------------
JobStep == [Job!Next /\ UNCHANGED Job!given]_Job!vars

\* Without a fault no promise is broken, and what is open remains so until the
\* exit.
LEMMA Open ==
  ASSUME IInv, [Next]_vars, ~spoiled, pc # "exit"
  PROVE  JobStep
<1> USE DEF IInv
<1>1. UNCHANGED given
  BY DEF Next, Work, Faults, Spin, Exited, vars, Start, Read, Take, FileEnds, NoLine,
     CheckHeader, get_printer_command, GetCapability, MakePiece, Write, Written,
     StartFails, ReadFails, DescriptionFails, CapabilityFails, CapabilityUnread,
     MakeFails, DateNotMade, WriteFails
<1>2. CASE \/ Start \/ Read \/ Take \/ FileEnds \/ GetCapability \/ MakePiece
           \/ (CheckHeader /\ pc' = "line") \/ (Written /\ pc' = "make") \/ UNCHANGED vars
  <2>1. UNCHANGED <<command, wire, faults, spoiled>> /\ pc' # "exit"
    BY <1>2 DEF Start, Read, Take, FileEnds, GetCapability, MakePiece, CheckHeader,
       Written, vars, Goto
  <2>2. QED
    BY <1>1, <2>1 DEF JobStep, Job!vars, Job!given, given
<1>3. CASE \/ StartFails \/ DescriptionFails \/ CapabilityFails \/ MakeFails
  <2>1. UNCHANGED <<command, wire, spoiled>> /\ pc' = "exit" /\ retVal' = 1 /\ faults' > 0
    BY <1>3 DEF StartFails, DescriptionFails, CapabilityFails, MakeFails, Fault, Exit,
       TypeOK
  <2>2. Job!GiveUp
    BY <2>1 DEF Job!GiveUp
  <2>3. QED
    BY <1>1, <2>2 DEF JobStep, Job!Next, Job!given, given
<1>4. CASE ReadFails \/ CapabilityUnread \/ DateNotMade \/ WriteFails
  <2>1. UNCHANGED <<command, wire>> /\ pc' # "exit" /\ faults' > 0
    BY <1>4 DEF ReadFails, CapabilityUnread, DateNotMade, WriteFails, Fault, Goto,
       TypeOK
  <2>2. Job!Trouble
    BY <2>1 DEF Job!Trouble
  <2>3. QED
    BY <1>1, <2>2 DEF JobStep, Job!Next, Job!given, given
<1>5. CASE NoLine \/ (CheckHeader /\ pc' # "line") \/ (get_printer_command /\ pc' = "exit")
  <2>1. UNCHANGED <<command, wire, faults, spoiled>> /\ pc' = "exit" /\ retVal' = 1
    BY <1>5 DEF NoLine, CheckHeader, get_printer_command, Exit, Goto
  <2>2. \A i \in 1 .. Len(ppd) : ~Job!Command(i)
    <3>1. CASE NoLine
      BY <3>1, NoCommand DEF NoLine
    <3>2. CASE CheckHeader /\ pc' # "line"
      BY <3>2, NoCommand DEF CheckHeader, Goto
    <3>3. CASE get_printer_command /\ pc' = "exit"
      BY <3>3, SameCommand DEF get_printer_command, Goto
    <3>4. QED
      BY <1>5, <3>1, <3>2, <3>3
  <2>3. Job!GiveUp
    BY <2>1, <2>2 DEF Job!GiveUp
  <2>4. QED
    BY <1>1, <2>3 DEF JobStep, Job!Next, Job!given, given
<1>6. CASE get_printer_command /\ pc' # "exit"
  <2>1. /\ pc = "look" /\ pos > start /\ lines = 1 /\ pc' = "job"
        /\ command' \in {i \in 1 .. Len(ppd) : Found(i)} /\ UNCHANGED <<wire, faults, spoiled>>
    BY <1>6 DEF get_printer_command, Exit, Goto
  <2>2. command' \in {i \in 1 .. Len(ppd) : Job!Command(i)}
    BY <2>1, SameCommand
  <2>3. command = 0
    BY <2>1 DEF Standing, Before
  <2>4. Job!Choose
    BY <2>1, <2>2, <2>3 DEF Job!Choose
  <2>5. QED
    BY <1>1, <2>4 DEF JobStep, Job!Next, Job!given, given
<1>7. CASE Write
  <2>1. /\ pc = "write" /\ pc' = "write" /\ UNCHANGED <<command, faults, spoiled>>
        /\ wire' = [piece |-> piece, n |-> writtenSize', of |-> size]
        /\ writtenSize' \in writtenSize + 1 .. size
    BY <1>7 DEF Write, TypeOK
  <2>2. size \in Sizes(piece) /\ size \in Nat /\ writtenSize \in Nat /\ command # 0
        /\ piece \in 1 .. Last
    BY <2>1, MaintenanceAssumption DEF Standing, TypeOK, Last
  <2>3. CASE writtenSize # 0
    <3>1. wire = [piece |-> piece, n |-> writtenSize, of |-> size]
      BY <2>1, <2>3 DEF Standing
    <3>2. wire' = [wire EXCEPT !.n = writtenSize']
      BY <2>1, <3>1
    <3>3. Job!SendMore
      BY <2>1, <3>1, <3>2 DEF Job!SendMore
    <3>4. QED
      BY <1>1, <3>3 DEF JobStep, Job!Next, Job!given, given
  <2>4. CASE writtenSize = 0
    <3>1. InFront
      BY <2>1, <2>4 DEF Standing
    <3>2. ~Job!Absent(piece)
      <4>1. piece # 4 /\ (piece = 6 => ppd[command].size # 0)
        BY <2>1, <2>2, <2>4 DEF Sizes
      <4>2. piece = 2 => device = [prot |-> 2, date |-> TRUE]
        BY <2>1 DEF Standing, TypeOK
      <4>3. QED
        BY <4>1, <4>2 DEF Job!Absent
    <3>3. Job!Follows(wire.piece, piece)
      BY <2>2, <3>1, <3>2 DEF Job!Follows, InFront, Last, Job!Last
    <3>4. piece = 6 => size = ppd[command].size
      BY <2>2 DEF Sizes
    <3>5. Job!SendNext
      BY <2>1, <2>2, <2>4, <3>1, <3>3, <3>4 DEF Job!SendNext, InFront, Last, Job!Last
    <3>6. QED
      BY <1>1, <3>5 DEF JobStep, Job!Next, Job!given, given
  <2>5. QED
    BY <2>3, <2>4
<1>8. CASE Written /\ pc' # "make"
  <2>1. /\ piece = Last /\ pc' = "exit" /\ retVal' = 0
        /\ UNCHANGED <<command, wire, faults, spoiled>>
    BY <1>8 DEF Written, Exit, Goto
  <2>2. wire.piece = Last /\ wire.n = wire.of
    BY <2>1, StandingStep DEF Standing
  <2>3. Job!Done
    BY <2>1, <2>2 DEF Job!Done, Last, Job!Last
  <2>4. QED
    BY <1>1, <2>3 DEF JobStep, Job!Next, Job!given, given
<1>9. Spin \/ Exited => UNCHANGED vars
  BY DEF Spin, Exited
<1>10. CASE Work
  BY <1>2, <1>5, <1>6, <1>7, <1>8, <1>10 DEF Work
<1>11. CASE Faults
  BY <1>3, <1>4, <1>11 DEF Faults
<1>12. QED
  BY <1>2, <1>9, <1>10, <1>11 DEF Next

LEMMA Closed ==
  ASSUME IInv, [Next]_vars, spoiled \/ pc = "exit"
  PROVE  JobStep
<1> USE DEF IInv
<1>1. UNCHANGED given /\ (spoiled => spoiled')
  BY DEF Next, Work, Faults, Spin, Exited, vars, Start, Read, Take, FileEnds, NoLine,
     CheckHeader, get_printer_command, GetCapability, MakePiece, Write, Written,
     StartFails, ReadFails, DescriptionFails, CapabilityFails, CapabilityUnread,
     MakeFails, DateNotMade, WriteFails, Standing
<1>2. CASE spoiled
  BY <1>1, <1>2 DEF JobStep, Job!Next, Job!given, given
<1>3. CASE ~spoiled
  <2>1. UNCHANGED vars
    BY <1>3 DEF Next, Work, Faults, Spin, Exited, vars, Start, Read, Take, FileEnds,
       NoLine,
       CheckHeader, get_printer_command, GetCapability, MakePiece, Write, Written,
       StartFails, ReadFails, DescriptionFails, CapabilityFails, CapabilityUnread,
       MakeFails, DateNotMade, WriteFails
  <2>2. QED
    BY <2>1 DEF JobStep, Job!vars, Job!given, vars, given
<1>4. QED
  BY <1>2, <1>3

\* cmdtocanonij2 implements the promise of a maintenance job, for every command
\* file, every printer description and every size of the buffers.
THEOREM MaintenanceRefinement == Spec => ImplementsMaintenanceJob
<1>1. Init => Job!Init
  BY DEF Init, Job!Init
<1>2. IInv /\ [Next]_vars => JobStep
  BY Open, Closed
<1>3. QED
  BY <1>1, <1>2, Invariance, PTL DEF Spec, ImplementsMaintenanceJob, Job!Spec, JobStep

=============================================================================

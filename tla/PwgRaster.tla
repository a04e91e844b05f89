----------------------------- MODULE PwgRaster -----------------------------
(***************************************************************************)
(* tocnpwg: main() takes the pages of the CUPS raster one by one, scales   *)
(* each to the printable area, centres it there and writes it, compressed, *)
(* to a file of its own.  A page is put out when the header of the next    *)
(* one has come, because it says whether one follows.                      *)
(*                                                                         *)
(* The input may end inside a page, the disk may be full, the reader of    *)
(* stdout may leave: reads, writes to the file and writes to stdout are    *)
(* all made and none of their results is looked at (the tests are written  *)
(* !f() < 0, or on an unsigned value, and are never true).                 *)
(***************************************************************************)
EXTENDS PwgLine

CONSTANTS
  Pixel, White,  \* pixels, and what the margins are made of
  MaxPages,      \* bound: pages of a job
  Sizes,         \* widths and heights of the pages
  Printable      \* values of the options printable_width and printable_height

ASSUME RasterAssumption ==
  /\ White \in Pixel /\ Pixel \subseteq Nat
  /\ MaxPages \in Nat
  /\ Sizes \subseteq Nat \ {0} /\ Printable \subseteq Nat

VARIABLES
  job,         \* the options: [rotate, width, height]
  pc, result,
  page,        \* the number of the page at hand
  inheader,    \* its size
  isPWGExist,  \* a page is in its file and not put out
  y,           \* the loops' counter
  cursor, prev_pos, cnt,  \* curr_pos and total_rest; prev_pos; lines to read
  in_ptr,      \* the line read last
  temp,        \* the file of a page to be rotated
  outras,      \* the page's file
  given,       \* in_ptr after each read of this page
  wire,        \* the last page put out: its number, whether one follows
  ended, full, broken  \* the input has ended; the disk is full; nobody reads

place == <<pc, result>>
loop  == <<y, cursor, prev_pos, cnt>>
world == <<ended, full, broken>>
vars  == <<job, place, page, inheader, isPWGExist, loop, in_ptr, temp, outras, given,
           wire, world>>

Line(w) == [1 .. w -> Pixel]
WhiteLine(w) == [x \in 1 .. w |-> White]

-----------------------------------------------------------------------------
\* The sizes of a page: a printable_width or _height of 0 leaves it alone.
OutW == IF job.width = 0 THEN inheader.w ELSE job.width
OutH == IF job.height = 0 THEN inheader.h ELSE job.height

\* (long)( a * b / c + 0.5 )
Rounded(a, b, c) == (2 * a * b + c) \div (2 * c)

\* ComputeDestinationSize: as large as fits.
Narrow == OutW * inheader.h < OutH * inheader.w
DstW == IF Narrow THEN OutW ELSE Rounded(inheader.w, OutH, inheader.h)
DstH == IF Narrow THEN Rounded(inheader.h, OutW, inheader.w) ELSE OutH
OfsW == IF Narrow THEN 0 ELSE (OutW - DstW) \div 2
OfsH == IF Narrow THEN (OutH - DstH) \div 2 ELSE 0

BottomMargin_Slip == OfsH   \* as wide as the one at the top

BottomMargin == OutH - DstH - OfsH

\* An odd page of a job with the duplexprint option for the long side.
Rotated == job.rotate /\ page % 2 = 1

Resized(line) ==
  [x \in 1 .. OutW |->
     IF x \in OfsW + 1 .. OfsW + DstW THEN HExtend(line, DstW)[x - OfsW] ELSE White]

-----------------------------------------------------------------------------
TypeOK ==
  /\ job \in [rotate : BOOLEAN, width : Printable, height : Printable]
  /\ pc \in {"header", "output", "create", "top", "data", "read", "bottom", "reread",
             "last", "exit", "crash"}
  /\ result \in {-1, 0}
  /\ page \in 1 .. MaxPages + 1
  /\ inheader \in [w : Sizes \cup {0}, h : Sizes \cup {0}]
  /\ isPWGExist \in BOOLEAN
  /\ y \in Nat /\ cnt \in Nat /\ prev_pos \in Nat \cup {-1}
  /\ cursor \in [pos : Nat, rest : Int]
  /\ in_ptr \in Seq(Pixel) /\ temp \in Seq(Seq(Pixel)) /\ given \in Seq(Seq(Pixel))
  /\ outras.count \in 0 .. MaxRepeat /\ outras.remaining \in Nat
  /\ outras.pixels \in Seq(Pixel)
  /\ wire \in [num : 0 .. MaxPages + 1, next : BOOLEAN]
  /\ ended \in BOOLEAN /\ full \in BOOLEAN /\ broken \in BOOLEAN

Init ==
  /\ job \in [rotate : BOOLEAN, width : Printable, height : Printable]
  /\ pc = "header" /\ result = -1
  /\ page = 1 /\ inheader = [w |-> 0, h |-> 0] /\ isPWGExist = FALSE
  /\ y = 0 /\ cursor = First /\ prev_pos = -1 /\ cnt = 0
  /\ in_ptr = <<>> /\ temp = <<>> /\ outras = NewRaster(0) /\ given = <<>>
  /\ wire = [num |-> 0, next |-> FALSE]
  /\ ended = FALSE /\ full = FALSE /\ broken = FALSE

Goto(next) == pc' = next /\ UNCHANGED result

-----------------------------------------------------------------------------
\* cupsRasterReadHeader2.
ReadHeader ==
  /\ pc = "header" /\ ~ended /\ page <= MaxPages
  /\ inheader' \in [w : Sizes, h : Sizes]
  /\ Goto(IF isPWGExist THEN "output" ELSE "create")
  /\ UNCHANGED <<job, page, isPWGExist, loop, in_ptr, temp, outras, given, wire, world>>

NoHeader ==
  /\ pc = "header" /\ (ended \/ page > MaxPages)
  /\ IF isPWGExist THEN Goto("last") ELSE (pc' = "exit" /\ result' = 0)
  /\ UNCHANGED <<job, page, inheader, isPWGExist, loop, in_ptr, temp, outras, given,
                 wire, world>>

\* OutputPWGPageData and DestroyPWGPageData.
PutOut(next) ==
  /\ wire' = IF broken THEN wire ELSE [num |-> page, next |-> next]
  /\ outras' = NewRaster(0) /\ isPWGExist' = FALSE

OutputPage ==
  /\ pc = "output"
  /\ PutOut(TRUE) /\ Goto("create")
  /\ UNCHANGED <<job, page, inheader, loop, in_ptr, temp, given, world>>

OutputLast_Slip ==   \* as for any other page
  /\ pc = "last"
  /\ PutOut(TRUE) /\ pc' = "exit" /\ result' = 0
  /\ UNCHANGED <<job, page, inheader, loop, in_ptr, temp, given, world>>

OutputLast ==
  /\ pc = "last"
  /\ PutOut(FALSE) /\ pc' = "exit" /\ result' = 0
  /\ UNCHANGED <<job, page, inheader, loop, in_ptr, temp, given, world>>

-----------------------------------------------------------------------------
\* The page cannot be taken: its colours, its header, memory; or, when it is to be
\* rotated, a line cannot be written.
CreateFails ==
  /\ pc = "create" \/ (pc = "read" /\ cnt = 0 /\ Rotated)
  /\ pc' = "exit" /\ UNCHANGED result
  /\ UNCHANGED <<job, page, inheader, isPWGExist, loop, in_ptr, temp, outras, given,
                 wire, world>>

\* The quotient is that of ( in_h - 1 ) / ( dst_h - 1 ).
CreatePage ==
  /\ pc = "create"
  /\ Goto(IF DstH = 1 THEN "crash" ELSE "top")
  /\ outras' = NewRaster(OutH)
  /\ in_ptr' = WhiteLine(inheader.w) /\ temp' = <<>> /\ given' = <<>>
  /\ y' = 0 /\ cursor' = First /\ prev_pos' = -1 /\ cnt' = 0
  /\ UNCHANGED <<job, page, inheader, isPWGExist, wire, world>>

\* pwgRasterWritePixels: rows the disk has no room for are lost.
WriteRow(line) ==
  LET r == WritePixels(outras, line)
  IN  \/ outras' = r /\ UNCHANGED full
      \/ r.file # outras.file /\ outras' = [r EXCEPT !.file = outras.file] /\ full' = TRUE

\* A line goes to the page's file, or to be rotated.
PutLine(line) ==
  IF Rotated
  THEN temp' = Append(temp, line) /\ UNCHANGED <<outras, full>>
  ELSE WriteRow(line) /\ UNCHANGED temp

\* WriteWhiteLineToPWG, WriteWhiteLineToRAW: a margin of n lines.
Margin(here, n, next) ==
  /\ pc = here
  /\ \/ /\ y < n
        /\ PutLine(WhiteLine(OutW))
        /\ y' = y + 1 /\ UNCHANGED place
     \/ /\ y >= n
        /\ y' = 0 /\ Goto(next) /\ UNCHANGED <<temp, outras, full>>
  /\ UNCHANGED <<job, page, inheader, isPWGExist, cursor, prev_pos, cnt, in_ptr, given,
                 wire, ended, broken>>

TopMargin == Margin("top", OfsH, "data")

\* The next row: which line it is made of, and how many are read to get there.
NextRow ==
  /\ pc = "data" /\ y < DstH
  /\ cursor' = Adjust(cursor, DstH - 1)
  /\ cnt' = cursor'.pos - prev_pos /\ prev_pos' = cursor'.pos
  /\ Goto("read")
  /\ UNCHANGED <<job, page, inheader, isPWGExist, y, in_ptr, temp, outras, given, wire,
                 world>>

\* cupsRasterReadPixels; at the end of the input it leaves in_ptr alone.
ReadPixels ==
  /\ pc = "read" /\ cnt > 0
  /\ IF ended THEN UNCHANGED in_ptr ELSE in_ptr' \in Line(inheader.w)
  /\ given' = Append(given, in_ptr') /\ cnt' = cnt - 1
  /\ UNCHANGED <<job, place, page, inheader, isPWGExist, y, cursor, prev_pos, temp,
                 outras, wire, world>>

PutRow ==
  /\ pc = "read" /\ cnt = 0
  /\ PutLine(IF Rotated THEN MirrorRaster(Resized(in_ptr)) ELSE Resized(in_ptr))
  /\ cursor' = Advance(cursor, inheader.h, DstH - 1) /\ y' = y + 1
  /\ Goto("data")
  /\ UNCHANGED <<job, page, inheader, isPWGExist, prev_pos, cnt, in_ptr, given, wire,
                 ended, broken>>

RowsDone ==
  /\ pc = "data" /\ y >= DstH
  /\ y' = 0 /\ Goto("bottom")
  /\ UNCHANGED <<job, page, inheader, isPWGExist, cursor, prev_pos, cnt, in_ptr, temp,
                 outras, given, wire, world>>

BottomLines == Margin("bottom", BottomMargin, "reread")

\* A page that was to be rotated: the first dst_h lines of the temporary file,
\* from the last of them up.
Reread ==
  /\ pc = "reread" /\ Rotated /\ y < DstH
  /\ WriteRow(temp[DstH - y]) /\ y' = y + 1
  /\ UNCHANGED <<job, place, page, inheader, isPWGExist, cursor, prev_pos, cnt, in_ptr,
                 temp, given, wire, ended, broken>>

PageCreated ==
  /\ pc = "reread" /\ (~Rotated \/ y >= DstH)
  /\ page' = page + 1 /\ isPWGExist' = TRUE /\ Goto("header")
  /\ UNCHANGED <<job, inheader, loop, in_ptr, temp, outras, given, wire, world>>

-----------------------------------------------------------------------------
\* rastertocanonij ends; the reader of stdout leaves.
InputEnds ==
  /\ pc \notin {"exit", "crash"} /\ ~ended
  /\ ended' = TRUE
  /\ UNCHANGED <<job, place, page, inheader, isPWGExist, loop, in_ptr, temp, outras,
                 given, wire, full, broken>>

ReaderLeaves ==
  /\ pc \notin {"exit", "crash"} /\ ~broken
  /\ broken' = TRUE
  /\ UNCHANGED <<job, place, page, inheader, isPWGExist, loop, in_ptr, temp, outras,
                 given, wire, ended, full>>

Filter ==
  \/ ReadHeader \/ NoHeader \/ OutputPage \/ OutputLast
  \/ CreateFails \/ CreatePage \/ TopMargin \/ NextRow \/ ReadPixels \/ PutRow
  \/ RowsDone \/ BottomLines \/ Reread \/ PageCreated

Terminated == pc \in {"exit", "crash"} /\ UNCHANGED vars

Next == Filter \/ InputEnds \/ ReaderLeaves \/ Terminated

Spec == Init /\ [][Next]_vars

-----------------------------------------------------------------------------
\* The page just made: page counts it already.
Finished == pc = "header" /\ isPWGExist
WasRotated == job.rotate /\ page % 2 = 0

\* What the page should be, from the lines it was given: white margins above,
\* below and at both sides, and between them the line nearest to each row, as
\* wide as the sheet asks.
Row(j) ==
  IF j \notin OfsH + 1 .. OfsH + DstH THEN WhiteLine(OutW)
  ELSE LET line == Scaled(given[Nearest(j - OfsH - 1, inheader.h, DstH) + 1], DstW)
       IN  [x \in 1 .. OutW |->
              IF x \in OfsW + 1 .. OfsW + DstW THEN line[x - OfsW] ELSE White]

Picture == [j \in 1 .. OutH |-> Row(j)]
Turned == [j \in 1 .. OutH |-> Reverse(Row(OutH + 1 - j))]

\* A page that is finished is, read back from its file, the picture it should be:
\* the compressed rows, their repeat counts, the rows and pixels chosen by the
\* divisions with rest, and the margins add up to it, for the pages turned by 180
\* degrees where they have no margin above and below.
PageIsWhole ==
  Finished /\ ~full /\ (WasRotated => DstH = OutH)
    => Decoded(outras.file) = IF WasRotated THEN Turned ELSE Picture

\* A finished page has read exactly its own lines, so that the next header is
\* found where it begins; and each row was made from the line nearest to it.
PageInStep ==
  Finished /\ DstH > 0 => Len(given) = inheader.h

\* A finished page that was not turned has given the file all the rows its
\* header announces, so that no row is held back.
NoRowHeldBack ==
  Finished /\ ~WasRotated => outras.remaining = 0

\* A filter that succeeds has put out every page it made, and has said of the last
\* one, and only of it, that none follows -- if somebody read it.
LastPageSaysSo ==
  /\ pc = "exit" /\ result = 0 /\ ~broken /\ page > 1
       => wire = [num |-> page, next |-> FALSE]
  /\ ~wire.next => wire.num \in {0, page}

\* main.c says "Rotate 180 degree" of the pages turned for two-sided printing:
\* such a page is the other one, upside down.
RotatedPageIsWhole ==
  Finished /\ ~full /\ WasRotated => Decoded(outras.file) = Turned

=============================================================================

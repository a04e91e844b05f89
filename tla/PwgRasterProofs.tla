-------------------------- MODULE PwgRasterProofs --------------------------
(***************************************************************************)
(* For pages and sheets of every size and pixels of every value: a         *)
(* finished page has read exactly its own lines and has given the file all *)
(* its rows, the file read back is the picture it should be, and the last  *)
(* page put out says that it is the last.                                  *)
(*                                                                         *)
(* 1. The loops of CreatePWGPageData: IInv.                                *)
(* 2. The cursors of a line are at the nearest pixels.                     *)
(* 3. A line is read back as it was compressed.                            *)
(* 4. A row written is one row more to read back.                          *)
(* 5. The rows made of a page are those of its picture: PInv.              *)
(***************************************************************************)
EXTENDS PwgRaster, InductionLemmas

-----------------------------------------------------------------------------
(* 1. The loops. *)
\* What the loops of CreatePWGPageData keep.  D, Quot and Rest are the divisor,
\* the quotient and the rest of the scaling of rows.
D == DstH - 1
Quot == (inheader.h - 1) \div D
Rest == (inheader.h - 1) % D

Creating == pc \in {"top", "data", "read", "bottom", "reread"}
Sized == inheader \in [w : Sizes, h : Sizes]

IsRaster(r) ==
  r = [pixels |-> r.pixels, count |-> r.count, remaining |-> r.remaining, file |-> r.file]

Typed ==
  /\ page \in Nat /\ page > 0
  /\ job \in [rotate : BOOLEAN, width : Printable, height : Printable]
  /\ isPWGExist \in BOOLEAN
  /\ y \in Nat /\ cnt \in Nat /\ prev_pos \in Int
  /\ cursor \in [pos : Int, rest : Int]
  /\ in_ptr \in Seq(Pixel) /\ given \in Seq(Seq(Pixel))
  /\ IsRaster(outras) /\ outras.remaining \in Nat

\* Which pages are made and put out.
Pages ==
  /\ pc = "header" => (isPWGExist <=> page > 1)
  /\ pc \in {"create", "output", "last"} \/ Creating => Sized
  /\ pc = "header" /\ isPWGExist => Sized
  /\ wire.next \/ wire = [num |-> 0, next |-> FALSE]
       \/ (pc = "exit" /\ wire = [num |-> page, next |-> FALSE])
  /\ pc = "exit" /\ result = 0 /\ ~broken /\ page > 1
       => wire = [num |-> page, next |-> FALSE]
  /\ pc # "exit" => result = -1

\* The row y is made of the line nearest to y * (in_h - 1) / D: the row before
\* was at prev_pos, less than half a step off.
At(pos, rest, row) ==
  pos * D + rest = row * (inheader.h - 1) /\ -D <= 2 * rest /\ 2 * rest < D

Reading ==
  /\ Creating => DstH # 1
  /\ Creating \/ Finished => Len(given) = prev_pos + 1 - cnt
  /\ (Creating /\ pc # "read") \/ Finished => cnt = 0
  /\ pc = "top" => cursor = First /\ prev_pos = -1
  /\ pc = "data" /\ y = 0 => cursor = First /\ prev_pos = -1
  /\ pc = "data" /\ y > 0 =>
       /\ DstH > 1 /\ y <= DstH
       /\ cursor.pos = prev_pos + Quot
       /\ At(prev_pos, cursor.rest - Rest, y - 1)
  /\ pc = "read" =>
       /\ y < DstH
       /\ prev_pos = cursor.pos
       /\ At(prev_pos, cursor.rest, y)
  /\ pc \in {"bottom", "reread"} \/ Finished => (DstH > 0 => prev_pos = inheader.h - 1)

\* The rows that are still to come to a page that is not rotated.
Writing ==
  /\ pc = "top" /\ ~Rotated => y <= OfsH /\ outras.remaining = OutH - y
  /\ pc \in {"data", "read"} /\ ~Rotated
       => y <= DstH /\ outras.remaining = OutH - OfsH - y
  /\ pc = "bottom" /\ ~Rotated => y <= BottomMargin /\ outras.remaining = BottomMargin - y
  /\ pc = "reread" /\ ~Rotated => outras.remaining = 0
  /\ Finished /\ ~WasRotated => outras.remaining = 0

IInv == Typed /\ Pages /\ Reading /\ Writing

-----------------------------------------------------------------------------
(* The arithmetic. *)
LEMMA Division ==
  ASSUME NEW a \in Nat, NEW d \in Nat, d > 0
  PROVE  /\ a \div d \in Nat /\ a % d \in Nat /\ a % d < d
         /\ a = d * (a \div d) + (a % d)
OBVIOUS

\* Multiplication keeps the order.
LEMMA Times ==
  ASSUME NEW a \in Nat, NEW m \in Int, NEW n \in Int, m <= n
  PROVE  a * m <= a * n
OBVIOUS

\* What is no wider than n of c is not rounded to more than n.
LEMMA RoundedFits ==
  ASSUME NEW a \in Nat, NEW b \in Nat, NEW c \in Nat, NEW n \in Nat, c > 0,
         a * b <= n * c
  PROVE  Rounded(a, b, c) \in 0 .. n
<1> DEFINE q == (2 * a * b + c) \div (2 * c)
           r == (2 * a * b + c) % (2 * c)
           ab == a * b
           nc == n * c
<1>1. ab \in Nat /\ nc \in Nat /\ ab <= nc /\ 2 * a * b = 2 * ab
  OBVIOUS
<1>2. 2 * a * b + c \in Nat /\ 2 * c \in Nat /\ 2 * c > 0
  BY <1>1
<1>3. q \in Nat /\ r \in Nat /\ 2 * ab + c = (2 * c) * q + r
  BY <1>1, <1>2, Division
<1>4. ASSUME q >= n + 1 PROVE FALSE
  <2>1. (2 * c) * (n + 1) <= (2 * c) * q
    BY <1>2, <1>3, <1>4, Times
  <2>2. (2 * c) * (n + 1) = 2 * nc + 2 * c
    OBVIOUS
  <2> QED BY <1>1, <1>3, <2>1, <2>2
<1> QED BY <1>3, <1>4 DEF Rounded

\* A position less than half a step off the last one is the last one.
LEMMA LastPosition ==
  ASSUME NEW d \in Nat, d > 0, NEW p \in Int, NEW e \in Int, NEW n \in Int,
         p * d + e = d * n, -d <= 2 * e, 2 * e < d
  PROVE  p = n
<1>1. ASSUME p >= n + 1 PROVE FALSE
  <2>1. d * (n + 1) <= d * p
    BY <1>1, Times
  <2>2. d * (n + 1) = d * n + d /\ d * p = p * d
    OBVIOUS
  <2>3. d * n \in Int /\ p * d \in Int
    OBVIOUS
  <2> QED BY <2>1, <2>2, <2>3
<1>2. ASSUME p + 1 <= n PROVE FALSE
  <2>1. d * (p + 1) <= d * n
    BY <1>2, Times
  <2>2. d * (p + 1) = d * p + d /\ d * p = p * d
    OBVIOUS
  <2>3. d * n \in Int /\ p * d \in Int
    OBVIOUS
  <2> QED BY <2>1, <2>2, <2>3
<1> QED BY <1>1, <1>2

-----------------------------------------------------------------------------
(* The sizes of a page, and the raster. *)
LEMMA SizesFit ==
  ASSUME Typed, Sized
  PROVE  /\ OutH \in Nat /\ DstH \in 0 .. OutH /\ OfsH \in Nat /\ BottomMargin \in Nat
         /\ OutH = OfsH + DstH + BottomMargin
         /\ inheader.h \in Nat /\ inheader.h > 0
<1>1. /\ inheader.h \in Nat /\ inheader.h > 0 /\ inheader.w \in Nat /\ inheader.w > 0
      /\ OutH \in Nat /\ OutW \in Nat
  <2>1. inheader.w \in Sizes /\ inheader.h \in Sizes
    BY DEF Sized
  <2>2. job.width \in Printable /\ job.height \in Printable
    BY DEF Typed
  <2>3. /\ inheader.w \in Nat /\ inheader.w > 0 /\ inheader.h \in Nat /\ inheader.h > 0
        /\ job.width \in Nat /\ job.height \in Nat
    <3>1. \A s \in Sizes : s \in Nat /\ s > 0
      BY RasterAssumption
    <3>2. \A p \in Printable : p \in Nat
      BY RasterAssumption
    <3> QED BY <2>1, <2>2, <3>1, <3>2
  <2> QED BY <2>3 DEF OutH, OutW
<1>2. Narrow => inheader.h * OutW <= OutH * inheader.w
  BY <1>1 DEF Narrow
<1>3. DstH \in 0 .. OutH
  <2>1. CASE Narrow
    <3>1. Rounded(inheader.h, OutW, inheader.w) \in 0 .. OutH
      BY <1>1, <1>2, <2>1, RoundedFits
    <3> QED BY <2>1, <3>1 DEF DstH
  <2>2. CASE ~Narrow
    BY <1>1, <2>2 DEF DstH
  <2> QED BY <2>1, <2>2
<1>4. OfsH \in Nat /\ OfsH + DstH <= OutH
  BY <1>1, <1>3 DEF OfsH
<1> QED BY <1>1, <1>3, <1>4 DEF BottomMargin

\* A row written is one less to come.
LEMMA RowWritten ==
  ASSUME NEW line, IsRaster(outras), outras.remaining \in Nat, WriteRow(line)
  PROVE  /\ IsRaster(outras')
         /\ outras'.remaining = IF outras.remaining = 0 THEN 0 ELSE outras.remaining - 1
<1> DEFINE r == WritePixels(outras, line)
<1>1. IsRaster(r) /\ r.remaining = IF outras.remaining = 0 THEN 0 ELSE outras.remaining - 1
  BY DEF WritePixels, RasterWrite, IsRaster
<1>2. \/ outras' = r
      \/ outras' = [r EXCEPT !.file = outras.file]
  BY DEF WriteRow
<1> HIDE DEF r
<1> QED BY <1>1, <1>2 DEF IsRaster

\* ... and so is a line put out, unless it goes aside.
LEMMA LinePut ==
  ASSUME NEW line, Typed, PutLine(line)
  PROVE  /\ IsRaster(outras') /\ outras'.remaining \in Nat
         /\ ~Rotated => outras'.remaining =
              IF outras.remaining = 0 THEN 0 ELSE outras.remaining - 1
<1>1. CASE Rotated
  BY <1>1 DEF PutLine, Typed, IsRaster
<1>2. CASE ~Rotated
  BY <1>2, RowWritten DEF PutLine, Typed
<1> QED BY <1>1, <1>2

\* The lines of a page are sequences of pixels.
LEMMA LinesTyped ==
  ASSUME NEW w \in Nat
  PROVE  Line(w) \subseteq Seq(Pixel) /\ WhiteLine(w) \in Seq(Pixel)
<1>1. WhiteLine(w) \in Line(w)
  BY RasterAssumption DEF WhiteLine, Line
<1>2. Line(w) \subseteq Seq(Pixel)
  BY SeqDef, Zenon DEF Line
<1> QED BY <1>1, <1>2

\* The sizes are those of the job and of the header.
LEMMA SizesKept ==
  ASSUME UNCHANGED <<job, inheader>>
  PROVE  /\ OutW' = OutW /\ OutH' = OutH /\ DstH' = DstH /\ OfsH' = OfsH
         /\ BottomMargin' = BottomMargin
         /\ D' = D /\ Quot' = Quot /\ Rest' = Rest /\ Sized' = Sized
BY DEF OutW, OutH, Narrow, DstH, Rounded, OfsH, BottomMargin, D, Quot, Rest, Sized

-----------------------------------------------------------------------------
(* The positions of the rows. *)

\* The scaling of a page with rows to scale.
LEMMA ScaleTyped ==
  ASSUME Typed, Sized, DstH > 1
  PROVE  /\ D \in Nat /\ D > 0 /\ Quot \in Nat /\ Rest \in Nat /\ Rest < D
         /\ inheader.h - 1 \in Nat
         /\ inheader.h - 1 = D * Quot + Rest
<1>1. D \in Nat /\ D > 0 /\ inheader.h - 1 \in Nat
  BY SizesFit DEF D
<1> QED BY <1>1, Division DEF Quot, Rest

\* Adding quotient and rest takes a row's position to the next row's, but for the
\* adjustment.
LEMMA NextPosition ==
  ASSUME NEW d \in Nat, NEW q \in Nat, NEW r \in Nat, NEW n \in Nat, n = d * q + r,
         NEW p \in Int, NEW e \in Int, NEW k \in Nat, p * d + e = k * n
  PROVE  (p + q) * d + (e + r) = (k + 1) * n
<1>1. (p + q) * d = p * d + d * q
  OBVIOUS
<1>2. (k + 1) * n = k * n + n
  OBVIOUS
<1>3. p * d \in Int /\ d * q \in Int /\ k * n \in Int
  OBVIOUS
<1> QED BY <1>1, <1>2, <1>3

\* One position further is d further.
LEMMA OneFurther ==
  ASSUME NEW d \in Nat, NEW p \in Int
  PROVE  (p + 1) * d = p * d + d /\ p * d \in Int
OBVIOUS

\* In front of row y; and the adjusted cursor of row y.
LEMMA Adjusted ==
  ASSUME Typed, Sized, Reading, pc = "data", y < DstH
  PROVE  LET c == Adjust(cursor, D)
         IN  c \in [pos : Int, rest : Int] /\ At(c.pos, c.rest, y) /\ c.pos >= prev_pos
<1> DEFINE c == Adjust(cursor, D)
           n == inheader.h - 1
<1>1. DstH > 1
  BY SizesFit DEF Typed, Reading, Creating
<1>2. D \in Nat /\ D > 0 /\ Quot \in Nat /\ Rest \in Nat /\ Rest < D /\ n \in Nat
      /\ n = D * Quot + Rest
  BY <1>1, ScaleTyped
<1>3. cursor.pos \in Int /\ cursor.rest \in Int /\ prev_pos \in Int /\ y \in Nat
      /\ cursor = [pos |-> cursor.pos, rest |-> cursor.rest]
  BY DEF Typed
<1>4. /\ cursor.pos * D + cursor.rest = y * n
      /\ -D <= 2 * cursor.rest /\ 2 * cursor.rest < 3 * D
      /\ cursor.pos >= prev_pos
  <2>1. CASE y = 0
    <3>1. cursor.pos = 0 /\ cursor.rest = 0 /\ prev_pos = -1
      BY <2>1 DEF Reading, First
    <3>2. 0 * D = 0 /\ 0 * n = 0
      BY <1>2
    <3> QED BY <1>2, <2>1, <3>1, <3>2
  <2>2. CASE y > 0
    <3> DEFINE e == cursor.rest - Rest
    <3>1. cursor.pos = prev_pos + Quot /\ prev_pos * D + e = (y - 1) * n
          /\ -D <= 2 * e /\ 2 * e < D
      BY <2>2 DEF Reading, At
    <3>2. e \in Int /\ y - 1 \in Nat /\ e + Rest = cursor.rest /\ y - 1 + 1 = y
      BY <1>2, <1>3, <2>2
    <3> HIDE DEF e
    <3>3. (prev_pos + Quot) * D + (e + Rest) = (y - 1 + 1) * n
      BY <1>2, <1>3, <3>1, <3>2, NextPosition
    <3> QED BY <1>2, <1>3, <3>1, <3>2, <3>3
  <2> QED BY <1>3, <2>1, <2>2
<1>5. CASE cursor.rest * 2 >= D
  <2>1. c.pos = cursor.pos + 1 /\ c.rest = cursor.rest - D
        /\ c \in [pos : Int, rest : Int]
    BY <1>2, <1>3, <1>5 DEF Adjust
  <2>2. (cursor.pos + 1) * D = cursor.pos * D + D /\ cursor.pos * D \in Int
    BY <1>2, <1>3, OneFurther
  <2> QED BY <1>2, <1>3, <1>4, <1>5, <2>1, <2>2 DEF At
<1>6. CASE ~(cursor.rest * 2 >= D)
  <2>1. c = cursor
    BY <1>6 DEF Adjust
  <2> QED BY <1>2, <1>3, <1>4, <1>6, <2>1 DEF At, Typed
<1> QED BY <1>5, <1>6

\* The last row is made of the last line.
LEMMA LastRow ==
  ASSUME Typed, Sized, Reading, pc = "data", y >= DstH, DstH > 0
  PROVE  prev_pos = inheader.h - 1
<1>1. DstH > 1 /\ DstH \in Nat
  BY SizesFit DEF Typed, Reading, Creating
<1>2. D \in Nat /\ D > 0 /\ Rest \in Nat /\ inheader.h - 1 \in Nat
  BY <1>1, ScaleTyped
<1>3. y = DstH /\ At(prev_pos, cursor.rest - Rest, y - 1)
  BY <1>1 DEF Reading, Typed
<1> DEFINE n == inheader.h - 1
           e == cursor.rest - Rest
<1>4. /\ prev_pos \in Int /\ e \in Int /\ n \in Int
      /\ prev_pos * D + e = D * n /\ -D <= 2 * e /\ 2 * e < D
  BY <1>1, <1>2, <1>3 DEF At, D, Typed
<1> HIDE DEF n, e
<1>5. prev_pos = n
  BY <1>2, <1>4, LastPosition
<1> QED BY <1>5 DEF n

-----------------------------------------------------------------------------
(* The steps. *)
LEMMA InitInv == Init => IInv
<1> SUFFICES ASSUME Init PROVE IInv
  OBVIOUS
<1> USE DEF Init, First
<1>1. Typed
  <2>1. <<>> \in Seq(Pixel) /\ <<>> \in Seq(Seq(Pixel))
    BY EmptySeq
  <2>2. IsRaster(outras) /\ outras.remaining \in Nat
    BY DEF IsRaster, NewRaster
  <2>3. cursor \in [pos : Int, rest : Int]
    OBVIOUS
  <2>4. in_ptr \in Seq(Pixel) /\ given \in Seq(Seq(Pixel))
    BY <2>1
  <2>5. job \in [rotate : BOOLEAN, width : Printable, height : Printable]
    OBVIOUS
  <2>6. y \in Nat /\ cnt \in Nat /\ prev_pos \in Int /\ page \in Nat /\ page > 0
    OBVIOUS
  <2>7. isPWGExist \in BOOLEAN
    OBVIOUS
  <2> HIDE DEF Init
  <2> QED BY <2>2, <2>3, <2>4, <2>5, <2>6, <2>7 DEF Typed
<1>2. Pages
  BY DEF Pages, Creating
<1>3. Reading /\ Writing
  BY DEF Reading, Writing, Creating, Finished
<1> QED BY <1>1, <1>2, <1>3 DEF IInv

\* A step between the pages.
LEMMA HeaderSteps ==
  ASSUME IInv, ReadHeader \/ NoHeader \/ CreateFails
  PROVE  IInv'
<1>1. CASE ReadHeader
  <2>1. Typed'
    BY <1>1 DEF ReadHeader, IInv, Typed, loop
  <2>2. Pages'
    BY <1>1 DEF ReadHeader, Goto, IInv, Pages, Creating, Sized, Typed, world
  <2>3. Reading' /\ Writing'
    BY <1>1 DEF ReadHeader, Goto, Reading, Writing, Creating, Finished
  <2> QED BY <2>1, <2>2, <2>3 DEF IInv
<1>2. CASE NoHeader
  <2>1. Typed'
    BY <1>2 DEF NoHeader, IInv, Typed, loop
  <2>2. Pages'
    BY <1>2 DEF NoHeader, Goto, IInv, Pages, Creating, Finished, Sized, Typed, world
  <2>3. Reading' /\ Writing'
    BY <1>2 DEF NoHeader, Goto, Reading, Writing, Creating, Finished
  <2> QED BY <2>1, <2>2, <2>3 DEF IInv
<1>3. CASE CreateFails
  <2>1. Typed'
    BY <1>3 DEF CreateFails, IInv, Typed, loop
  <2>2. Pages'
    BY <1>3 DEF CreateFails, IInv, Pages, Creating, Typed, world
  <2>3. Reading' /\ Writing'
    BY <1>3 DEF CreateFails, Reading, Writing, Creating, Finished
  <2> QED BY <2>1, <2>2, <2>3 DEF IInv
<1> QED BY <1>1, <1>2, <1>3

\* A page put out.
LEMMA OutputSteps ==
  ASSUME IInv, OutputPage \/ OutputLast
  PROVE  IInv'
<1>1. IsRaster(outras') /\ outras'.remaining \in Nat
  BY DEF OutputPage, OutputLast, PutOut, NewRaster, IsRaster
<1>2. Typed'
  BY <1>1 DEF OutputPage, OutputLast, PutOut, IInv, Typed, loop
<1>3. CASE OutputPage
  <2>1. Pages'
    BY <1>3 DEF OutputPage, PutOut, Goto, IInv, Pages, Creating, Sized, world
  <2>2. Reading' /\ Writing'
    BY <1>3 DEF OutputPage, Goto, Reading, Writing, Creating, Finished
  <2> QED BY <1>2, <2>1, <2>2 DEF IInv
<1>4. CASE OutputLast
  <2>1. Pages'
    BY <1>4 DEF OutputLast, PutOut, IInv, Pages, Creating, world
  <2>2. Reading' /\ Writing'
    BY <1>4 DEF OutputLast, Reading, Writing, Creating, Finished
  <2> QED BY <1>2, <2>1, <2>2 DEF IInv
<1> QED BY <1>3, <1>4

\* A page begun.
LEMMA CreateStep ==
  ASSUME IInv, CreatePage
  PROVE  IInv'
<1>1. Sized /\ inheader.w \in Nat
  BY RasterAssumption DEF IInv, Pages, CreatePage, Sized
<1>2. UNCHANGED <<job, inheader, page>>
  BY DEF CreatePage
<1>3. OutH \in Nat /\ OfsH \in Nat
  BY <1>1, SizesFit DEF IInv
<1>4. Typed'
  <2>1. in_ptr' \in Seq(Pixel) /\ given' = <<>>
    BY <1>1, LinesTyped DEF CreatePage
  <2>2. IsRaster(outras') /\ outras'.remaining \in Nat
    BY <1>3 DEF CreatePage, NewRaster, IsRaster
  <2> QED BY <2>1, <2>2 DEF CreatePage, IInv, Typed, First
<1>5. Pages'
  BY <1>1, <1>2, SizesKept DEF CreatePage, Goto, IInv, Pages, Creating, world
<1>6. Reading'
  BY <1>2, SizesKept DEF CreatePage, Goto, Reading, Creating, Finished
<1>7. Writing'
  BY <1>2, <1>3, SizesKept DEF CreatePage, Goto, Writing, NewRaster, Finished
<1> QED BY <1>4, <1>5, <1>6, <1>7 DEF IInv

\* Lines of the margins.
LEMMA MarginSteps ==
  ASSUME IInv, TopMargin \/ BottomLines
  PROVE  IInv'
<1>1. Sized /\ UNCHANGED <<job, inheader, page>>
  BY DEF TopMargin, BottomLines, Margin, IInv, Pages, Creating
<1>2. OutH \in Nat /\ DstH \in 0 .. OutH /\ OfsH \in Nat /\ BottomMargin \in Nat
      /\ OutH = OfsH + DstH + BottomMargin
  BY <1>1, SizesFit DEF IInv
<1>3. /\ IsRaster(outras') /\ outras'.remaining \in Nat
      /\ ~Rotated /\ y' # 0 => outras'.remaining =
           IF outras.remaining = 0 THEN 0 ELSE outras.remaining - 1
  <2>1. CASE PutLine(WhiteLine(OutW))
    BY <2>1, LinePut DEF IInv
  <2>2. CASE UNCHANGED outras /\ y' = 0
    BY <2>2 DEF IInv, Typed, IsRaster
  <2> QED BY <2>1, <2>2 DEF TopMargin, BottomLines, Margin
<1>4. Typed'
  BY <1>3 DEF TopMargin, BottomLines, Margin, IInv, Typed
<1>5. Pages'
  BY <1>1, SizesKept DEF TopMargin, BottomLines, Margin, Goto, place, IInv, Pages, Creating
<1>6. CASE TopMargin
  <2>1. Reading'
    BY <1>1, <1>6, SizesKept
    DEF TopMargin, Margin, Goto, place, IInv, Reading, Creating, Finished
  <2>2. Writing' => IInv'
    BY <1>4, <1>5, <2>1 DEF IInv
  <2>3. CASE y < OfsH /\ y' = y + 1 /\ pc' = "top"
    <3>1. ~Rotated => y <= OfsH /\ outras.remaining = OutH - y
      BY <1>6 DEF TopMargin, Margin, IInv, Writing
    <3>2. y \in Nat
      BY DEF IInv, Typed
    <3>3. Rotated \/ (y' <= OfsH /\ outras'.remaining = OutH - y')
      BY <1>2, <1>3, <2>3, <3>1, <3>2
    <3>4. Writing'
      BY <1>1, <2>3, <3>3, SizesKept DEF Writing, Finished, Rotated
    <3> QED BY <3>4, <2>2
  <2>4. CASE y >= OfsH /\ y' = 0 /\ pc' = "data" /\ UNCHANGED outras
    <3>1. ~Rotated => y <= OfsH /\ outras.remaining = OutH - y
      BY <1>6 DEF TopMargin, Margin, IInv, Writing
    <3>2. y \in Nat
      BY DEF IInv, Typed
    <3>3. Rotated \/ outras'.remaining = OutH - OfsH
      BY <1>2, <2>4, <3>1, <3>2
    <3>4. Writing'
      BY <1>1, <1>2, <2>4, <3>3, SizesKept DEF Writing, Finished, Rotated
    <3> QED BY <3>4, <2>2
  <2> QED BY <1>6, <2>3, <2>4 DEF TopMargin, Margin, Goto, place
<1>7. CASE BottomLines
  <2>1. Reading'
    BY <1>1, <1>7, SizesKept
    DEF BottomLines, Margin, Goto, place, IInv, Reading, Creating, Finished
  <2>2. Writing' => IInv'
    BY <1>4, <1>5, <2>1 DEF IInv
  <2>3. CASE y < BottomMargin /\ y' = y + 1 /\ pc' = "bottom"
    <3>1. ~Rotated => y <= BottomMargin /\ outras.remaining = BottomMargin - y
      BY <1>7 DEF BottomLines, Margin, IInv, Writing
    <3>2. y \in Nat
      BY DEF IInv, Typed
    <3>3. Rotated \/ (y' <= BottomMargin /\ outras'.remaining = BottomMargin - y')
      BY <1>2, <1>3, <2>3, <3>1, <3>2
    <3>4. Writing'
      BY <1>1, <2>3, <3>3, SizesKept DEF Writing, Finished, Rotated
    <3> QED BY <3>4, <2>2
  <2>4. CASE y >= BottomMargin /\ y' = 0 /\ pc' = "reread" /\ UNCHANGED outras
    <3>1. ~Rotated => y <= BottomMargin /\ outras.remaining = BottomMargin - y
      BY <1>7 DEF BottomLines, Margin, IInv, Writing
    <3>2. y \in Nat
      BY DEF IInv, Typed
    <3>3. Rotated \/ outras'.remaining = 0
      BY <1>2, <2>4, <3>1, <3>2
    <3>4. Writing'
      BY <1>1, <1>2, <2>4, <3>3, SizesKept DEF Writing, Finished, Rotated
    <3> QED BY <3>4, <2>2
  <2> QED BY <1>7, <2>3, <2>4 DEF BottomLines, Margin, Goto, place
<1> QED BY <1>6, <1>7

\* The cursor goes to the row; its lines are read.
LEMMA NextRowStep ==
  ASSUME IInv, NextRow
  PROVE  IInv'
<1>1. Sized /\ UNCHANGED <<job, inheader, page, outras, y, given>>
  BY DEF NextRow, IInv, Pages, Creating
<1>2. /\ cursor' \in [pos : Int, rest : Int] /\ At(cursor'.pos, cursor'.rest, y)
      /\ cursor'.pos >= prev_pos /\ prev_pos \in Int
  BY <1>1, Adjusted DEF NextRow, IInv, Typed, D
<1>3. prev_pos' = cursor'.pos /\ cnt' = cursor'.pos - prev_pos /\ cnt' \in Nat
      /\ prev_pos' \in Int
  BY <1>2 DEF NextRow
<1>4. Typed'
  BY <1>1, <1>2, <1>3 DEF NextRow, IInv, Typed, IsRaster
<1>5. Pages'
  BY <1>1, SizesKept DEF NextRow, Goto, IInv, Pages, Creating, world
<1>6. Reading'
  <2>1. At(prev_pos, cursor.rest, y)'
    BY <1>1, <1>2, <1>3, SizesKept DEF At
  <2>2. Len(given) = prev_pos + 1 - cnt /\ cnt = 0
    BY DEF NextRow, IInv, Reading, Creating
  <2>3. Len(given)' = prev_pos' + 1 - cnt'
    BY <1>1, <1>2, <1>3, <2>2
  <2> QED BY <1>1, <1>3, <2>1, <2>3, SizesKept
          DEF NextRow, Goto, IInv, Reading, Creating, Finished
<1>7. Writing'
  BY <1>1, SizesKept DEF NextRow, Goto, IInv, Writing, Finished, Rotated
<1> QED BY <1>4, <1>5, <1>6, <1>7 DEF IInv

\* A line read.
LEMMA ReadStep ==
  ASSUME IInv, ReadPixels
  PROVE  IInv'
<1>1. Sized /\ UNCHANGED <<job, inheader, page, outras, y, cursor, prev_pos, pc, wire,
                           isPWGExist, result, broken>>
  BY DEF ReadPixels, IInv, Pages, Creating, place, world
<1>2. in_ptr' \in Seq(Pixel)
  <2>1. inheader.w \in Nat
    BY <1>1, RasterAssumption DEF Sized
  <2> QED BY <2>1, LinesTyped DEF ReadPixels, IInv, Typed
<1>3. given' \in Seq(Seq(Pixel)) /\ Len(given') = Len(given) + 1
  BY <1>2 DEF ReadPixels, IInv, Typed
<1>4. cnt' = cnt - 1 /\ cnt \in Nat /\ cnt > 0 /\ prev_pos \in Int
  BY DEF ReadPixels, IInv, Typed
<1>5. Typed'
  BY <1>1, <1>2, <1>3, <1>4 DEF IInv, Typed, IsRaster
<1>6. Pages'
  BY <1>1, SizesKept DEF ReadPixels, IInv, Pages, Creating
<1>7. Reading'
  <2>1. Len(given)' = prev_pos' + 1 - cnt'
    <3>1. Len(given) = prev_pos + 1 - cnt /\ Len(given) \in Int
      BY <1>4 DEF ReadPixels, IInv, Reading, Creating
    <3> QED BY <1>1, <1>3, <1>4, <3>1
  <2>2. At(prev_pos, cursor.rest, y)' = At(prev_pos, cursor.rest, y)
    BY <1>1, SizesKept DEF At
  <2> QED BY <1>1, <2>1, <2>2, SizesKept
          DEF ReadPixels, IInv, Reading, Creating, Finished
<1>8. Writing'
  BY <1>1, SizesKept DEF ReadPixels, IInv, Writing, Finished, Rotated
<1> QED BY <1>5, <1>6, <1>7, <1>8 DEF IInv

\* A row put out.
LEMMA PutRowStep ==
  ASSUME IInv, PutRow
  PROVE  IInv'
<1>1. Sized /\ UNCHANGED <<job, inheader, page, prev_pos, cnt, given, in_ptr, isPWGExist,
                           result, wire, broken>>
  BY DEF PutRow, Goto, IInv, Pages, Creating
<1>2. DstH \in Nat /\ DstH # 1 /\ y < DstH /\ y \in Nat /\ DstH > 1
  BY <1>1, SizesFit DEF PutRow, IInv, Reading, Creating, Typed
<1>3. Quot \in Int /\ Rest \in Int
  BY <1>1, <1>2, ScaleTyped DEF IInv
<1>4. /\ cursor' = [pos |-> cursor.pos + Quot, rest |-> cursor.rest + Rest]
      /\ cursor.pos \in Int /\ cursor.rest \in Int /\ y' = y + 1 /\ pc' = "data"
  BY DEF PutRow, Goto, Advance, Quot, Rest, D, IInv, Typed
<1>5. /\ IsRaster(outras') /\ outras'.remaining \in Nat
      /\ ~Rotated => outras'.remaining =
           IF outras.remaining = 0 THEN 0 ELSE outras.remaining - 1
  BY LinePut DEF PutRow, IInv
<1>6. Typed'
  BY <1>1, <1>2, <1>3, <1>4, <1>5 DEF IInv, Typed
<1>7. Pages'
  BY <1>1, <1>4, SizesKept DEF PutRow, IInv, Pages, Creating
<1>8. Reading'
  <2>1. At(prev_pos, cursor.rest, y) /\ prev_pos = cursor.pos
    BY DEF PutRow, IInv, Reading
  <2>2. cursor'.rest - Rest = cursor.rest /\ y' - 1 = y /\ cursor'.pos = prev_pos' + Quot
    BY <1>1, <1>2, <1>3, <1>4, <2>1
  <2>3. At(prev_pos, cursor.rest - Rest, y - 1)'
    BY <1>1, <2>1, <2>2, SizesKept DEF At
  <2>4. Len(given) = prev_pos + 1 - cnt /\ cnt = 0
    BY DEF PutRow, IInv, Reading, Creating
  <2>5. y' > 0 /\ y' <= DstH
    BY <1>2, <1>4
  <2> QED BY <1>1, <1>2, <1>4, <2>2, <2>3, <2>4, <2>5, SizesKept
          DEF Reading, Creating, Finished
<1>9. Writing'
  <2>1. ~Rotated => outras.remaining = OutH - OfsH - y
    BY DEF PutRow, IInv, Writing
  <2>2. OutH \in Nat /\ OfsH \in Nat /\ BottomMargin \in Nat
        /\ OutH = OfsH + DstH + BottomMargin
    BY <1>1, SizesFit DEF IInv
  <2>3. Rotated \/ (y' <= DstH /\ outras'.remaining = OutH - OfsH - y')
    BY <1>2, <1>4, <1>5, <2>1, <2>2
  <2> QED BY <1>1, <1>4, <2>3, SizesKept DEF Writing, Finished, Rotated
<1> QED BY <1>6, <1>7, <1>8, <1>9 DEF IInv

\* The last row put out.
LEMMA RowsDoneStep ==
  ASSUME IInv, RowsDone
  PROVE  IInv'
<1>1. Sized /\ UNCHANGED <<job, inheader, page, prev_pos, cnt, given, outras, cursor,
                           isPWGExist, result, wire, broken>>
  BY DEF RowsDone, Goto, IInv, Pages, Creating, world
<1>2. y' = 0 /\ pc' = "bottom" /\ y \in Nat /\ y >= DstH
  BY DEF RowsDone, Goto, IInv, Typed
<1>3. Typed'
  BY <1>1, <1>2 DEF RowsDone, IInv, Typed, IsRaster
<1>4. Pages'
  BY <1>1, <1>2, SizesKept DEF RowsDone, IInv, Pages, Creating
<1>5. Reading'
  <2>1. DstH > 0 => prev_pos = inheader.h - 1
    BY <1>1, LastRow DEF RowsDone, IInv
  <2> QED BY <1>1, <1>2, <2>1, SizesKept DEF RowsDone, IInv, Reading, Creating, Finished
<1>6. Writing'
  <2>1. ~Rotated => y <= DstH /\ outras.remaining = OutH - OfsH - y
    BY DEF RowsDone, IInv, Writing
  <2>2. OutH \in Nat /\ OfsH \in Nat /\ DstH \in Nat /\ BottomMargin \in Nat
        /\ OutH = OfsH + DstH + BottomMargin
    BY <1>1, SizesFit DEF IInv
  <2>3. Rotated \/ outras.remaining = BottomMargin
    BY <1>2, <2>1, <2>2
  <2> QED BY <1>1, <1>2, <2>2, <2>3, SizesKept DEF Writing, Finished, Rotated
<1> QED BY <1>3, <1>4, <1>5, <1>6 DEF IInv

\* A row read back from the temporary file.
LEMMA RereadStep ==
  ASSUME IInv, Reread
  PROVE  IInv'
<1>1. Sized /\ UNCHANGED <<job, inheader, page, prev_pos, cnt, given, cursor, in_ptr, pc,
                           isPWGExist, result, wire, broken>>
  BY DEF Reread, place, IInv, Pages, Creating
<1>2. IsRaster(outras') /\ outras'.remaining \in Nat
  BY RowWritten DEF Reread, IInv, Typed
<1>3. Typed'
  BY <1>1, <1>2 DEF Reread, IInv, Typed
<1>4. Pages'
  BY <1>1, SizesKept DEF Reread, IInv, Pages, Creating
<1>5. Reading'
  BY <1>1, SizesKept DEF Reread, IInv, Reading, Creating, Finished
<1>6. Writing'
  BY <1>1 DEF Reread, Writing, Finished, Rotated
<1> QED BY <1>3, <1>4, <1>5, <1>6 DEF IInv

\* A page finished.
LEMMA PageCreatedStep ==
  ASSUME IInv, PageCreated
  PROVE  IInv'
<1>1. Sized /\ UNCHANGED <<job, inheader, prev_pos, cnt, given, outras, cursor, result,
                           wire, broken, y, in_ptr>>
  BY DEF PageCreated, Goto, IInv, Pages, Creating, loop, world
<1>2. page' = page + 1 /\ isPWGExist' = TRUE /\ pc' = "header" /\ page \in Nat /\ page > 0
  BY DEF PageCreated, Goto, IInv, Typed
<1>3. Typed'
  BY <1>1, <1>2 DEF IInv, Typed, IsRaster
<1>4. Pages'
  BY <1>1, <1>2, SizesKept DEF PageCreated, IInv, Pages, Creating
<1>5. Reading'
  BY <1>1, <1>2, SizesKept DEF PageCreated, IInv, Reading, Creating, Finished
<1>6. Writing'
  <2>1. ~Rotated => outras.remaining = 0
    BY DEF PageCreated, IInv, Writing
  <2>2. (page + 1) % 2 # 0 => page % 2 # 1
    BY <1>2
  <2>3. ~WasRotated' => ~Rotated
    BY <1>1, <1>2, <2>2 DEF WasRotated, Rotated
  <2> QED BY <1>1, <1>2, <2>1, <2>3 DEF Writing, Finished
<1> QED BY <1>3, <1>4, <1>5, <1>6 DEF IInv

\* The world, and steps that change nothing.
LEMMA QuietStep ==
  ASSUME IInv, UNCHANGED <<job, place, page, inheader, isPWGExist, loop, in_ptr, outras,
                           given, wire>>,
         broken => broken'
  PROVE  IInv'
<1>1. UNCHANGED <<job, inheader, page, prev_pos, cnt, given, outras, cursor, in_ptr, pc,
                  isPWGExist, result, wire, y>>
  BY DEF place, loop
<1>2. Typed'
  BY <1>1 DEF IInv, Typed, IsRaster
<1>3. Pages'
  BY <1>1, SizesKept DEF IInv, Pages, Creating
<1>4. Reading'
  BY <1>1, SizesKept DEF IInv, Reading, Creating, Finished, At
<1>5. Writing'
  BY <1>1, SizesKept DEF IInv, Writing, Finished, Rotated, WasRotated
<1> QED BY <1>2, <1>3, <1>4, <1>5 DEF IInv

\* The loops keep what is said of them, for every size.
THEOREM PwgInvariance == Spec => []IInv
<1>1. IInv /\ [Next]_vars => IInv'
  <2> SUFFICES ASSUME IInv, [Next]_vars PROVE IInv'
    OBVIOUS
  <2>1. CASE ReadHeader \/ NoHeader \/ CreateFails
    BY <2>1, HeaderSteps
  <2>2. CASE OutputPage \/ OutputLast
    BY <2>2, OutputSteps
  <2>3. CASE CreatePage
    BY <2>3, CreateStep
  <2>4. CASE TopMargin \/ BottomLines
    BY <2>4, MarginSteps
  <2>5. CASE NextRow
    BY <2>5, NextRowStep
  <2>6. CASE ReadPixels
    BY <2>6, ReadStep
  <2>7. CASE PutRow
    BY <2>7, PutRowStep
  <2>8. CASE RowsDone
    BY <2>8, RowsDoneStep
  <2>9. CASE Reread
    BY <2>9, RereadStep
  <2>10. CASE PageCreated
    BY <2>10, PageCreatedStep
  <2>11. CASE InputEnds \/ ReaderLeaves
    <3>1. broken => broken'
      BY <2>11 DEF InputEnds, ReaderLeaves
    <3> QED BY <2>11, <3>1, QuietStep DEF InputEnds, ReaderLeaves
  <2>12. CASE UNCHANGED vars
    <3>1. broken => broken'
      BY <2>12 DEF vars, world
    <3> QED BY <2>12, <3>1, QuietStep DEF vars
  <2> QED BY <2>1, <2>2, <2>3, <2>4, <2>5, <2>6, <2>7, <2>8, <2>9, <2>10, <2>11, <2>12
          DEF Next, Filter, Terminated
<1> QED BY InitInv, <1>1, PTL DEF Spec

\* A finished page has read its own lines and no others, for every size of page
\* and of sheet: main() finds the next header where it begins.
THEOREM LinesInStep == Spec => []PageInStep
<1>1. IInv => PageInStep
  <2> SUFFICES ASSUME IInv, Finished, DstH > 0 PROVE Len(given) = inheader.h
    BY DEF PageInStep
  <2>1. Len(given) = prev_pos + 1 - cnt /\ cnt = 0 /\ prev_pos = inheader.h - 1
    BY DEF IInv, Reading
  <2>2. Sized
    BY DEF Finished, IInv, Pages
  <2>3. inheader.h \in Nat
    BY <2>2, SizesFit DEF IInv
  <2> QED BY <2>1, <2>3
<1> QED BY <1>1, PwgInvariance, PTL

\* A finished page that was not turned has given its file as many rows as its
\* header announces: the margins and the scaled rows make up the sheet.
THEOREM RowsAllGiven == Spec => []NoRowHeldBack
<1>1. IInv => NoRowHeldBack
  BY DEF IInv, Writing, NoRowHeldBack
<1> QED BY <1>1, PwgInvariance, PTL

\* The page put out as the last one is the last one, and a filter that succeeds
\* has put it out.
THEOREM LastPageIsLast == Spec => []LastPageSaysSo
<1>1. IInv => LastPageSaysSo
  BY DEF IInv, Typed, Pages, LastPageSaysSo
<1> QED BY <1>1, PwgInvariance, PTL

-----------------------------------------------------------------------------
(* 2. The scaling of a line. *)
LEMMA Quotient ==
  ASSUME NEW a \in Nat, NEW b \in Nat, b > 0, NEW q \in Int, NEW r \in Nat, r < b,
         a = b * q + r
  PROVE  a \div b = q
<1> DEFINE p == a \div b
           e == a % b
<1>1. p \in Nat /\ e \in Nat /\ e < b /\ a = b * p + e
  BY Division
<1> HIDE DEF p, e
<1>2. ASSUME p >= q + 1 PROVE FALSE
  <2>1. b * (q + 1) <= b * p
    BY <1>1, <1>2, Times
  <2>2. b * (q + 1) = b * q + b /\ b * q \in Int /\ b * p \in Int
    BY <1>1
  <2> QED BY <1>1, <2>1, <2>2
<1>3. ASSUME q >= p + 1 PROVE FALSE
  <2>1. b * (p + 1) <= b * q
    BY <1>1, <1>3, Times
  <2>2. b * (p + 1) = b * p + b /\ b * q \in Int /\ b * p \in Int
    BY <1>1
  <2> QED BY <1>1, <2>1, <2>2
<1>4. p = q
  BY <1>1, <1>2, <1>3
<1> QED BY <1>4 DEF p

\* The position that quotient and rest stand for is the nearest one.
LEMMA PositionNearest ==
  ASSUME NEW src \in Nat, NEW dst \in Nat, dst > 1, src > 0, NEW x \in Nat,
         NEW p \in Int, NEW e \in Int, p * (dst - 1) + e = x * (src - 1),
         -(dst - 1) <= 2 * e, 2 * e < dst - 1
  PROVE  p = Nearest(x, src, dst)
<1> DEFINE d == dst - 1
           xn == x * (src - 1)
           pd == p * d
<1>1. xn \in Nat /\ pd \in Int /\ d \in Nat /\ d > 0 /\ pd + e = xn
  <2>1. src - 1 \in Nat
    OBVIOUS
  <2> QED BY <2>1
<1>2. 2 * x * (src - 1) + dst - 1 = 2 * xn + d
  OBVIOUS
<1>3. (2 * d) * p = 2 * pd
  OBVIOUS
<1> DEFINE a == 2 * xn + d
<1>4. a = (2 * d) * p + (2 * e + d) /\ a \in Nat /\ 2 * d \in Nat /\ 2 * d > 0
      /\ 2 * e + d \in Nat /\ 2 * e + d < 2 * d
  <2> HIDE DEF xn, pd, d
  <2> QED BY <1>1, <1>3 DEF d
<1>5. a \div (2 * d) = p
  <2> HIDE DEF a, d
  <2> QED BY <1>4, Quotient
<1> QED BY <1>2, <1>5 DEF Nearest

\* Cursor c is less than half a step off k * n / d.
Off(c, d, n, k) ==
  /\ c \in [pos : Int, rest : Int]
  /\ c.pos * d + c.rest = k * n /\ -d <= 2 * c.rest /\ 2 * c.rest < d

\* Quotient and rest take it from one position to the next.
LEMMA Stepped ==
  ASSUME NEW d \in Nat, d > 0, NEW q \in Nat, NEW r \in Nat, r < d,
         NEW n \in Nat, n = d * q + r, NEW k \in Nat, NEW b, Off(b, d, n, k)
  PROVE  Off(Adjust([pos |-> b.pos + q, rest |-> b.rest + r], d), d, n, k + 1)
<1> DEFINE p == b.pos
           e == b.rest
           c == Adjust([pos |-> p + q, rest |-> e + r], d)
<1>0. p \in Int /\ e \in Int /\ p * d + e = k * n /\ -d <= 2 * e /\ 2 * e < d
  BY DEF Off
<1> SUFFICES Off(c, d, n, k + 1)
  OBVIOUS
<1> HIDE DEF p, e
<1>1. (p + q) * d + (e + r) = (k + 1) * n
  BY <1>0, NextPosition
<1>2. (p + q + 1) * d = (p + q) * d + d /\ (p + q) * d \in Int /\ (k + 1) * n \in Int
  <2>1. p + q \in Int /\ k + 1 \in Int
    BY <1>0
  <2> QED BY <2>1, OneFurther
<1>3. CASE (e + r) * 2 >= d
  <2>1. c = [pos |-> p + q + 1, rest |-> e + r - d]
    BY <1>0, <1>3 DEF Adjust
  <2> QED BY <1>0, <1>1, <1>2, <1>3, <2>1 DEF Off
<1>4. CASE ~((e + r) * 2 >= d)
  <2>1. c = [pos |-> p + q, rest |-> e + r]
    BY <1>4 DEF Adjust
  <2> QED BY <1>0, <1>1, <1>2, <1>4, <2>1 DEF Off
<1> QED BY <1>3, <1>4

\* So the cursors of a line are at the nearest pixels.
LEMMA CursorsNearest ==
  ASSUME NEW src \in Nat, src > 0, NEW dst \in Nat, dst > 1, NEW x \in 0 .. dst - 1
  PROVE  Cursors(src, dst)[x].pos = Nearest(x, src, dst)
<1> DEFINE d == dst - 1
           n == src - 1
           q == n \div d
           r == n % d
           Next1(c) == Adjust([pos |-> c.pos + q, rest |-> c.rest + r], d)
           C == [pos : Int, rest : Int]
<1>1. d \in Nat /\ d > 0 /\ n \in Nat
  OBVIOUS
<1>2. q \in Nat /\ r \in Nat /\ r < d /\ n = d * q + r
  BY <1>1, Division
<1>3. \E g \in [0 .. d -> C] :
        g[0] = First /\ \A i \in 1 .. d : g[i] = Next1(g[i - 1])
  <2>1. First \in C
    BY DEF First
  <2> DEFINE step == [i \in 1 .. d |-> [c \in C |-> Next1(c)]]
  <2>2. \A c \in C : Next1(c) \in C
    <3> HIDE DEF q, r
    <3> QED BY <1>1, <1>2 DEF Adjust
  <2>3. step \in [1 .. d -> [C -> C]]
    <3> HIDE DEF Next1, C
    <3> QED BY <2>2
  <2>4. \A i \in 1 .. d, c \in C : step[i][c] = Next1(c)
    <3> HIDE DEF Next1, C
    <3> QED OBVIOUS
  <2>5. PICK g \in [0 .. d -> C] :
          g[0] = First /\ \A i \in 1 .. d : g[i] = step[i][g[i - 1]]
    <3> HIDE DEF step, C, d
    <3>1. \E g : Stepping(g, C, d, First, step)
      BY <1>1, <2>1, <2>3, Steps
    <3> QED BY <3>1 DEF Stepping
  <2>6. \A i \in 1 .. d : g[i - 1] \in C
    BY <1>1, <2>5
  <2> HIDE DEF step, Next1, C
  <2> QED BY <2>4, <2>5, <2>6
<1> DEFINE body(f, i) ==
             Adjust(IF i = 0 THEN First ELSE Advance(f[i - 1], src, dst - 1), dst - 1)
           Is(f) == f = [i \in 0 .. dst - 1 |-> body(f, i)]
<1>4. Adjust(First, d) = First
  BY <1>1 DEF Adjust, First
<1>5. \E f : Is(f)
  <2>1. PICK g \in [0 .. d -> C] : g[0] = First /\ \A i \in 1 .. d : g[i] = Next1(g[i - 1])
    BY <1>3
  <2>2. ASSUME NEW i \in 0 .. dst - 1 PROVE g[i] = body(g, i)
    <3>1. CASE i = 0
      BY <1>4, <2>1, <3>1
    <3>2. CASE i # 0
      <4>1. i \in 1 .. d
        BY <3>2
      <4>2. Advance(g[i - 1], src, dst - 1)
              = [pos |-> g[i - 1].pos + q, rest |-> g[i - 1].rest + r]
        BY DEF Advance
      <4> HIDE DEF q, r
      <4> QED BY <2>1, <3>2, <4>1, <4>2
    <3> QED BY <3>1, <3>2
  <2>3. g = [i \in 0 .. dst - 1 |-> g[i]]
    BY <2>1
  <2>4. Is(g)
    <3> HIDE DEF body
    <3> QED BY <2>2, <2>3
  <2> QED BY <2>4
<1> DEFINE at == Cursors(src, dst)
<1>6. Is(at)
  BY <1>5 DEF Cursors
<1>7. at[0] = First /\ \A i \in 1 .. d : at[i] = Next1(at[i - 1])
  <2> HIDE DEF at
  <2>1. \A i \in 0 .. dst - 1 : at[i] = body(at, i)
    <3> HIDE DEF body
    <3> QED BY <1>6
  <2>2. at[0] = First
    BY <1>1, <1>4, <2>1
  <2>3. ASSUME NEW i \in 1 .. d PROVE at[i] = Next1(at[i - 1])
    <3>1. i \in 0 .. dst - 1 /\ i # 0
      OBVIOUS
    <3>2. at[i] = Adjust(Advance(at[i - 1], src, dst - 1), dst - 1)
      BY <2>1, <3>1
    <3>3. Advance(at[i - 1], src, dst - 1)
            = [pos |-> at[i - 1].pos + q, rest |-> at[i - 1].rest + r]
      BY DEF Advance
    <3> QED BY <3>2, <3>3
  <2> QED BY <2>2, <2>3
<1> HIDE DEF at
<1> DEFINE X == {k \in Nat : k <= d => Off(at[k], d, n, k)}
<1>8. ASSUME NEW k \in Nat, \A l \in Nat : l < k => l \in X PROVE k \in X
  <2> SUFFICES ASSUME k <= d PROVE Off(at[k], d, n, k)
    OBVIOUS
  <2>1. CASE k = 0
    BY <1>1, <1>7, <2>1 DEF First, Off
  <2>2. CASE k > 0
    <3>1. k - 1 \in Nat /\ k - 1 < k /\ k - 1 <= d /\ k \in 1 .. d /\ k - 1 + 1 = k
      BY <2>2
    <3>2. Off(at[k - 1], d, n, k - 1)
      BY <1>8, <3>1
    <3>3. at[k] = Next1(at[k - 1])
      BY <1>7, <3>1
    <3> HIDE DEF d, n, q, r
    <3>4. Off(Next1(at[k - 1]), d, n, k - 1 + 1)
      BY <1>1, <1>2, <3>1, <3>2, Stepped
    <3> QED BY <3>1, <3>3, <3>4
  <2> QED BY <2>1, <2>2
<1>9. x \in X
  <2> HIDE DEF X
  <2> QED BY <1>8, Induction
<1>10. Off(at[x], d, n, x) /\ x \in Nat
  BY <1>9
<1> QED BY <1>10, PositionNearest DEF at, Off

\* A line is scaled to the pixels nearest to each place, although HExtend goes from
\* place to place with a quotient, a rest and an adjustment.
THEOREM ScaledLine ==
  ASSUME NEW line \in Seq(Pixel), Len(line) > 0, NEW dst \in Nat
  PROVE  HExtend(line, dst) = Scaled(line, dst)
<1>1. CASE dst <= 1
  BY <1>1 DEF HExtend, Scaled
<1>2. CASE dst > 1
  <2>1. \A x \in 1 .. dst : Cursors(Len(line), dst)[x - 1].pos = Nearest(x - 1, Len(line), dst)
    <3>1. Len(line) \in Nat /\ \A x \in 1 .. dst : x - 1 \in 0 .. dst - 1
      OBVIOUS
    <3> QED BY <1>2, <3>1, CursorsNearest
  <2> QED BY <1>2, <2>1 DEF HExtend, Scaled
<1> QED BY <1>1, <1>2

-----------------------------------------------------------------------------
(* 3. The packets of a line. *)
LEMMA Minimum ==
  ASSUME NEW X \in SUBSET Nat, X # {}
  PROVE  Min(X) \in X /\ \A k \in X : Min(X) <= k
<1>1. \E m \in X : \A k \in X : m <= k
  BY Least
<1> QED BY <1>1 DEF Min

\* A run of equal pixels is one.
LEMMA EqualPixels ==
  ASSUME NEW line \in Seq(Nat), NEW i \in 1 .. Len(line) - 1
  PROVE  LET n == EqualRun(line, i)
         IN  /\ n \in 1 .. MaxRun /\ i + n <= Len(line) + 1
             /\ \A k \in 0 .. n - 1 : line[i + k] = line[i]
<1> DEFINE X == {p - i : p \in {q \in i + 1 .. Len(line) : line[q] # line[i]}}
                \cup {Len(line) - i + 1, MaxRun}
           n == Min(X)
<1>1. X \in SUBSET Nat /\ \A x \in X : x > 0
  BY LineAssumption
<1>2. n \in X /\ \A k \in X : n <= k
  <2> HIDE DEF X
  <2>1. X # {}
    BY DEF X
  <2> QED BY <1>1, <2>1, Minimum
<1>3. Len(line) - i + 1 \in X /\ MaxRun \in X
  OBVIOUS
<1>4. n \in 1 .. MaxRun /\ i + n <= Len(line) + 1
  <2> HIDE DEF n, X
  <2> QED BY <1>1, <1>2, <1>3, LineAssumption
<1>5. ASSUME NEW k \in 0 .. n - 1, line[i + k] # line[i] PROVE FALSE
  <2>1. k # 0 /\ i + k \in i + 1 .. Len(line) /\ i + k - i = k
    <3> HIDE DEF n
    <3> QED BY <1>4, <1>5
  <2>2. k \in X
    BY <1>5, <2>1
  <2> HIDE DEF n, X
  <2> QED BY <1>2, <1>4, <2>2
<1> QED BY <1>4, <1>5 DEF EqualRun

\* A run of different pixels fits in a packet and in the line.
LEMMA DifferentPixels ==
  ASSUME NEW line \in Seq(Nat), NEW i \in 1 .. Len(line) - 1
  PROVE  LET n == DifferentRun(line, i)
         IN  n \in 1 .. MaxRun /\ i + n <= Len(line) + 1
<1> DEFINE X == Break(line, i) \cup {i + MaxRun}
           p == Min(X)
<1>1. X \in SUBSET Nat /\ \A x \in X : x > i
  BY LineAssumption DEF Break
<1>2. p \in X /\ \A k \in X : p <= k
  <2> HIDE DEF X
  <2>1. X # {}
    BY DEF X
  <2> QED BY <1>1, <2>1, Minimum
<1>3. Len(line) \in X /\ i + MaxRun \in X
  BY DEF Break
<1>4. p \in i + 1 .. i + MaxRun /\ p <= Len(line)
  <2> HIDE DEF p, X
  <2> QED BY <1>1, <1>2, <1>3, LineAssumption
<1>5. DifferentRun(line, i) = IF p = Len(line) /\ p - i < MaxRun THEN p - i + 1 ELSE p - i
  BY DEF DifferentRun
<1>6. i \in Nat /\ Len(line) \in Nat /\ MaxRun \in Nat
  BY LineAssumption
<1> HIDE DEF p
<1> QED BY <1>4, <1>5, <1>6

\* The byte in front of n pixels.
LEMMA LiteralBytes ==
  ASSUME NEW n \in 1 .. MaxRun
  PROVE  LiteralByte(n) = IF n = 1 THEN 0 ELSE 2 * MaxRun + 1 - n
<1> DEFINE m == 2 * MaxRun
<1>1. MaxRun \in Nat /\ m \in Nat /\ m > 0
  BY LineAssumption
<1>2. CASE n = 1
  BY <1>1, <1>2 DEF LiteralByte
<1>3. CASE n # 1
  <2>1. m + 1 - n \in 0 .. m - 1
    BY <1>1, <1>3
  <2> QED BY <1>1, <1>3, <2>1 DEF LiteralByte
<1> QED BY <1>2, <1>3

\* The packet of a line at i, and how many pixels it stands for.
PacketLength(line, i) ==
  IF i = Len(line) THEN 1
  ELSE IF line[i] = line[i + 1] THEN EqualRun(line, i) ELSE DifferentRun(line, i)

Packet(line, i) ==
  LET n == PacketLength(line, i)
  IN  IF i = Len(line) THEN <<0, line[i]>>
      ELSE IF line[i] = line[i + 1] THEN <<n - 1, line[i]>>
      ELSE <<LiteralByte(n)>> \o SubSeq(line, i, i + n - 1)

\* A packet is a sequence of numbers, and the next one begins behind it.
LEMMA PacketTyped ==
  ASSUME NEW line \in Seq(Nat), NEW i \in 1 .. Len(line)
  PROVE  /\ PacketLength(line, i) \in 1 .. MaxRun
         /\ i + PacketLength(line, i) \in i + 1 .. Len(line) + 1
         /\ Packet(line, i) \in Seq(Nat)
<1> DEFINE n == PacketLength(line, i)
<1>1. n \in 1 .. MaxRun /\ i + n <= Len(line) + 1
  <2>1. CASE i = Len(line)
    BY <2>1, LineAssumption DEF PacketLength
  <2>2. CASE i # Len(line)
    <3>1. i \in 1 .. Len(line) - 1
      BY <2>2
    <3> QED BY <2>2, <3>1, EqualPixels, DifferentPixels DEF PacketLength
  <2> QED BY <2>1, <2>2
<1> HIDE DEF n
<1>2. line[i] \in Nat /\ \A k \in i .. i + n - 1 : line[k] \in Nat
  BY <1>1, ElementOfSeq
<1>3. LiteralByte(n) \in Nat
  BY <1>1, LiteralBytes, LineAssumption
<1>4. SubSeq(line, i, i + n - 1) \in Seq(Nat)
  BY <1>1, <1>2, SubSeqProperties
<1>5. n - 1 \in Nat
  BY <1>1
<1>6. <<0, line[i]>> \in Seq(Nat) /\ <<n - 1, line[i]>> \in Seq(Nat)
      /\ <<LiteralByte(n)>> \in Seq(Nat)
  BY <1>2, <1>3, <1>5
<1>7. <<LiteralByte(n)>> \o SubSeq(line, i, i + n - 1) \in Seq(Nat)
  BY <1>4, <1>6, ConcatProperties
<1>8. Packet(line, i) \in Seq(Nat)
  BY <1>6, <1>7 DEF Packet, n
<1>9. i + n \in i + 1 .. Len(line) + 1
  BY <1>1
<1> QED BY <1>1, <1>8, <1>9 DEF n

\* What the packets of a line are, from each of its pixels on.
Packing(f, line) ==
  f = [i \in 1 .. Len(line) + 1 |->
         IF i > Len(line) THEN <<>>
         ELSE Packet(line, i) \o f[i + PacketLength(line, i)]]

\* The function that Packets chooses exists ...
LEMMA PackingExists ==
  ASSUME NEW line \in Seq(Nat)
  PROVE  \E f : Packing(f, line)
<1> DEFINE m == Len(line)
           step == [i \in 1 .. m |-> [s \in Seq(Nat) |-> Packet(line, i) \o s]]
           next == [i \in 1 .. m |-> i + PacketLength(line, i)]
<1>1. m \in Nat
  OBVIOUS
<1>2. \A i \in 1 .. m : Packet(line, i) \in Seq(Nat)
  BY PacketTyped
<1>3. \A i \in 1 .. m, s \in Seq(Nat) : Packet(line, i) \o s \in Seq(Nat)
  BY <1>2, ConcatProperties
<1>4. step \in [1 .. m -> [Seq(Nat) -> Seq(Nat)]]
  BY <1>3
<1>5. next \in [1 .. m -> Nat] /\ \A i \in 1 .. m : next[i] \in i + 1 .. m + 1
  BY PacketTyped
<1>6. PICK g : Jumping(g, Seq(Nat), m, <<>>, step, next)
  <2>1. <<>> \in Seq(Nat)
    BY EmptySeq
  <2> HIDE DEF step, next, m
  <2> QED BY <1>1, <1>4, <1>5, <2>1, Jumps
<1>7. ASSUME NEW i \in 1 .. m PROVE g[i] = Packet(line, i) \o g[i + PacketLength(line, i)]
  <2>1. g[i] = step[i][g[next[i]]] /\ g \in [1 .. m + 1 -> Seq(Nat)]
    BY <1>6 DEF Jumping
  <2>2. next[i] = i + PacketLength(line, i) /\ next[i] \in 1 .. m + 1
    BY <1>5
  <2>3. g[next[i]] \in Seq(Nat)
    BY <2>1, <2>2
  <2>4. step[i] = [s \in Seq(Nat) |-> Packet(line, i) \o s]
    OBVIOUS
  <2> HIDE DEF step, next
  <2>5. step[i][g[next[i]]] = Packet(line, i) \o g[next[i]]
    BY <2>3, <2>4
  <2> QED BY <2>1, <2>2, <2>5
<1>8. g = [i \in 1 .. m + 1 |-> g[i]] /\ g[m + 1] = <<>>
  BY <1>6 DEF Jumping
<1>9. \A i \in 1 .. m + 1 :
        g[i] = IF i > m THEN <<>> ELSE Packet(line, i) \o g[i + PacketLength(line, i)]
  <2> SUFFICES ASSUME NEW i \in 1 .. m + 1
               PROVE g[i] = IF i > m THEN <<>>
                            ELSE Packet(line, i) \o g[i + PacketLength(line, i)]
    OBVIOUS
  <2>1. CASE i > m
    <3>1. i = m + 1
      BY <1>1, <2>1
    <3> QED BY <1>8, <2>1, <3>1, Zenon
  <2>2. CASE ~(i > m)
    <3>1. i \in 1 .. m
      BY <1>1, <2>2
    <3> QED BY <1>7, <2>2, <3>1, Zenon
  <2> QED BY <2>1, <2>2
<1>10. Packing(g, line)
  BY <1>8, <1>9 DEF Packing
<1> QED BY <1>10

\* ... so that the packets of a line are given by it.
LEMMA PacketsUnfold ==
  ASSUME NEW line \in Seq(Nat)
  PROVE  \E f : /\ Packing(f, line) /\ Packets(line) = f[1]
                /\ \A i \in 1 .. Len(line) + 1 : f[i] \in Seq(Nat)
<1> DEFINE m == Len(line)
           body(f, i) ==
             IF i > Len(line) THEN <<>>
             ELSE IF i = Len(line) THEN <<0, line[i]>>
             ELSE IF line[i] = line[i + 1]
             THEN LET n == EqualRun(line, i) IN <<n - 1, line[i]>> \o f[i + n]
             ELSE LET n == DifferentRun(line, i)
                  IN  <<LiteralByte(n)>> \o SubSeq(line, i, i + n - 1) \o f[i + n]
           same(f, i) ==
             IF i > Len(line) THEN <<>>
             ELSE Packet(line, i) \o f[i + PacketLength(line, i)]
           Is(f) == f = [i \in 1 .. Len(line) + 1 |-> body(f, i)]
           F == CHOOSE f : Is(f)
<1>1. m \in Nat /\ \A i \in 1 .. m : Packet(line, i) \in Seq(Nat)
  BY PacketTyped
<1>2. Packets(line) = F[1]
  BY DEF Packets
<1>3. ASSUME NEW f, NEW i \in 1 .. m + 1, f[m + 1] = <<>> PROVE same(f, i) = body(f, i)
  <2>1. CASE i > m
    BY <2>1
  <2>2. CASE i = m
    <3>1. PacketLength(line, i) = 1 /\ Packet(line, i) = <<0, line[i]>>
      BY <2>2 DEF PacketLength, Packet
    <3>2. Packet(line, i) \o <<>> = Packet(line, i)
      BY <1>1, <2>2, ConcatEmptySeq
    <3> QED BY <1>3, <2>2, <3>1, <3>2
  <2>3. CASE i < m
    <3>1. i # Len(line) /\ ~(i > Len(line))
      BY <2>3
    <3>2. CASE line[i] = line[i + 1]
      <4>1. PacketLength(line, i) = EqualRun(line, i)
            /\ Packet(line, i) = <<EqualRun(line, i) - 1, line[i]>>
        BY <3>1, <3>2, Zenon DEF PacketLength, Packet
      <4> QED BY <3>1, <3>2, <4>1, Zenon
    <3>3. CASE line[i] # line[i + 1]
      <4>1. PacketLength(line, i) = DifferentRun(line, i)
            /\ Packet(line, i) = <<LiteralByte(DifferentRun(line, i))>>
                                 \o SubSeq(line, i, i + DifferentRun(line, i) - 1)
        BY <3>1, <3>3, Zenon DEF PacketLength, Packet
      <4> QED BY <3>1, <3>3, <4>1, Zenon
    <3> QED BY <3>2, <3>3
  <2> QED BY <1>1, <2>1, <2>2, <2>3
<1>4. ASSUME NEW f PROVE Packing(f, line) <=> Is(f)
  <2>1. m + 1 \in 1 .. m + 1 /\ m + 1 > m
    BY <1>1
  <2>2. body(f, m + 1) = <<>> /\ same(f, m + 1) = <<>>
    BY <2>1
  <2> HIDE DEF body, same
  <2>3. Packing(f, line) => f[m + 1] = <<>>
    BY <2>1, <2>2 DEF Packing, same
  <2>4. Is(f) => f[m + 1] = <<>>
    BY <2>1, <2>2
  <2>5. f[m + 1] = <<>> => \A i \in 1 .. m + 1 : same(f, i) = body(f, i)
    BY <1>3
  <2>6. Packing(f, line) <=> f = [i \in 1 .. m + 1 |-> same(f, i)]
    BY DEF Packing, same
  <2> QED BY <2>3, <2>4, <2>5, <2>6
<1> HIDE DEF body, same
<1>5. Is(F)
  <2>1. \E f : Is(f)
    BY <1>4, PackingExists
  <2> QED BY <2>1
<1>6. Packing(F, line)
  BY <1>4, <1>5
<1> HIDE DEF F
<1> DEFINE X == {i \in 1 .. m + 1 : F[i] \in Seq(Nat)}
<1>7. m + 1 \in X
  BY <1>1, <1>6, EmptySeq DEF Packing
<1>8. ASSUME NEW i \in 1 .. m, \A j \in i + 1 .. m + 1 : j \in X PROVE i \in X
  <2>1. i + PacketLength(line, i) \in i + 1 .. m + 1
    BY PacketTyped
  <2>2. F[i + PacketLength(line, i)] \in Seq(Nat)
    BY <1>8, <2>1
  <2>3. F[i] = Packet(line, i) \o F[i + PacketLength(line, i)]
    <3>1. i \in 1 .. Len(line) + 1 /\ ~(i > Len(line))
      BY <1>1
    <3> QED BY <1>6, <3>1, Zenon DEF Packing
  <2>4. Packet(line, i) \in Seq(Nat)
    BY <1>1
  <2>5. Packet(line, i) \o F[i + PacketLength(line, i)] \in Seq(Nat)
    BY <2>2, <2>4, ConcatProperties
  <2>6. i \in 1 .. m + 1
    BY <1>1
  <2> QED BY <2>3, <2>5, <2>6
<1>9. \A i \in 1 .. m + 1 : i \in X
  <2> HIDE DEF X, m
  <2> QED BY <1>1, <1>7, <1>8, Backwards
<1> QED BY <1>2, <1>6, <1>9

\* The pixels of the packet at i, and those of the bytes from i on.
Unpacked(bytes, i) ==
  IF bytes[i] < MaxRun THEN [k \in 1 .. bytes[i] + 1 |-> bytes[i + 1]]
  ELSE SubSeq(bytes, i + 1, i + Follow(bytes[i]))

Unpacking(g, bytes) ==
  g = [i \in 1 .. Len(bytes) + 1 |->
         IF ~Whole(bytes, i) THEN <<>>
         ELSE Unpacked(bytes, i) \o g[i + Follow(bytes[i]) + 1]]

\* A packet that is all there is followed by one that begins in the bytes or ends them.
LEMMA UnpackedTyped ==
  ASSUME NEW bytes \in Seq(Nat), NEW i \in 1 .. Len(bytes), Whole(bytes, i)
  PROVE  /\ Follow(bytes[i]) \in 1 .. MaxRun + 1
         /\ i + Follow(bytes[i]) + 1 \in i + 1 .. Len(bytes) + 1
         /\ Unpacked(bytes, i) \in Seq(Nat)
<1> DEFINE b == bytes[i]
           n == Follow(b)
<1>1. MaxRun \in Nat /\ b \in 0 .. 2 * MaxRun - 1 /\ i + n <= Len(bytes)
  BY LineAssumption DEF Whole, Byte
<1>2. n \in 1 .. MaxRun + 1 /\ n \in Nat
  <2> HIDE DEF b
  <2> QED BY <1>1, LineAssumption DEF Follow
<1>3. Unpacked(bytes, i) \in Seq(Nat)
  <2>1. \A k \in i + 1 .. i + n : bytes[k] \in Nat
    BY <1>1, <1>2, ElementOfSeq
  <2>2. SubSeq(bytes, i + 1, i + n) \in Seq(Nat)
    BY <1>1, <1>2, <2>1, SubSeqProperties
  <2>3. bytes[i + 1] \in Nat
    <3>1. i + 1 \in i + 1 .. i + n
      BY <1>2
    <3> QED BY <2>1, <3>1
  <2>4. [k \in 1 .. b + 1 |-> bytes[i + 1]] \in Seq(Nat)
    <3>1. b + 1 \in Nat
      BY <1>1
    <3>2. [k \in 1 .. b + 1 |-> bytes[i + 1]] \in [1 .. b + 1 -> Nat]
      BY <2>3
    <3> HIDE DEF b
    <3> QED BY <3>1, <3>2, SeqDef, Zenon
  <2> QED BY <2>2, <2>4 DEF Unpacked
<1> HIDE DEF n
<1>4. i + n + 1 \in i + 1 .. Len(bytes) + 1
  BY <1>1, <1>2
<1> QED BY <1>2, <1>3, <1>4 DEF n

\* The function that Pixels chooses exists ...
LEMMA UnpackingExists ==
  ASSUME NEW bytes \in Seq(Nat)
  PROVE  \E g : Unpacking(g, bytes)
<1> DEFINE m == Len(bytes)
           step == [i \in 1 .. m |->
                      [s \in Seq(Nat) |->
                         IF Whole(bytes, i) THEN Unpacked(bytes, i) \o s ELSE <<>>]]
           next == [i \in 1 .. m |->
                      IF Whole(bytes, i) THEN i + Follow(bytes[i]) + 1 ELSE m + 1]
<1>1. m \in Nat /\ <<>> \in Seq(Nat)
  BY EmptySeq
<1>2. ASSUME NEW i \in 1 .. m, NEW s \in Seq(Nat), Whole(bytes, i)
      PROVE  Unpacked(bytes, i) \o s \in Seq(Nat)
  <2>1. Unpacked(bytes, i) \in Seq(Nat)
    BY <1>2, UnpackedTyped
  <2> QED BY <2>1, ConcatProperties
<1>3. step \in [1 .. m -> [Seq(Nat) -> Seq(Nat)]]
  BY <1>1, <1>2
<1>4. \A i \in 1 .. m : next[i] \in i + 1 .. m + 1
  BY <1>1, UnpackedTyped
<1>5. next \in [1 .. m -> Nat]
  <2>1. \A i \in 1 .. m : next[i] \in Nat
    <3> HIDE DEF next
    <3> QED BY <1>4
  <2> QED BY <2>1
<1>6. PICK g : Jumping(g, Seq(Nat), m, <<>>, step, next)
  <2> HIDE DEF step, next, m
  <2> QED BY <1>1, <1>3, <1>4, <1>5, Jumps
<1>7. g = [i \in 1 .. m + 1 |-> g[i]]
  BY <1>6 DEF Jumping
<1>8. g[m + 1] = <<>>
  BY <1>6 DEF Jumping
<1>9. ASSUME NEW i \in 1 .. m + 1
      PROVE g[i] = IF ~Whole(bytes, i) THEN <<>>
                   ELSE Unpacked(bytes, i) \o g[i + Follow(bytes[i]) + 1]
  <2>1. CASE i = m + 1
    <3>1. ~Whole(bytes, i)
      BY <1>1, <2>1 DEF Whole
    <3> QED BY <1>8, <2>1, <3>1, Zenon
  <2>2. CASE i # m + 1
    <3>1. i \in 1 .. m
      BY <1>1, <2>2
    <3>2. g[i] = step[i][g[next[i]]] /\ g[next[i]] \in Seq(Nat)
      <4>1. next[i] \in 1 .. m + 1
        <5> HIDE DEF next
        <5> QED BY <1>1, <1>4, <3>1
      <4> HIDE DEF step, next
      <4> QED BY <1>6, <3>1, <4>1 DEF Jumping
    <3>3. step[i] = [s \in Seq(Nat) |->
                       IF Whole(bytes, i) THEN Unpacked(bytes, i) \o s ELSE <<>>]
      BY <3>1
    <3>4. next[i] = IF Whole(bytes, i) THEN i + Follow(bytes[i]) + 1 ELSE m + 1
      BY <3>1
    <3> HIDE DEF step, next
    <3>5. g[i] = IF Whole(bytes, i) THEN Unpacked(bytes, i) \o g[next[i]] ELSE <<>>
      BY <3>2, <3>3, Zenon
    <3> QED BY <3>4, <3>5, Zenon
  <2> QED BY <2>1, <2>2
<1>10. Unpacking(g, bytes)
  BY <1>7, <1>9 DEF Unpacking
<1> QED BY <1>10

\* ... so that the pixels of the bytes are given by it.
LEMMA PixelsUnfold ==
  ASSUME NEW bytes \in Seq(Nat)
  PROVE  \E g : /\ Unpacking(g, bytes) /\ Pixels(bytes) = g[1]
                /\ \A i \in 1 .. Len(bytes) + 1 : g[i] \in Seq(Nat)
<1> DEFINE m == Len(bytes)
           body(g, i) ==
             IF ~Whole(bytes, i) THEN <<>>
             ELSE LET n    == Follow(bytes[i])
                      here == IF bytes[i] < MaxRun
                              THEN [k \in 1 .. bytes[i] + 1 |-> bytes[i + 1]]
                              ELSE SubSeq(bytes, i + 1, i + n)
                  IN  here \o g[i + n + 1]
           Is(g) == g = [i \in 1 .. Len(bytes) + 1 |-> body(g, i)]
           G == CHOOSE g : Is(g)
<1>1. m \in Nat
  OBVIOUS
<1>2. Pixels(bytes) = G[1]
  BY DEF Pixels
<1>3. \A g : Unpacking(g, bytes) <=> Is(g)
  BY Zenon DEF Unpacking, Unpacked
<1> HIDE DEF body
<1>4. Is(G)
  <2>1. \E g : Is(g)
    BY <1>3, UnpackingExists
  <2> QED BY <2>1
<1>5. Unpacking(G, bytes)
  BY <1>3, <1>4
<1> HIDE DEF G
<1> DEFINE X == {i \in 1 .. m + 1 : G[i] \in Seq(Nat)}
<1>6. m + 1 \in X
  <2>1. ~Whole(bytes, m + 1) /\ m + 1 \in 1 .. m + 1
    BY <1>1 DEF Whole
  <2>2. G[m + 1] = <<>>
    BY <1>5, <2>1, Zenon DEF Unpacking
  <2> QED BY <2>1, <2>2, EmptySeq
<1>7. ASSUME NEW i \in 1 .. m, \A j \in i + 1 .. m + 1 : j \in X PROVE i \in X
  <2>1. i \in 1 .. m + 1
    BY <1>1
  <2>2. CASE ~Whole(bytes, i)
    <3>1. G[i] = <<>>
      BY <1>5, <2>1, <2>2, Zenon DEF Unpacking
    <3> QED BY <2>1, <3>1, EmptySeq
  <2>3. CASE Whole(bytes, i)
    <3>1. G[i] = Unpacked(bytes, i) \o G[i + Follow(bytes[i]) + 1]
      BY <1>5, <2>1, <2>3, Zenon DEF Unpacking
    <3>2. Unpacked(bytes, i) \in Seq(Nat) /\ i + Follow(bytes[i]) + 1 \in i + 1 .. m + 1
      BY <2>3, UnpackedTyped
    <3>3. G[i + Follow(bytes[i]) + 1] \in Seq(Nat)
      BY <1>7, <3>2
    <3>4. Unpacked(bytes, i) \o G[i + Follow(bytes[i]) + 1] \in Seq(Nat)
      BY <3>2, <3>3, ConcatProperties
    <3> QED BY <2>1, <3>1, <3>4
  <2> QED BY <2>2, <2>3
<1>8. \A i \in 1 .. m + 1 : i \in X
  <2> HIDE DEF X, m
  <2> QED BY <1>1, <1>6, <1>7, Backwards
<1> QED BY <1>2, <1>5, <1>8

\* A packet of one pixel.
LEMMA TwoBytes ==
  ASSUME NEW a \in Nat, NEW b \in Nat
  PROVE  <<a>> \o <<b>> = <<a, b>>
<1> DEFINE s == <<a>>
           t == <<b>>
           u == <<a, b>>
<1>1. s \in Seq(Nat) /\ t \in Seq(Nat) /\ u \in Seq(Nat)
      /\ Len(s) = 1 /\ Len(t) = 1 /\ Len(u) = 2
      /\ s[1] = a /\ t[1] = b /\ u[1] = a /\ u[2] = b
  OBVIOUS
<1> HIDE DEF s, t, u
<1>2. s \o t \in Seq(Nat) /\ Len(s \o t) = Len(s) + Len(t)
      /\ \A i \in 1 .. Len(s) + Len(t) :
           (s \o t)[i] = IF i <= Len(s) THEN s[i] ELSE t[i - Len(s)]
  BY <1>1, ConcatProperties
<1>3. \A i \in 1 .. 2 : (s \o t)[i] = u[i]
  BY <1>1, <1>2
<1>4. s \o t = u
  BY <1>1, <1>2, <1>3, SeqEqual
<1> QED BY <1>4 DEF s, t, u

\* c is what b has behind the first l.
EndsWith(b, l, c) ==
  Len(b) = l + Len(c) /\ \A i \in 1 .. Len(c) : b[l + i] = c[i]

\* A part of c is the same part of b, further on.
SamePart(b, l, c, p, q) == SubSeq(b, l + p, l + q) = SubSeq(c, p, q)

LEMMA ShiftedPart ==
  ASSUME NEW b \in Seq(Nat), NEW c \in Seq(Nat), NEW l \in Nat, EndsWith(b, l, c),
         NEW p \in Nat, NEW q \in Nat, p > 0, q <= Len(c)
  PROVE  SamePart(b, l, c, p, q)
<1> DEFINE s == SubSeq(b, l + p, l + q)
           t == SubSeq(c, p, q)
<1>0. Len(b) = l + Len(c) /\ Len(c) \in Nat /\ \A i \in 1 .. Len(c) : b[l + i] = c[i]
  BY DEF EndsWith
<1>1. ASSUME NEW i \in p .. q PROVE c[i] \in Nat /\ b[l + i] = c[i]
  <2>1. i \in 1 .. Len(c)
    BY <1>0
  <2>2. c[i] \in Nat
    BY <2>1, ElementOfSeq
  <2> QED BY <1>0, <2>1, <2>2
<1>2. ASSUME NEW i \in l + p .. l + q PROVE b[i] \in Nat
  <2>1. i \in 1 .. Len(b)
    BY <1>0
  <2> QED BY <2>1, ElementOfSeq
<1>3. t \in Seq(Nat) /\ Len(t) = (IF p <= q THEN q - p + 1 ELSE 0)
      /\ \A i \in 1 .. q - p + 1 : t[i] = c[p + i - 1]
  BY <1>1, SubSeqProperties
<1>4. s \in Seq(Nat) /\ Len(s) = (IF p <= q THEN q - p + 1 ELSE 0)
  BY <1>2, SubSeqProperties
<1>7. \A i \in 1 .. l + q - (l + p) + 1 : s[i] = b[l + p + i - 1]
  BY <1>2, SubSeqProperties
<1> HIDE DEF s, t
<1>5. ASSUME NEW i \in 1 .. Len(s) PROVE s[i] = t[i]
  <2>1. /\ i \in 1 .. q - p + 1 /\ i \in 1 .. l + q - (l + p) + 1
        /\ p + i - 1 \in p .. q /\ p + i - 1 \in 1 .. Len(c)
        /\ l + (p + i - 1) = l + p + i - 1
    <3>1. p <= q /\ Len(s) = q - p + 1
      BY <1>4
    <3>2. i \in 1 .. q - p + 1
      BY <3>1
    <3>3. p + i - 1 \in p .. q /\ l + q - (l + p) + 1 = q - p + 1 /\ i \in Nat
      BY <3>2
    <3>4. p + i - 1 \in 1 .. Len(c) /\ l + (p + i - 1) = l + p + i - 1
      BY <1>0, <3>3
    <3> QED BY <3>2, <3>3, <3>4
  <2>2. s[i] = b[l + p + i - 1]
    BY <1>7, <2>1
  <2>3. t[i] = c[p + i - 1]
    BY <1>3, <2>1
  <2>4. b[l + (p + i - 1)] = c[p + i - 1]
    BY <1>0, <2>1
  <2> QED BY <2>1, <2>2, <2>3, <2>4
<1>6. s = t
  BY <1>3, <1>4, <1>5, SeqEqual
<1> QED BY <1>6 DEF s, t, SamePart

\* What stands behind s in s \o t is t.
LEMMA Joined ==
  ASSUME NEW S, NEW s \in Seq(S), NEW t \in Seq(S)
  PROVE  /\ s \o t \in Seq(S) /\ Len(s \o t) = Len(s) + Len(t)
         /\ \A i \in 1 .. Len(s) : (s \o t)[i] = s[i]
         /\ EndsWith(s \o t, Len(s), t)
BY DEF EndsWith

\* The bytes behind others are read as if they stood alone.
LEMMA ReadShifted ==
  ASSUME NEW b \in Seq(Nat), NEW c \in Seq(Nat), NEW l \in Nat, EndsWith(b, l, c),
         NEW f, Unpacking(f, b), NEW g, Unpacking(g, c)
  PROVE  f[l + 1] = g[1]
<1>7. ASSUME NEW p \in Nat, NEW q \in Nat, p > 0, q <= Len(c)
      PROVE  SamePart(b, l, c, p, q)
  BY <1>7, ShiftedPart
<1> DEFINE X == {i \in 1 .. Len(c) + 1 : f[l + i] = g[i]}
<1>1. Len(c) \in Nat
  OBVIOUS
<1>6. Len(b) = l + Len(c) /\ \A i \in 1 .. Len(c) : b[l + i] = c[i]
  BY DEF EndsWith
<1>2. Len(c) + 1 \in X
  <2>1. ~Whole(c, Len(c) + 1) /\ Len(c) + 1 \in 1 .. Len(c) + 1
    BY <1>1 DEF Whole
  <2>2. ~Whole(b, l + (Len(c) + 1)) /\ l + (Len(c) + 1) \in 1 .. Len(b) + 1
    BY <1>1, <1>6 DEF Whole
  <2>3. g[Len(c) + 1] = <<>>
    BY <2>1, Zenon DEF Unpacking
  <2>4. f[l + (Len(c) + 1)] = <<>>
    BY <2>2, Zenon DEF Unpacking
  <2> QED BY <2>1, <2>3, <2>4
<1>3. ASSUME NEW i \in 1 .. Len(c), \A j \in i + 1 .. Len(c) + 1 : j \in X PROVE i \in X
  <2> DEFINE n == Follow(c[i])
  <2>1. i \in 1 .. Len(c) + 1 /\ l + i \in 1 .. Len(b) + 1 /\ b[l + i] = c[i]
    BY <1>6
  <2>2. Whole(b, l + i) <=> Whole(c, i)
    <3>1. c[i] \in Byte => n \in Int
      BY LineAssumption DEF Follow, Byte
    <3> HIDE DEF n
    <3>2. n \in Int => (l + i + n <= Len(b) <=> i + n <= Len(c))
      BY <1>6
    <3>3. l + i <= Len(b) /\ i <= Len(c)
      BY <1>6
    <3> QED BY <2>1, <3>1, <3>2, <3>3 DEF Whole, n
  <2>3. CASE ~Whole(c, i)
    <3>1. g[i] = <<>>
      BY <2>1, <2>3, Zenon DEF Unpacking
    <3>2. f[l + i] = <<>>
      BY <2>1, <2>2, <2>3, Zenon DEF Unpacking
    <3> QED BY <2>1, <3>1, <3>2
  <2>4. CASE Whole(c, i)
    <3>1. n \in 1 .. MaxRun + 1 /\ i + n + 1 \in i + 1 .. Len(c) + 1 /\ MaxRun \in Nat
      BY <2>4, UnpackedTyped, LineAssumption
    <3> HIDE DEF n
    <3>2. g[i] = Unpacked(c, i) \o g[i + n + 1]
      BY <2>1, <2>4, Zenon DEF Unpacking, n
    <3>3. f[l + i] = Unpacked(b, l + i) \o f[l + i + n + 1]
      BY <2>1, <2>2, <2>4, Zenon DEF Unpacking, n
    <3>4. f[l + (i + n + 1)] = g[i + n + 1] /\ l + (i + n + 1) = l + i + n + 1
      BY <1>3, <3>1
    <3>5. Unpacked(b, l + i) = Unpacked(c, i)
      <4>1. i + 1 \in 1 .. Len(c) /\ i + n <= Len(c) /\ i + n \in Nat
            /\ l + (i + 1) = l + i + 1 /\ l + (i + n) = l + i + n
        BY <3>1
      <4>2. b[l + i + 1] = c[i + 1]
        BY <1>6, <4>1
      <4>3. SubSeq(b, l + i + 1, l + i + n) = SubSeq(c, i + 1, i + n)
        <5> DEFINE p == i + 1
                   q == i + n
        <5>1. p \in Nat /\ p > 0 /\ q \in Nat /\ q <= Len(c)
          BY <4>1
        <5>2. SubSeq(b, l + p, l + q) = SubSeq(c, p, q)
          <6> HIDE DEF p, q
          <6> QED BY <1>7, <5>1 DEF SamePart
        <5> QED BY <4>1, <5>2
      <4> QED BY <2>1, <4>2, <4>3 DEF Unpacked, n
    <3> QED BY <2>1, <3>2, <3>3, <3>4, <3>5
  <2> QED BY <2>3, <2>4
<1>4. \A i \in 1 .. Len(c) + 1 : i \in X
  <2> HIDE DEF X
  <2> QED BY <1>1, <1>2, <1>3, Backwards
<1>5. 1 \in X
  BY <1>1, <1>4
<1> QED BY <1>5

\* A packet, and the bytes behind it, are read one after the other.
LEMMA ReadBehind ==
  ASSUME NEW pk \in Seq(Nat), NEW rest \in Seq(Nat), Whole(pk, 1),
         Len(pk) = Follow(pk[1]) + 1
  PROVE  Pixels(pk \o rest) = Unpacked(pk, 1) \o Pixels(rest)
<1> DEFINE b == pk \o rest
           n == Follow(pk[1])
<1>1. /\ b \in Seq(Nat) /\ Len(b) = Len(pk) + Len(rest)
      /\ \A i \in 1 .. Len(pk) : b[i] = pk[i]
      /\ EndsWith(b, Len(pk), rest)
  <2>1. b \in Seq(Nat) /\ Len(b) = Len(pk) + Len(rest)
    BY Joined
  <2>2. \A i \in 1 .. Len(pk) : b[i] = pk[i]
    BY Joined, Zenon
  <2>3. EndsWith(b, Len(pk), rest)
    BY Joined, Zenon
  <2> QED BY <2>1, <2>2, <2>3
<1>2. Len(pk) \in Nat /\ Len(rest) \in Nat /\ Len(pk) > 0 /\ 1 \in 1 .. Len(pk)
  BY DEF Whole
<1>3. n \in 1 .. MaxRun + 1 /\ n \in Nat /\ Len(pk) = n + 1
  <2>1. n \in 1 .. MaxRun + 1 /\ MaxRun \in Nat
    BY <1>2, UnpackedTyped, LineAssumption
  <2> QED BY <2>1
<1>4. SubSeq(b, 2, 1 + n) = SubSeq(pk, 2, 1 + n)
  <2>1. 2 \in 1 .. Len(pk) /\ 1 + n \in 1 .. Len(pk)
    BY <1>3
  <2> QED BY <2>1, SubSeqOfConcat1
<1> HIDE DEF b
<1>5. PICK f : Unpacking(f, b) /\ Pixels(b) = f[1]
  BY <1>1, PixelsUnfold
<1>6. PICK g : Unpacking(g, rest) /\ Pixels(rest) = g[1]
  BY PixelsUnfold
<1>7. f[Len(pk) + 1] = g[1]
  BY <1>1, <1>2, <1>5, <1>6, ReadShifted
<1>8. b[1] = pk[1] /\ b[2] = pk[2]
  BY <1>1, <1>2, <1>3
<1>9. Whole(b, 1) /\ 1 \in 1 .. Len(b) + 1 /\ 1 + n + 1 = Len(pk) + 1
  <2> HIDE DEF n
  <2> QED BY <1>1, <1>2, <1>3, <1>8 DEF Whole, n
<1>10. Unpacked(b, 1) = Unpacked(pk, 1)
  <2>1. 1 + 1 = 2
    OBVIOUS
  <2> HIDE DEF n
  <2> QED BY <1>4, <1>8, <2>1, Zenon DEF Unpacked, n
<1>11. f[1] = Unpacked(b, 1) \o f[1 + n + 1]
  BY <1>5, <1>8, <1>9, Zenon DEF Unpacking
<1> QED BY <1>5, <1>6, <1>7, <1>9, <1>10, <1>11 DEF b

\* A packet is read back as the pixels it was made of.
LEMMA PacketRead ==
  ASSUME NEW line \in Seq(Nat), NEW i \in 1 .. Len(line)
  PROVE  LET pk == Packet(line, i)
         IN  /\ Whole(pk, 1) /\ Len(pk) = Follow(pk[1]) + 1
             /\ Unpacked(pk, 1) = SubSeq(line, i, i + PacketLength(line, i) - 1)
<1> DEFINE pk == Packet(line, i)
           n == PacketLength(line, i)
           s == SubSeq(line, i, i + n - 1)
<1>1. n \in 1 .. MaxRun /\ i + n \in i + 1 .. Len(line) + 1 /\ n \in Nat
      /\ MaxRun \in Nat /\ MaxRun > 1 /\ Len(line) \in Nat
  BY PacketTyped, LineAssumption
<1> HIDE DEF n
<1>2. s \in Seq(Nat) /\ Len(s) = n /\ \A k \in 1 .. n : s[k] = line[i + k - 1]
  <2>1. \A k \in i .. i + n - 1 : line[k] \in Nat
    BY <1>1, ElementOfSeq
  <2>2. i \in Int /\ i + n - 1 \in Int /\ i <= i + n - 1 /\ i + n - 1 - i + 1 = n
    BY <1>1
  <2> HIDE DEF s
  <2> QED BY <1>1, <2>1, <2>2, SubSeqProperties DEF s
<1>3. ASSUME NEW b \in 0 .. MaxRun - 1, b + 1 = n, pk = <<b, line[i]>>,
             \A k \in 0 .. n - 1 : line[i + k] = line[i]
      PROVE  Whole(pk, 1) /\ Len(pk) = Follow(pk[1]) + 1 /\ Unpacked(pk, 1) = s
  <2>1. pk[1] = b /\ pk[2] = line[i] /\ Len(pk) = 2
    BY <1>3
  <2>2. Follow(pk[1]) = 1 /\ b < MaxRun /\ b \in Byte
    BY <1>1, <1>3, <2>1 DEF Follow, Byte
  <2> HIDE DEF pk
  <2>3. Whole(pk, 1)
    BY <2>1, <2>2 DEF Whole
  <2>4. Unpacked(pk, 1) = [k \in 1 .. n |-> line[i]]
    BY <1>1, <1>3, <2>1, <2>2 DEF Unpacked
  <2>5. [k \in 1 .. n |-> line[i]] = s
    <3>1. s = [k \in 1 .. n |-> s[k]]
      <4> HIDE DEF s
      <4> QED BY <1>2, LenProperties
    <3>2. ASSUME NEW k \in 1 .. n PROVE s[k] = line[i]
      <4>1. k - 1 \in 0 .. n - 1 /\ i + (k - 1) = i + k - 1
        BY <1>1
      <4>2. s[k] = line[i + k - 1]
        <5> HIDE DEF s
        <5> QED BY <1>2
      <4>3. line[i + (k - 1)] = line[i]
        BY <1>3, <4>1
      <4> HIDE DEF s
      <4> QED BY <4>1, <4>2, <4>3
    <3> HIDE DEF s
    <3> QED BY <3>1, <3>2
  <2>6. Len(pk) = Follow(pk[1]) + 1
    BY <2>1, <2>2
  <2> HIDE DEF s
  <2> QED BY <2>3, <2>4, <2>5, <2>6, Zenon
<1>4. ASSUME n > 1, pk = <<LiteralByte(n)>> \o s
      PROVE  Whole(pk, 1) /\ Len(pk) = Follow(pk[1]) + 1 /\ Unpacked(pk, 1) = s
  <2> DEFINE b == LiteralByte(n)
  <2>1. b = 2 * MaxRun + 1 - n
    BY <1>1, <1>4, LiteralBytes
  <2>2. b \in Byte /\ ~(b < MaxRun) /\ Follow(b) = n /\ b \in Nat
    <3> HIDE DEF b
    <3> QED BY <1>1, <1>4, <2>1 DEF Byte, Follow
  <2> HIDE DEF b
  <2>3. <<b>> \in Seq(Nat) /\ Len(<<b>>) = 1 /\ <<b>>[1] = b
    BY <2>2
  <2>4. pk = <<b>> \o s
    BY <1>4 DEF b
  <2> HIDE DEF pk, s
  <2>5. Len(pk) = 1 + n /\ pk[1] = b
    BY <1>1, <1>2, <2>3, <2>4, ConcatProperties
  <2>6. Whole(pk, 1)
    BY <1>1, <2>2, <2>5 DEF Whole
  <2>7. Unpacked(pk, 1) = SubSeq(pk, 1 + 1, 1 + n)
    BY <2>2, <2>5 DEF Unpacked
  <2>8. SubSeq(pk, 1 + 1, 1 + n) = SubSeq(s, 1, n)
    <3>1. 1 + 1 \in Len(<<b>>) + 1 .. Len(<<b>>) + Len(s)
          /\ 1 + n \in Len(<<b>>) + 1 .. Len(<<b>>) + Len(s)
          /\ 1 + 1 - Len(<<b>>) = 1 /\ 1 + n - Len(<<b>>) = n
      BY <1>1, <1>2, <2>3
    <3>2. SubSeq(<<b>> \o s, 1 + 1, 1 + n) = SubSeq(s, 1 + 1 - Len(<<b>>), 1 + n - Len(<<b>>))
      BY <1>2, <2>3, <3>1, SubSeqOfConcat2
    <3> QED BY <2>4, <3>1, <3>2
  <2>9. SubSeq(s, 1, n) = s
    BY <1>2, SubSeqFull
  <2> QED BY <1>1, <2>2, <2>5, <2>6, <2>7, <2>8, <2>9
<1>5. CASE i = Len(line)
  <2>1. n = 1 /\ pk = <<0, line[i]>>
    BY <1>5 DEF PacketLength, Packet, n
  <2>2. \A k \in 0 .. n - 1 : line[i + k] = line[i]
    BY <1>1, <2>1
  <2>3. 0 \in 0 .. MaxRun - 1 /\ 0 + 1 = n
    BY <1>1, <2>1
  <2> HIDE DEF pk, s
  <2> QED BY <1>3, <2>1, <2>2, <2>3 DEF n, s, pk
<1>6. CASE i # Len(line) /\ line[i] = line[i + 1]
  <2>1. n = EqualRun(line, i) /\ pk = <<n - 1, line[i]>>
    BY <1>6, Zenon DEF PacketLength, Packet, n
  <2>2. \A k \in 0 .. n - 1 : line[i + k] = line[i]
    <3>1. i \in 1 .. Len(line) - 1
      BY <1>1, <1>6
    <3> QED BY <2>1, <3>1, EqualPixels
  <2>3. n - 1 \in 0 .. MaxRun - 1 /\ n - 1 + 1 = n
    BY <1>1
  <2> HIDE DEF pk, s
  <2> QED BY <1>3, <2>1, <2>2, <2>3 DEF n, s, pk
<1>7. CASE i # Len(line) /\ line[i] # line[i + 1]
  <2>1. pk = <<LiteralByte(n)>> \o s
    BY <1>7, Zenon DEF PacketLength, Packet, n
  <2>2. CASE n > 1
    BY <1>4, <2>1, <2>2 DEF n
  <2>3. CASE n = 1
    <3>1. LiteralByte(n) = 0
      BY <1>1, <2>3, LiteralBytes
    <3>2. s[1] = line[i]
      <4> HIDE DEF s
      <4> QED BY <1>1, <1>2, <2>3
    <3>3. s = <<line[i]>>
      <4> HIDE DEF s
      <4> QED BY <1>2, <2>3, <3>2
    <3>4. pk = <<0, line[i]>>
      <4>1. <<0>> \o <<line[i]>> = <<0, line[i]>>
        BY TwoBytes, ElementOfSeq
      <4> HIDE DEF s, pk
      <4> QED BY <2>1, <3>1, <3>3, <4>1, Zenon
    <3>5. \A k \in 0 .. n - 1 : line[i + k] = line[i]
      BY <1>1, <2>3
    <3>6. 0 \in 0 .. MaxRun - 1 /\ 0 + 1 = n
      BY <1>1, <2>3
    <3> HIDE DEF pk, s
    <3> QED BY <1>3, <3>4, <3>5, <3>6 DEF n, s, pk
  <2> QED BY <1>1, <2>2, <2>3
<1> QED BY <1>5, <1>6, <1>7 DEF n

\* A line is read back from its packets as it was, whatever its pixels and however the
\* runs of equal and of different ones follow each other.
THEOREM LineReadsBack ==
  ASSUME NEW line \in Seq(Nat)
  PROVE  Pixels(Packets(line)) = line
<1> DEFINE m == Len(line)
<1>1. PICK f : /\ Packing(f, line) /\ Packets(line) = f[1]
               /\ \A i \in 1 .. m + 1 : f[i] \in Seq(Nat)
  BY PacketsUnfold
<1>2. m \in Nat
  OBVIOUS
<1> DEFINE X == {i \in 1 .. m + 1 : Pixels(f[i]) = SubSeq(line, i, m)}
<1>3. m + 1 \in X
  <2>1. m + 1 \in 1 .. Len(line) + 1 /\ m + 1 > Len(line)
    BY <1>2
  <2>5. m + 1 \in Int /\ m \in Int /\ m < m + 1
    BY <1>2
  <2>2. f[m + 1] = <<>>
    BY <1>1, <2>1, Zenon DEF Packing
  <2>3. Pixels(<<>>) = <<>>
    <3>1. <<>> \in Seq(Nat) /\ Len(<<>>) = 0
      BY EmptySeq
    <3>2. PICK g : Unpacking(g, <<>>) /\ Pixels(<<>>) = g[1]
      BY <3>1, PixelsUnfold
    <3>3. ~Whole(<<>>, 1) /\ 1 \in 1 .. Len(<<>>) + 1
      BY <3>1 DEF Whole
    <3> QED BY <3>2, <3>3, Zenon DEF Unpacking
  <2>4. SubSeq(line, m + 1, m) = <<>>
    BY <2>5, SubSeqEmpty
  <2> QED BY <2>1, <2>2, <2>3, <2>4
<1>4. ASSUME NEW i \in 1 .. m, \A j \in i + 1 .. m + 1 : j \in X PROVE i \in X
  <2> DEFINE n == PacketLength(line, i)
             pk == Packet(line, i)
  <2>1. i + n \in i + 1 .. m + 1 /\ pk \in Seq(Nat) /\ n \in Nat
    BY PacketTyped, LineAssumption
  <2>2. i \in 1 .. Len(line) + 1 /\ ~(i > Len(line)) /\ i \in 1 .. m + 1
    BY <1>2
  <2>3. f[i] = pk \o f[i + n]
    BY <1>1, <2>2, Zenon DEF Packing
  <2>4. /\ Whole(pk, 1) /\ Len(pk) = Follow(pk[1]) + 1
        /\ Unpacked(pk, 1) = SubSeq(line, i, i + n - 1)
    BY PacketRead
  <2> HIDE DEF n, pk
  <2>5. i + n \in 1 .. m + 1 /\ i + n \in X
    BY <1>2, <1>4, <2>1
  <2>6. Pixels(f[i]) = SubSeq(line, i, i + n - 1) \o SubSeq(line, i + n, m)
    <3>1. f[i + n] \in Seq(Nat)
      BY <1>1, <2>5
    <3>2. Pixels(pk \o f[i + n]) = Unpacked(pk, 1) \o Pixels(f[i + n])
      BY <2>1, <2>4, <3>1, ReadBehind
    <3>3. Pixels(f[i + n]) = SubSeq(line, i + n, m)
      BY <2>5
    <3> QED BY <2>3, <2>4, <3>2, <3>3
  <2>7. SubSeq(line, i, i + n - 1) \o SubSeq(line, i + n, m) = SubSeq(line, i, m)
    <3> DEFINE k == i + n - 1
    <3>1. i \in 1 .. m + 1 /\ k \in i - 1 .. m /\ m \in k .. m /\ k + 1 = i + n
      BY <1>2, <2>1
    <3> HIDE DEF k
    <3>2. SubSeq(line, i, k) \o SubSeq(line, k + 1, m) = SubSeq(line, i, m)
      BY <3>1, ConcatAdjacentSubSeq
    <3> QED BY <3>1, <3>2 DEF k
  <2> QED BY <2>2, <2>6, <2>7
<1>5. \A i \in 1 .. m + 1 : i \in X
  <2> HIDE DEF X, m
  <2> QED BY <1>2, <1>3, <1>4, Backwards
<1>6. 1 \in 1 .. m + 1
  BY <1>2
<1>7. Pixels(f[1]) = SubSeq(line, 1, m)
  BY <1>5, <1>6
<1> QED BY <1>1, <1>7, SubSeqFull

-----------------------------------------------------------------------------
(* 4. The file of a page. *)
\* What a sequence of sequences is up to each of them.
Flattening(f, seqs) ==
  f = [i \in 1 .. Len(seqs) |-> IF i = 1 THEN seqs[i] ELSE f[i - 1] \o seqs[i]]

\* The function that FlattenSeq chooses exists ...
LEMMA FlatteningExists ==
  ASSUME NEW S, NEW seqs \in Seq(Seq(S))
  PROVE  \E f : Flattening(f, seqs)
<1> DEFINE m == Len(seqs)
           step == [i \in 1 .. m |-> [s \in Seq(S) |-> s \o seqs[i]]]
<1>1. m \in Nat /\ <<>> \in Seq(S) /\ \A i \in 1 .. m : seqs[i] \in Seq(S)
  BY EmptySeq, ElementOfSeq
<1>2. \A i \in 1 .. m, s \in Seq(S) : s \o seqs[i] \in Seq(S)
  BY <1>1, ConcatProperties
<1>3. step \in [1 .. m -> [Seq(S) -> Seq(S)]]
  BY <1>2
<1>4. PICK g : Stepping(g, Seq(S), m, <<>>, step)
  <2> HIDE DEF step, m
  <2> QED BY <1>1, <1>3, Steps
<1> DEFINE f == [i \in 1 .. m |-> g[i]]
<1>5. ASSUME NEW i \in 1 .. m PROVE g[i] = IF i = 1 THEN seqs[i] ELSE f[i - 1] \o seqs[i]
  <2>1. i - 1 \in 0 .. m /\ seqs[i] \in Seq(S)
    BY <1>1
  <2>2. g[i] = step[i][g[i - 1]] /\ g[i - 1] \in Seq(S) /\ g[0] = <<>>
    <3> HIDE DEF step
    <3> QED BY <1>4, <2>1 DEF Stepping
  <2>3. step[i] = [s \in Seq(S) |-> s \o seqs[i]]
    OBVIOUS
  <2> HIDE DEF step
  <2>4. g[i] = g[i - 1] \o seqs[i]
    BY <2>2, <2>3
  <2>5. CASE i = 1
    <3>1. g[i] = <<>> \o seqs[i]
      <4>1. i - 1 = 0
        BY <2>5
      <4> QED BY <2>2, <2>4, <4>1
    <3>2. <<>> \o seqs[i] = seqs[i]
      BY <2>1, ConcatEmptySeq
    <3> QED BY <2>5, <3>1, <3>2
  <2>6. CASE i # 1
    <3>1. i - 1 \in 1 .. m
      BY <1>1, <2>6
    <3>2. f[i - 1] = g[i - 1]
      BY <3>1
    <3> HIDE DEF f
    <3> QED BY <2>4, <2>6, <3>2, Zenon
  <2> QED BY <2>5, <2>6
<1>6. Flattening(f, seqs)
  BY <1>5 DEF Flattening
<1> QED BY <1>6

\* ... so that FlattenSeq is given by it ...
LEMMA FlattenUnfold ==
  ASSUME NEW S, NEW seqs \in Seq(Seq(S)), Len(seqs) > 0
  PROVE  \E f : /\ Flattening(f, seqs) /\ FlattenSeq(seqs) = f[Len(seqs)]
                /\ \A i \in 1 .. Len(seqs) : f[i] \in Seq(S)
<1> DEFINE m == Len(seqs)
           F == CHOOSE f : Flattening(f, seqs)
<1>1. m \in Nat /\ \A i \in 1 .. m : seqs[i] \in Seq(S)
  BY ElementOfSeq
<1>2. FlattenSeq(seqs) = F[m]
  <2>1. Len(seqs) # 0
    OBVIOUS
  <2> QED BY <2>1, Zenon DEF FlattenSeq, Flattening
<1>3. Flattening(F, seqs)
  BY FlatteningExists
<1> HIDE DEF F
<1> DEFINE X == {i \in Nat : i \in 1 .. m => F[i] \in Seq(S)}
<1>4. ASSUME NEW i \in Nat, \A j \in Nat : j < i => j \in X PROVE i \in X
  <2> SUFFICES ASSUME i \in 1 .. m PROVE F[i] \in Seq(S)
    OBVIOUS
  <2>1. CASE i = 1
    <3>1. F[i] = seqs[i]
      BY <1>3, <2>1, Zenon DEF Flattening
    <3> QED BY <1>1, <3>1
  <2>2. CASE i # 1
    <3>1. F[i] = F[i - 1] \o seqs[i]
      BY <1>3, <2>2, Zenon DEF Flattening
    <3>2. i - 1 \in Nat /\ i - 1 < i /\ i - 1 \in 1 .. m
      BY <1>1, <2>2
    <3>3. F[i - 1] \in Seq(S) /\ seqs[i] \in Seq(S)
      <4>1. i - 1 \in X
        BY <1>4, <3>2
      <4> QED BY <1>1, <3>2, <4>1
    <3>4. F[i - 1] \o seqs[i] \in Seq(S)
      BY <3>3, ConcatProperties
    <3> QED BY <3>1, <3>4
  <2> QED BY <2>1, <2>2
<1>5. \A i \in Nat : i \in X
  <2> HIDE DEF X
  <2> QED BY <1>4, Induction
<1>6. ASSUME NEW i \in 1 .. m PROVE F[i] \in Seq(S)
  <2>1. i \in Nat
    OBVIOUS
  <2>2. i \in X
    BY <1>5, <2>1
  <2> QED BY <2>2
<1> QED BY <1>2, <1>3, <1>6

\* ... and one sequence more is put behind the others.
LEMMA FlattenAppend ==
  ASSUME NEW S, NEW seqs \in Seq(Seq(S)), NEW s \in Seq(S)
  PROVE  /\ FlattenSeq(seqs) \in Seq(S)
         /\ FlattenSeq(Append(seqs, s)) = FlattenSeq(seqs) \o s
<1> DEFINE m == Len(seqs)
           more == Append(seqs, s)
<1>1. /\ more \in Seq(Seq(S)) /\ Len(more) = m + 1 /\ m \in Nat
      /\ \A i \in 1 .. m : more[i] = seqs[i]
      /\ more[m + 1] = s
  BY AppendProperties
<1> HIDE DEF more
<1>2. PICK h : Flattening(h, more) /\ FlattenSeq(more) = h[m + 1]
  <2>1. Len(more) > 0
    BY <1>1
  <2> QED BY <1>1, <2>1, FlattenUnfold
<1>3. m + 1 \in 1 .. Len(more)
  BY <1>1
<1>4. CASE m = 0
  <2>1. FlattenSeq(seqs) = seqs /\ seqs = <<>>
    BY <1>4 DEF FlattenSeq
  <2>2. m + 1 = 1
    BY <1>4
  <2>3. h[m + 1] = more[m + 1]
    BY <1>2, <1>3, <2>2, Zenon DEF Flattening
  <2>4. <<>> \o s = s /\ <<>> \in Seq(S)
    BY ConcatEmptySeq, EmptySeq
  <2> QED BY <1>1, <1>2, <2>1, <2>3, <2>4 DEF more
<1>5. CASE m > 0
  <2>1. PICK f : /\ Flattening(f, seqs) /\ FlattenSeq(seqs) = f[m]
                 /\ \A i \in 1 .. m : f[i] \in Seq(S)
    BY <1>5, FlattenUnfold
  <2> DEFINE X == {i \in Nat : i \in 1 .. m => h[i] = f[i]}
  <2>2. ASSUME NEW i \in Nat, \A j \in Nat : j < i => j \in X PROVE i \in X
    <3> SUFFICES ASSUME i \in 1 .. m PROVE h[i] = f[i]
      OBVIOUS
    <3>1. i \in 1 .. Len(more) /\ more[i] = seqs[i]
      BY <1>1
    <3>2. h[i] = IF i = 1 THEN seqs[i] ELSE h[i - 1] \o seqs[i]
      BY <1>2, <3>1, Zenon DEF Flattening
    <3>3. f[i] = IF i = 1 THEN seqs[i] ELSE f[i - 1] \o seqs[i]
      BY <2>1, Zenon DEF Flattening
    <3>4. i # 1 => h[i - 1] = f[i - 1]
      <4> SUFFICES ASSUME i # 1 PROVE h[i - 1] = f[i - 1]
        OBVIOUS
      <4>1. i - 1 \in Nat /\ i - 1 < i /\ i - 1 \in 1 .. m
        BY <1>1
      <4>2. i - 1 \in X
        BY <2>2, <4>1
      <4> QED BY <4>1, <4>2
    <3> QED BY <3>2, <3>3, <3>4, Zenon
  <2>3. m \in X
    <3> HIDE DEF X
    <3> QED BY <1>1, <2>2, Induction
  <2>4. m \in 1 .. m /\ m + 1 # 1 /\ m + 1 - 1 = m
    BY <1>1, <1>5
  <2>5. h[m] = f[m]
    BY <1>1, <2>3, <2>4
  <2>6. h[m + 1] = h[m] \o more[m + 1]
    <3>1. \A k \in 1 .. Len(more) : k # 1 => h[k] = h[k - 1] \o more[k]
      BY <1>2, Zenon DEF Flattening
    <3> DEFINE k == m + 1
    <3>2. k \in 1 .. Len(more) /\ k # 1 /\ k - 1 = m
      BY <1>3, <2>4
    <3> HIDE DEF k, m
    <3>3. h[k] = h[k - 1] \o more[k]
      BY <3>1, <3>2
    <3>4. h[k] = h[m] \o more[k]
      BY <3>2, <3>3, Zenon
    <3> QED BY <3>4 DEF k
  <2> QED BY <1>1, <1>2, <2>1, <2>4, <2>5, <2>6 DEF more
<1> QED BY <1>1, <1>4, <1>5

\* A row of the file, and the lines a reader makes of it.
FileRow == {row \in Seq(Nat) : row # <<>>}

RowsOf(row) == [j \in 1 .. row[1] + 1 |-> Pixels(Tail(row))]

Copies(line, n) == [j \in 1 .. n |-> line]

\* A copy more is put behind the others.
LEMMA CopiesTyped ==
  ASSUME NEW S, NEW line \in S, NEW n \in Nat
  PROVE  /\ Copies(line, n) \in Seq(S) /\ Len(Copies(line, n)) = n
         /\ Copies(line, n + 1) = Append(Copies(line, n), line)
<1>1. Copies(line, n) \in [1 .. n -> S] /\ Copies(line, n + 1) \in [1 .. n + 1 -> S]
      /\ n + 1 \in Nat
  BY DEF Copies
<1>2. Copies(line, n) \in Seq(S) /\ Copies(line, n + 1) \in Seq(S)
  <2>1. \A k \in Nat : [1 .. k -> S] \subseteq Seq(S)
    BY SeqDef, Zenon
  <2> QED BY <1>1, <2>1
<1>3. Len(Copies(line, n)) = n /\ Len(Copies(line, n + 1)) = n + 1
  BY <1>1, <1>2
<1>4. /\ \A i \in 1 .. n : Copies(line, n)[i] = line
      /\ \A i \in 1 .. n + 1 : Copies(line, n + 1)[i] = line
  BY DEF Copies
<1> DEFINE s == Copies(line, n)
           t == Copies(line, n + 1)
           u == Append(s, line)
<1>5. /\ u \in Seq(S) /\ Len(u) = Len(s) + 1
      /\ \A i \in 1 .. Len(s) : u[i] = s[i]
      /\ u[Len(s) + 1] = line
  BY <1>2, AppendProperties
<1> HIDE DEF s, t, u
<1>6. \A i \in 1 .. Len(t) : t[i] = u[i]
  BY <1>3, <1>4, <1>5 DEF s, t
<1>7. t = u
  BY <1>2, <1>3, <1>5, <1>6, SeqEqual DEF s, t
<1> QED BY <1>2, <1>3, <1>7 DEF s, t, u

\* What a reader makes of numbers is numbers.
LEMMA PixelsTyped ==
  ASSUME NEW bytes \in Seq(Nat)
  PROVE  Pixels(bytes) \in Seq(Nat)
<1>1. PICK g : /\ Unpacking(g, bytes) /\ Pixels(bytes) = g[1]
               /\ \A i \in 1 .. Len(bytes) + 1 : g[i] \in Seq(Nat)
  BY PixelsUnfold
<1> QED BY <1>1

\* ... and of a row of the file, lines.
LEMMA RowsOfTyped ==
  ASSUME NEW row \in FileRow
  PROVE  RowsOf(row) \in Seq(Seq(Nat))
<1>1. row[1] + 1 \in Nat /\ Tail(row) \in Seq(Nat)
  <2>1. row \in Seq(Nat) /\ row # <<>>
    BY DEF FileRow
  <2> QED BY <2>1, HeadTailProperties
<1>2. Pixels(Tail(row)) \in Seq(Nat)
  BY <1>1, PixelsTyped
<1>3. RowsOf(row) = Copies(Pixels(Tail(row)), row[1] + 1)
  BY DEF RowsOf, Copies
<1> QED BY <1>1, <1>2, <1>3, CopiesTyped

\* A row more in the file is its lines more in the page.
LEMMA DecodedAppend ==
  ASSUME NEW file \in Seq(FileRow), NEW row \in FileRow
  PROVE  /\ Decoded(file) \in Seq(Seq(Nat))
         /\ Decoded(Append(file, row)) = Decoded(file) \o RowsOf(row)
<1> DEFINE R(f) == [k \in 1 .. Len(f) |-> RowsOf(f[k])]
           more == Append(file, row)
           s == R(file)
           t == R(more)
           L == Seq(Seq(Nat))
<1>1. \A f : Decoded(f) = FlattenSeq(R(f))
  BY Zenon DEF Decoded, RowsOf
<1>2. /\ more \in Seq(FileRow) /\ Len(more) = Len(file) + 1
      /\ \A k \in 1 .. Len(file) : more[k] = file[k]
      /\ more[Len(file) + 1] = row
  BY AppendProperties
<1>3. \A f \in Seq(FileRow) : R(f) \in Seq(L) /\ Len(R(f)) = Len(f)
  <2> SUFFICES ASSUME NEW f \in Seq(FileRow) PROVE R(f) \in Seq(L) /\ Len(R(f)) = Len(f)
    OBVIOUS
  <2>1. \A k \in 1 .. Len(f) : RowsOf(f[k]) \in L
    BY RowsOfTyped, ElementOfSeq
  <2>2. R(f) \in [1 .. Len(f) -> L] /\ Len(f) \in Nat
    BY <2>1
  <2>3. R(f) \in Seq(L)
    <3> HIDE DEF R, L
    <3> QED BY <2>2, FunctionsAreSequences
  <2> QED BY <2>2, <2>3
<1>4. s \in Seq(L) /\ Len(s) = Len(file) /\ t \in Seq(L) /\ Len(t) = Len(file) + 1
      /\ RowsOf(row) \in L /\ Len(file) \in Nat
  <2> HIDE DEF R, L, more
  <2> QED BY <1>2, <1>3, RowsOfTyped DEF L
<1> DEFINE u == Append(s, RowsOf(row))
<1>5. u \in Seq(L) /\ Len(u) = Len(s) + 1 /\ \A k \in 1 .. Len(s) : u[k] = s[k]
  <2> HIDE DEF s, L
  <2> QED BY <1>4, AppendProperties
<1>6. u[Len(s) + 1] = RowsOf(row)
  <2> HIDE DEF s, L
  <2> QED BY <1>4, AppendProperties
<1>7. \A k \in 1 .. Len(file) : s[k] = RowsOf(file[k])
  OBVIOUS
<1>8. \A k \in 1 .. Len(file) + 1 : t[k] = RowsOf(more[k])
  <2> HIDE DEF more
  <2> QED BY <1>2
<1>9. \A k \in 1 .. Len(t) : t[k] = u[k]
  <2> SUFFICES ASSUME NEW k \in 1 .. Len(t) PROVE t[k] = u[k]
    OBVIOUS
  <2> HIDE DEF s, t, u, more, R, L
  <2>1. CASE k = Len(file) + 1
    BY <1>2, <1>4, <1>6, <1>8, <2>1
  <2>2. CASE k # Len(file) + 1
    <3>1. k \in 1 .. Len(file)
      BY <1>4, <2>2
    <3> QED BY <1>2, <1>4, <1>5, <1>7, <1>8, <3>1
  <2> QED BY <2>1, <2>2
<1>10. t = u
  <2> HIDE DEF s, t, u, L
  <2> QED BY <1>4, <1>5, <1>9, SeqEqual
<1>11. FlattenSeq(s) \in L /\ FlattenSeq(u) = FlattenSeq(s) \o RowsOf(row)
  <2> HIDE DEF s
  <2> QED BY <1>4, FlattenAppend
<1>12. Decoded(file) = FlattenSeq(s) /\ Decoded(more) = FlattenSeq(t)
  BY <1>1
<1> HIDE DEF s, t, u, R
<1> QED BY <1>10, <1>11, <1>12

\* An empty file has no lines.
LEMMA DecodedEmpty == Decoded(<<>>) = <<>>
<1>1. Len(<<>>) = 0
  OBVIOUS
<1> DEFINE s == [k \in 1 .. Len(<<>>) |->
                   [j \in 1 .. <<>>[k][1] + 1 |-> Pixels(Tail(<<>>[k]))]]
<1>2. s = <<>>
  BY <1>1
<1> HIDE DEF s
<1>3. FlattenSeq(s) = <<>>
  BY <1>1, <1>2 DEF FlattenSeq
<1> QED BY <1>3 DEF Decoded, s

\* A row that is written is read back as often as it came.
LEMMA EncodedRead ==
  ASSUME NEW line \in Seq(Nat), NEW n \in 1 .. MaxRepeat
  PROVE  EncodedRow(line, n) \in FileRow /\ RowsOf(EncodedRow(line, n)) = Copies(line, n)
<1> DEFINE p == Packets(line)
           b == (n - 1) % MaxRepeat
           row == <<b>> \o p
<1>1. p \in Seq(Nat)
  <2>1. PICK f : /\ Packing(f, line) /\ p = f[1]
                 /\ \A i \in 1 .. Len(line) + 1 : f[i] \in Seq(Nat)
    BY PacketsUnfold
  <2> QED BY <2>1
<1>2. b = n - 1 /\ b \in Nat
  <2>1. MaxRepeat \in Nat /\ MaxRepeat > 0 /\ n - 1 \in 0 .. MaxRepeat - 1
    BY LineAssumption
  <2> QED BY <2>1
<1>3. Pixels(p) = line
  BY LineReadsBack
<1> HIDE DEF p, b
<1>4. <<b>> \in Seq(Nat) /\ Len(<<b>>) = 1 /\ <<b>>[1] = b
  BY <1>2
<1>5. row \in Seq(Nat) /\ Len(row) = 1 + Len(p) /\ row[1] = b
  BY <1>1, <1>4, ConcatProperties
<1>6. row # <<>>
  <2> HIDE DEF row
  <2> QED BY <1>1, <1>5
<1>7. Tail(row) = p
  <2>1. /\ Tail(row) \in Seq(Nat) /\ Len(Tail(row)) = Len(row) - 1
        /\ \A i \in 1 .. Len(Tail(row)) : Tail(row)[i] = row[i + 1]
    <3> HIDE DEF row
    <3> QED BY <1>5, <1>6, HeadTailProperties
  <2>2. \A i \in 1 .. Len(p) : row[i + 1] = p[i]
    <3>1. EndsWith(row, 1, p)
      BY <1>1, <1>4, Joined
    <3> HIDE DEF row
    <3> QED BY <1>1, <3>1 DEF EndsWith
  <2> HIDE DEF row
  <2>3. \A i \in 1 .. Len(p) : Tail(row)[i] = p[i]
    BY <1>1, <1>5, <2>1, <2>2
  <2>4. Len(Tail(row)) = Len(p)
    BY <1>1, <1>5, <2>1
  <2> QED BY <1>1, <2>1, <2>3, <2>4, SeqEqual
<1>8. EncodedRow(line, n) = row
  BY DEF EncodedRow, p, b
<1> HIDE DEF row
<1>9. row[1] + 1 = n /\ Pixels(Tail(row)) = line
  <2>1. n \in Int
    OBVIOUS
  <2>2. row[1] + 1 = n
    BY <1>2, <1>5, <2>1
  <2> QED BY <1>3, <1>7, <2>2
<1>10. RowsOf(row) = Copies(line, n)
  BY <1>9 DEF RowsOf, Copies
<1> QED BY <1>5, <1>6, <1>8, <1>10 DEF FileRow

\* A raster being written, and what it is so far: the rows of its file and the
\* row held back, as often as it came.
Raster == [pixels : Seq(Nat), count : Nat, remaining : Nat, file : Seq(FileRow)]

Held(r) == r \in Raster /\ (r.remaining > 0 => r.count < MaxRepeat)

All(r) == Decoded(r.file) \o Copies(r.pixels, r.count)

Put(r) == IF r.remaining > 0 THEN All(r) ELSE Decoded(r.file)

\* A file is read as lines.
LEMMA DecodedTyped ==
  ASSUME NEW file \in Seq(FileRow)
  PROVE  Decoded(file) \in Seq(Seq(Nat))
<1>1. <<0>> \in FileRow
  BY DEF FileRow
<1> QED BY <1>1, DecodedAppend

\* With nothing held back a raster is its file.
LEMMA AllTyped ==
  ASSUME NEW r \in Raster
  PROVE  All(r) \in Seq(Seq(Nat)) /\ (r.count = 0 => All(r) = Decoded(r.file))
<1>1. r.file \in Seq(FileRow) /\ r.pixels \in Seq(Nat) /\ r.count \in Nat
  BY DEF Raster
<1> DEFINE d == Decoded(r.file)
           c == Copies(r.pixels, r.count)
           L == Seq(Nat)
<1>2. d \in Seq(L) /\ c \in Seq(L)
  BY <1>1, DecodedTyped, CopiesTyped
<1>3. r.count = 0 => c = <<>>
  BY DEF Copies
<1> HIDE DEF d, c, L
<1>4. d \o c \in Seq(L) /\ d \o <<>> = d
  BY <1>2, ConcatProperties, ConcatEmptySeq
<1> QED BY <1>3, <1>4 DEF All, d, c, L

\* Writing the row held back.
LEMMA Flushed ==
  ASSUME NEW r \in Raster, r.count \in 1 .. MaxRepeat
  PROVE  /\ RasterWrite(r) \in Raster
         /\ RasterWrite(r).pixels = r.pixels /\ RasterWrite(r).count = r.count
         /\ RasterWrite(r).remaining = r.remaining
         /\ Decoded(RasterWrite(r).file) = All(r)
<1> DEFINE e == EncodedRow(r.pixels, r.count)
           file == Append(r.file, e)
<1>1. r.file \in Seq(FileRow) /\ r.pixels \in Seq(Nat)
  BY DEF Raster
<1>2. e \in FileRow /\ RowsOf(e) = Copies(r.pixels, r.count)
  BY <1>1, EncodedRead
<1> HIDE DEF e
<1>3. file \in Seq(FileRow)
  BY <1>1, <1>2, AppendProperties
<1>4. Decoded(file) = Decoded(r.file) \o RowsOf(e)
  BY <1>1, <1>2, DecodedAppend
<1>5. RasterWrite(r) = [r EXCEPT !.file = file]
  BY DEF RasterWrite, e
<1> HIDE DEF file
<1> QED BY <1>2, <1>3, <1>4, <1>5 DEF Raster, All

\* A line taken is one more of the row held back.
LEMMA Taken ==
  ASSUME NEW b \in Raster, b.remaining > 0, b.count < MaxRepeat, NEW line \in Seq(Nat),
         b.count > 0 => b.pixels = line,
         NEW t, t = [b EXCEPT !.pixels = line, !.count = @ + 1, !.remaining = @ - 1]
  PROVE  /\ t \in Raster /\ t.count = b.count + 1 /\ t.count \in 1 .. MaxRepeat
         /\ t.remaining = b.remaining - 1
         /\ All(t) = Append(All(b), line)
<1>1. /\ t \in Raster /\ t.count = b.count + 1 /\ t.count \in 1 .. MaxRepeat
      /\ t.remaining = b.remaining - 1 /\ t.file = b.file /\ t.pixels = line
  <2> DEFINE c == b.count + 1
             m == b.remaining - 1
  <2>1. /\ b.count \in Nat /\ b.remaining \in Nat /\ b.file \in Seq(FileRow)
        /\ b = [pixels |-> b.pixels, count |-> b.count, remaining |-> b.remaining,
                file |-> b.file]
    BY DEF Raster
  <2>2. c \in Nat /\ c \in 1 .. MaxRepeat /\ m \in Nat
    BY <2>1, LineAssumption
  <2>3. t = [pixels |-> line, count |-> c, remaining |-> m, file |-> b.file]
    BY <2>1
  <2> HIDE DEF c, m
  <2>4. t.count = c /\ t.remaining = m /\ t.file = b.file /\ t.pixels = line
    BY ONLY <2>3
  <2>5. t \in Raster
    <3> DEFINE f == b.file
    <3>1. f \in Seq(FileRow) /\ line \in Seq(Nat) /\ c \in Nat /\ m \in Nat
          /\ t = [pixels |-> line, count |-> c, remaining |-> m, file |-> f]
      BY <2>1, <2>2, <2>3
    <3> HIDE DEF f
    <3> QED BY ONLY <3>1 DEF Raster
  <2> QED BY <2>2, <2>4, <2>5 DEF c, m
<1>2. b.count \in Nat /\ b.file \in Seq(FileRow)
  BY DEF Raster
<1> DEFINE d == Decoded(b.file)
           c == Copies(line, b.count)
           L == Seq(Nat)
<1>3. d \in Seq(L) /\ c \in Seq(L) /\ Copies(line, b.count + 1) = Append(c, line)
  BY <1>2, DecodedTyped, CopiesTyped
<1>4. Copies(b.pixels, b.count) = c
  BY <1>2 DEF Copies
<1>5. line \in L
  OBVIOUS
<1> HIDE DEF d, c, L
<1>6. d \o Append(c, line) = Append(d \o c, line)
  BY <1>3, <1>5
<1> QED BY <1>1, <1>3, <1>4, <1>6 DEF All, d

\* pwgRasterWritePixels: with a line written, what a reader makes of the file and of
\* the row held back is one line more, and that one, whatever the rows before it.
THEOREM LineWritten ==
  ASSUME NEW r, Held(r), r.remaining > 0, NEW line \in Seq(Nat)
  PROVE  /\ Held(WritePixels(r, line))
         /\ WritePixels(r, line).remaining = r.remaining - 1
         /\ Put(WritePixels(r, line)) = Append(Put(r), line)
<1> DEFINE same == r.count > 0 /\ line = r.pixels
           before == IF r.count > 0 /\ ~same
                     THEN [RasterWrite(r) EXCEPT !.count = 0] ELSE r
           taken == [before EXCEPT !.pixels = line, !.count = @ + 1, !.remaining = @ - 1]
           w == WritePixels(r, line)
<1>1. /\ r \in Raster /\ r.count \in 0 .. MaxRepeat - 1 /\ r.remaining > 0
      /\ MaxRepeat \in Nat /\ MaxRepeat > 1 /\ r.remaining \in Nat
  BY LineAssumption DEF Held, Raster
<1>2. w = IF taken.remaining = 0 THEN RasterWrite(taken)
          ELSE IF same /\ taken.count = MaxRepeat
          THEN [RasterWrite(taken) EXCEPT !.count = 0] ELSE taken
  BY <1>1 DEF WritePixels
<1>3. Put(r) = All(r)
  BY <1>1 DEF Put
<1>4. /\ before \in Raster /\ before.count < MaxRepeat /\ before.remaining = r.remaining
      /\ before.count > 0 => same /\ before.pixels = line
      /\ All(before) = All(r)
      /\ ~same => before.count = 0
  <2>1. CASE ~(r.count > 0 /\ ~same)
    <3>1. before = r
      BY <2>1
    <3> QED BY <1>1, <2>1, <3>1
  <2>2. CASE r.count > 0 /\ ~same
    <3> DEFINE v == RasterWrite(r)
    <3>1. before = [v EXCEPT !.count = 0]
      BY <2>2
    <3>2. r.count \in 1 .. MaxRepeat
      BY <1>1, <2>2
    <3>3. v \in Raster /\ v.remaining = r.remaining /\ Decoded(v.file) = All(r)
      BY <1>1, <3>2, Flushed
    <3> HIDE DEF v, before
    <3>4. before \in Raster /\ before.count = 0 /\ before.remaining = r.remaining
          /\ before.file = v.file
      BY <3>1, <3>3 DEF Raster
    <3>5. All(before) = Decoded(before.file)
      BY <3>4, AllTyped
    <3> QED BY <1>1, <3>3, <3>4, <3>5
  <2> QED BY <2>1, <2>2
<1> HIDE DEF before
<1>5. /\ taken \in Raster /\ taken.count = before.count + 1 /\ taken.count \in 1 .. MaxRepeat
      /\ taken.remaining = r.remaining - 1
      /\ All(taken) = Append(All(r), line)
  <2>1. before.remaining > 0 /\ before.count > 0 => before.pixels = line
    BY <1>1, <1>4
  <2>2. before.remaining > 0
    BY <1>1, <1>4
  <2>3. taken = [before EXCEPT !.pixels = line, !.count = @ + 1, !.remaining = @ - 1]
    OBVIOUS
  <2> HIDE DEF taken
  <2>4. before \in Raster /\ before.count < MaxRepeat
    BY <1>4
  <2>5. /\ taken \in Raster /\ taken.count = before.count + 1 /\ taken.count \in 1 .. MaxRepeat
        /\ taken.remaining = before.remaining - 1
        /\ All(taken) = Append(All(before), line)
    BY ONLY <2>1, <2>2, <2>3, <2>4, Taken, line \in Seq(Nat)
  <2> QED BY <1>4, <2>5
<1> HIDE DEF taken
<1>6. /\ RasterWrite(taken) \in Raster /\ RasterWrite(taken).remaining = r.remaining - 1
      /\ Decoded(RasterWrite(taken).file) = Append(All(r), line)
  BY <1>5, Flushed
<1>7. CASE taken.remaining = 0
  <2>1. w = RasterWrite(taken) /\ w.remaining = 0
    BY <1>2, <1>5, <1>6, <1>7
  <2> HIDE DEF w
  <2> QED BY <1>3, <1>5, <1>6, <1>7, <2>1 DEF Held, Put, w
<1>8. CASE taken.remaining # 0 /\ same /\ taken.count = MaxRepeat
  <2> DEFINE v == RasterWrite(taken)
  <2>1. w = [v EXCEPT !.count = 0]
    BY <1>2, <1>8
  <2> HIDE DEF v, w
  <2>2. w \in Raster /\ w.count = 0 /\ w.remaining = r.remaining - 1 /\ w.file = v.file
    BY <1>6, <2>1 DEF Raster, v
  <2>3. All(w) = Decoded(w.file)
    BY <2>2, AllTyped
  <2> QED BY <1>1, <1>3, <1>5, <1>6, <1>8, <2>2, <2>3 DEF Held, Put, v, w
<1>9. CASE taken.remaining # 0 /\ ~(same /\ taken.count = MaxRepeat)
  <2>1. w = taken
    BY <1>2, <1>9
  <2>2. taken.count < MaxRepeat
    BY <1>1, <1>4, <1>5, <1>9
  <2>3. taken.remaining > 0
    BY <1>1, <1>5, <1>9
  <2> HIDE DEF w
  <2> QED BY <1>3, <1>5, <2>1, <2>2, <2>3 DEF Held, Put, w
<1> QED BY <1>7, <1>8, <1>9

-----------------------------------------------------------------------------
(* 5. The picture. *)
\* The first n rows of s.
Firsts(s, n) == [j \in 1 .. n |-> s[j]]

\* The first n + 1 rows are the first n and one more.
LEMMA OneMoreRow ==
  ASSUME NEW s, NEW n \in Nat
  PROVE  Firsts(s, n + 1) = Append(Firsts(s, n), s[n + 1]) /\ Firsts(s, 0) = <<>>
<1> DEFINE S == {s[j] : j \in 1 .. n + 1}
           a == Firsts(s, n)
           b == Firsts(s, n + 1)
           c == Append(a, s[n + 1])
<1>1. n + 1 \in Nat /\ \A j \in 1 .. n + 1 : s[j] \in S
  OBVIOUS
<1> HIDE DEF S
<1>2. a \in Seq(S) /\ b \in Seq(S) /\ Len(a) = n /\ Len(b) = n + 1
  <2>1. \A k \in Nat : [1 .. k -> S] \subseteq Seq(S)
    BY SeqDef, Zenon
  <2>2. a \in [1 .. n -> S] /\ b \in [1 .. n + 1 -> S]
    BY <1>1 DEF Firsts
  <2>3. a \in Seq(S) /\ b \in Seq(S)
    BY <1>1, <2>1, <2>2
  <2> QED BY <1>1, <2>2, <2>3
<1>3. (\A i \in 1 .. n : a[i] = s[i]) /\ \A i \in 1 .. n + 1 : b[i] = s[i]
  BY DEF Firsts
<1>4. s[n + 1] \in S
  BY <1>1
<1>5. /\ c \in Seq(S) /\ Len(c) = n + 1 /\ c[n + 1] = s[n + 1]
      /\ \A i \in 1 .. n : c[i] = a[i]
  <2> HIDE DEF a
  <2> QED BY <1>2, <1>4, AppendProperties
<1> HIDE DEF a, b, c
<1>6. \A i \in 1 .. Len(b) : b[i] = c[i]
  BY <1>2, <1>3, <1>5
<1>7. b = c
  BY <1>2, <1>5, <1>6, SeqEqual
<1> QED BY <1>7 DEF a, b, c, Firsts

\* A row written to the file of the page.
LEMMA RowTaken ==
  ASSUME NEW line \in Seq(Nat), Held(outras), WriteRow(line)
  PROVE  /\ Held(outras')
         /\ outras'.remaining = IF outras.remaining = 0 THEN 0 ELSE outras.remaining - 1
         /\ full => full'
         /\ ~full' /\ outras.remaining > 0 => Put(outras') = Append(Put(outras), line)
<1> DEFINE r == WritePixels(outras, line)
<1>1. outras \in Raster /\ outras.remaining \in Nat
  BY DEF Held, Raster
<1>2. /\ Held(r)
      /\ r.remaining = IF outras.remaining = 0 THEN 0 ELSE outras.remaining - 1
      /\ outras.remaining > 0 => Put(r) = Append(Put(outras), line)
  <2>1. CASE outras.remaining = 0
    <3>1. r = outras
      BY <2>1 DEF WritePixels
    <3> HIDE DEF r
    <3> QED BY <2>1, <3>1
  <2>2. CASE outras.remaining # 0
    <3>1. outras.remaining > 0
      BY <1>1, <2>2
    <3> QED BY <2>2, <3>1, LineWritten
  <2> QED BY <2>1, <2>2
<1>3. \/ outras' = r /\ UNCHANGED full
      \/ outras' = [r EXCEPT !.file = outras.file] /\ full' = TRUE
  BY DEF WriteRow
<1> HIDE DEF r
<1>4. CASE outras' = r /\ UNCHANGED full
  BY <1>2, <1>4
<1>5. CASE outras' = [r EXCEPT !.file = outras.file] /\ full' = TRUE
  <2>1. r \in Raster /\ outras.file \in Seq(FileRow)
    BY <1>1, <1>2 DEF Held, Raster
  <2>2. outras' \in Raster /\ outras'.remaining = r.remaining /\ outras'.count = r.count
    BY <1>5, <2>1 DEF Raster
  <2>3. Held(outras')
    BY <1>2, <2>2 DEF Held
  <2> QED BY <1>2, <1>5, <2>2, <2>3
<1> QED BY <1>3, <1>4, <1>5

-----------------------------------------------------------------------------
(* The rows of the picture. *)

\* The lines that the first n rows are made of have been read.
Seen(n) == \A j \in 0 .. n - 1 : Nearest(j, inheader.h, DstH) + 1 \in 1 .. Len(given)

\* A page on its side: its rows mirrored; and from the last of them up.
Aside == [j \in 1 .. OutH |-> Reverse(Row(j))]
TurnedRows == [j \in 1 .. DstH |-> Reverse(Row(DstH + 1 - j))]

\* What SizesFit says of the heights, of the widths.
LEMMA WidthsFit ==
  ASSUME Typed, Sized
  PROVE  /\ OutW \in Nat /\ DstW \in 0 .. OutW /\ OfsW \in Nat
         /\ inheader.w \in Nat /\ inheader.w > 0
<1>1. /\ inheader.h \in Nat /\ inheader.h > 0 /\ inheader.w \in Nat /\ inheader.w > 0
      /\ OutH \in Nat /\ OutW \in Nat
  <2>1. inheader.w \in Sizes /\ inheader.h \in Sizes
    BY DEF Sized
  <2>2. job.width \in Printable /\ job.height \in Printable
    BY DEF Typed
  <2>3. /\ inheader.w \in Nat /\ inheader.w > 0 /\ inheader.h \in Nat /\ inheader.h > 0
        /\ job.width \in Nat /\ job.height \in Nat
    <3>1. \A s \in Sizes : s \in Nat /\ s > 0
      BY RasterAssumption
    <3>2. \A p \in Printable : p \in Nat
      BY RasterAssumption
    <3> QED BY <2>1, <2>2, <3>1, <3>2
  <2> QED BY <2>3 DEF OutH, OutW
<1>2. ~Narrow => inheader.w * OutH <= OutW * inheader.h
  <2>1. inheader.w * OutH = OutH * inheader.w /\ OutH * inheader.w \in Int
        /\ OutW * inheader.h \in Int
    BY <1>1
  <2> QED BY <2>1 DEF Narrow
<1>3. DstW \in 0 .. OutW
  <2>1. CASE Narrow
    BY <1>1, <2>1 DEF DstW
  <2>2. CASE ~Narrow
    <3>1. Rounded(inheader.w, OutH, inheader.h) \in 0 .. OutW
      BY <1>1, <1>2, <2>2, RoundedFits
    <3> QED BY <2>2, <3>1 DEF DstW
  <2> QED BY <2>1, <2>2
<1>4. OfsW \in Nat
  BY <1>1, <1>3 DEF OfsW
<1> QED BY <1>1, <1>3, <1>4

\* The nearest position is one.
LEMMA NearestIn ==
  ASSUME NEW src \in Nat, src > 0, NEW dst \in Nat, dst > 1, NEW x \in 0 .. dst - 1
  PROVE  Nearest(x, src, dst) \in 0 .. src - 1
<1> DEFINE d == dst - 1
           n == src - 1
           a == 2 * x * n + d
           q == a \div (2 * d)
           r == a % (2 * d)
           xn == x * n
           dn == d * n
<1>1. d \in Nat /\ d > 0 /\ n \in Nat /\ x \in Nat /\ x <= d
  OBVIOUS
<1> HIDE DEF d, n
<1>2. xn \in Nat /\ dn \in Nat /\ xn <= dn /\ a = 2 * xn + d
  <2>1. n * x <= n * d
    BY <1>1, Times
  <2> QED BY <1>1, <2>1
<1>3. a \in Nat /\ 2 * d \in Nat /\ 2 * d > 0
  BY <1>1, <1>2
<1>4. q \in Nat /\ r \in Nat /\ a = (2 * d) * q + r
  <2> HIDE DEF a
  <2> QED BY <1>3, Division
<1>5. ASSUME q >= n + 1 PROVE FALSE
  <2>1. (2 * d) * (n + 1) <= (2 * d) * q
    BY <1>1, <1>3, <1>4, <1>5, Times
  <2>2. (2 * d) * (n + 1) = 2 * dn + 2 * d
    BY <1>1
  <2> HIDE DEF q, r, a, xn, dn
  <2>3. (2 * d) * q \in Int
    BY <1>3, <1>4
  <2> QED BY <1>1, <1>2, <1>4, <2>1, <2>2, <2>3
<1>6. q \in 0 .. n
  <2> HIDE DEF q
  <2> QED BY <1>1, <1>4, <1>5
<1>7. Nearest(x, src, dst) = q
  <2>1. 2 * x * (src - 1) + dst - 1 = 2 * x * n + d
    BY DEF n, d
  <2> QED BY <2>1 DEF Nearest, d
<1> QED BY <1>6, <1>7 DEF n

\* The pixels of a line that is scaled are pixels ...
LEMMA ScaledTyped ==
  ASSUME NEW line \in Seq(Pixel), Len(line) > 0, NEW dst \in Nat
  PROVE  \A x \in 1 .. dst : dst <= 1 \/ Scaled(line, dst)[x] \in Pixel
<1> SUFFICES ASSUME NEW x \in 1 .. dst, dst > 1 PROVE Scaled(line, dst)[x] \in Pixel
  OBVIOUS
<1>1. Scaled(line, dst)[x] = line[Nearest(x - 1, Len(line), dst) + 1]
  BY DEF Scaled
<1>2. Nearest(x - 1, Len(line), dst) \in 0 .. Len(line) - 1
  BY NearestIn
<1> QED BY <1>1, <1>2

\* ... and so is the only one of a line of width 1.
LEMMA FirstPixel ==
  ASSUME NEW line \in Seq(Pixel), Len(line) > 0
  PROVE  Scaled(line, 1)[1] \in Pixel
<1>1. SubSeq(line, 1, 1)[1] = line[1]
  BY SubSeqProperties
<1> QED BY <1>1 DEF Scaled

\* Every line scaled and put between its margins is a line of the sheet.
LEMMA LineTyped ==
  ASSUME Typed, Sized, NEW line \in Seq(Pixel), Len(line) > 0
  PROVE  /\ [x \in 1 .. OutW |->
               IF x \in OfsW + 1 .. OfsW + DstW THEN Scaled(line, DstW)[x - OfsW]
               ELSE White] \in Seq(Pixel)
         /\ Resized(line) = [x \in 1 .. OutW |->
               IF x \in OfsW + 1 .. OfsW + DstW THEN Scaled(line, DstW)[x - OfsW]
               ELSE White]
<1>1. OutW \in Nat /\ DstW \in Nat /\ OfsW \in Nat
  BY WidthsFit
<1>2. HExtend(line, DstW) = Scaled(line, DstW)
  BY <1>1, ScaledLine
<1>3. \A x \in 1 .. DstW : Scaled(line, DstW)[x] \in Pixel
  <2>1. CASE DstW <= 1
    <3> SUFFICES ASSUME NEW x \in 1 .. DstW PROVE Scaled(line, DstW)[x] \in Pixel
      OBVIOUS
    <3>1. x = 1 /\ DstW = 1
      BY <1>1, <2>1
    <3> QED BY <3>1, FirstPixel
  <2>2. CASE ~(DstW <= 1)
    BY <1>1, <2>2, ScaledTyped
  <2> QED BY <2>1, <2>2
<1> DEFINE sc == Scaled(line, DstW)
           s == [x \in 1 .. OutW |->
                   IF x \in OfsW + 1 .. OfsW + DstW THEN sc[x - OfsW] ELSE White]
<1>4. s \in [1 .. OutW -> Pixel]
  <2>1. \A x \in 1 .. OutW : x \in OfsW + 1 .. OfsW + DstW => sc[x - OfsW] \in Pixel
    <3>1. \A x \in 1 .. OutW : x \in OfsW + 1 .. OfsW + DstW => x - OfsW \in 1 .. DstW
      BY <1>1
    <3> HIDE DEF sc
    <3> QED BY <1>3, <3>1 DEF sc
  <2> HIDE DEF sc
  <2> QED BY <2>1, RasterAssumption
<1>5. s \in Seq(Pixel)
  <2>1. [1 .. OutW -> Pixel] \subseteq Seq(Pixel)
    BY <1>1, SeqDef, Zenon
  <2> HIDE DEF s
  <2> QED BY <1>4, <2>1
<1>6. Resized(line) = s
  BY <1>2 DEF Resized
<1> QED BY <1>5, <1>6

\* A white line is the same from both sides.
LEMMA WhiteRow ==
  ASSUME Typed, Sized
  PROVE  WhiteLine(OutW) \in Seq(Pixel) /\ Reverse(WhiteLine(OutW)) = WhiteLine(OutW)
<1>1. OutW \in Nat
  BY WidthsFit
<1>2. WhiteLine(OutW) \in Seq(Pixel) /\ Len(WhiteLine(OutW)) = OutW
  BY <1>1, LinesTyped DEF WhiteLine
<1>3. Reverse(WhiteLine(OutW)) = [i \in 1 .. OutW |-> WhiteLine(OutW)[(OutW - i) + 1]]
  BY <1>2, Zenon DEF Reverse
<1>4. \A i \in 1 .. OutW : WhiteLine(OutW)[(OutW - i) + 1] = White
  <2>1. \A i \in 1 .. OutW : (OutW - i) + 1 \in 1 .. OutW
    BY <1>1
  <2> QED BY <2>1 DEF WhiteLine
<1>5. [i \in 1 .. OutW |-> WhiteLine(OutW)[(OutW - i) + 1]] = WhiteLine(OutW)
  <2> DEFINE f == [i \in 1 .. OutW |-> WhiteLine(OutW)[(OutW - i) + 1]]
  <2>1. \A i \in 1 .. OutW : f[i] = White
    BY <1>4
  <2> HIDE DEF f
  <2>2. f = [i \in 1 .. OutW |-> f[i]]
    BY DEF f
  <2> QED BY <2>1, <2>2 DEF f, WhiteLine
<1> QED BY <1>2, <1>3, <1>5

\* A sequence mirrored is one.
LEMMA ReverseTyped ==
  ASSUME NEW S, NEW s \in Seq(S)
  PROVE  Reverse(s) \in Seq(S)
<1>1. Reverse(s) \in [1 .. Len(s) -> S] /\ Len(s) \in Nat
  <2>1. \A i \in 1 .. Len(s) : (Len(s) - i) + 1 \in 1 .. Len(s)
    OBVIOUS
  <2> QED BY <2>1 DEF Reverse
<1>2. \A k \in Nat : [1 .. k -> S] \subseteq Seq(S)
  BY SeqDef, Zenon
<1> QED BY <1>1, <1>2

\* The rows made so far of a page.
Made == CASE pc = "top" -> y
          [] pc \in {"data", "read"} -> OfsH + y
          [] pc = "bottom" -> OfsH + DstH + y
          [] OTHER -> OutH

Lines ==
  /\ Creating \/ Finished =>
       /\ in_ptr \in Line(inheader.w)
       /\ given \in Seq(Line(inheader.w))
       /\ given # <<>> => in_ptr = given[Len(given)]
  /\ pc \in {"data", "read"} => Seen(y)
  /\ pc \in {"bottom", "reread"} \/ Finished => Seen(DstH)

Counted ==
  /\ pc = "top" => y <= OfsH
  /\ pc \in {"data", "read"} => y <= DstH
  /\ pc = "bottom" => y <= BottomMargin
  /\ pc = "reread" /\ Rotated => y <= DstH /\ outras.remaining = OutH - y
  /\ Finished /\ WasRotated => outras.remaining = OutH - DstH

Upright ==
  /\ Creating /\ ~Rotated /\ ~full => Put(outras) = Firsts(Picture, Made)
  /\ Finished /\ ~WasRotated /\ ~full => Put(outras) = Picture

UpsideDown ==
  /\ Creating /\ Rotated => temp = Firsts(Aside, Made)
  /\ Creating /\ Rotated /\ pc # "reread" => outras = NewRaster(OutH)
  /\ pc = "reread" /\ Rotated /\ ~full => Put(outras) = Firsts(TurnedRows, y)
  /\ Finished /\ WasRotated /\ ~full => Put(outras) = TurnedRows

PInv == Held(outras) /\ Lines /\ Counted /\ Upright /\ UpsideDown

-----------------------------------------------------------------------------
\* As SizesKept.
LEMMA WidthsKept ==
  ASSUME UNCHANGED <<job, inheader>>
  PROVE  OutW' = OutW /\ DstW' = DstW /\ OfsW' = OfsW
BY DEF OutW, OutH, Narrow, DstW, Rounded, OfsW

\* The rows are those of the sizes and of the lines read.
LEMMA RowKept ==
  ASSUME UNCHANGED <<job, inheader, given>>
  PROVE  /\ \A j : Row(j)' = Row(j)
         /\ \A n : Seen(n)' = Seen(n)
BY SizesKept, WidthsKept DEF Row, Seen

\* ... and so are the pages made of them.
LEMMA PictureKept ==
  ASSUME UNCHANGED <<job, inheader, given>>
  PROVE  Picture' = Picture /\ Aside' = Aside /\ TurnedRows' = TurnedRows
<1>1. OutH' = OutH /\ DstH' = DstH
  BY SizesKept
<1>2. \A j : Row(j)' = Row(j)
  BY RowKept
<1> QED BY <1>1, <1>2, Zenon DEF Picture, Aside, TurnedRows

\* Reading on changes none of the rows whose lines have been read.
LEMMA RowsSeenKept ==
  ASSUME Typed, Sized, UNCHANGED <<job, inheader>>, NEW line, given' = Append(given, line),
         NEW n \in Nat, Seen(n)
  PROVE  /\ Seen(n)'
         /\ \A j \in Nat : j \in OfsH + 1 .. OfsH + DstH => (j <= OfsH + n => Row(j)' = Row(j))
         /\ \A j \in Nat : j \notin OfsH + 1 .. OfsH + DstH => Row(j)' = Row(j)
<1>1. \A k \in 1 .. Len(given) : given'[k] = given[k] /\ k \in 1 .. Len(given')
  BY DEF Typed
<1>2. /\ OfsH' = OfsH /\ DstH' = DstH /\ OutW' = OutW /\ DstW' = DstW /\ OfsW' = OfsW
      /\ OfsH \in Nat /\ inheader' = inheader
  BY SizesKept, WidthsKept, SizesFit
<1>3. Seen(n)'
  BY <1>1, <1>2 DEF Seen
<1>4. ASSUME NEW j \in Nat, j \notin OfsH + 1 .. OfsH + DstH PROVE Row(j)' = Row(j)
  BY <1>2, <1>4 DEF Row
<1>5. ASSUME NEW j \in Nat, j \in OfsH + 1 .. OfsH + DstH, j <= OfsH + n
      PROVE  Row(j)' = Row(j)
  <2> DEFINE k == Nearest(j - OfsH - 1, inheader.h, DstH) + 1
  <2>1. j - OfsH - 1 \in 0 .. n - 1
    BY <1>2, <1>5
  <2>2. given'[k] = given[k]
    BY <1>1, <2>1 DEF Seen
  <2>3. k' = k
    BY <1>2
  <2> HIDE DEF k
  <2>4. Row(j) = LET l == Scaled(given[k], DstW)
                 IN  [x \in 1 .. OutW |->
                        IF x \in OfsW + 1 .. OfsW + DstW THEN l[x - OfsW] ELSE White]
    BY <1>5 DEF Row, k
  <2>5. Row(j)' = LET l == Scaled(given'[k], DstW)
                  IN  [x \in 1 .. OutW |->
                        IF x \in OfsW + 1 .. OfsW + DstW THEN l[x - OfsW] ELSE White]
    BY <1>2, <1>5, <2>3 DEF Row, k
  <2> QED BY <2>2, <2>4, <2>5
<1> QED BY <1>3, <1>4, <1>5

\* So the rows made so far stay what they were.
LEMMA FirstsSeenKept ==
  ASSUME Typed, Sized, UNCHANGED <<job, inheader>>, NEW line, given' = Append(given, line),
         NEW n \in Nat, Seen(n), n <= DstH
  PROVE  /\ Firsts(Picture', OfsH + n) = Firsts(Picture, OfsH + n)
         /\ Firsts(Aside', OfsH + n) = Firsts(Aside, OfsH + n)
<1>1. OutH' = OutH /\ OfsH \in Nat /\ OutH \in Nat /\ OfsH + n <= OutH
  BY SizesKept, SizesFit
<1>2. \A j \in 1 .. OfsH + n : Row(j)' = Row(j)
  <2> TAKE j \in 1 .. OfsH + n
  <2>1. j \in Nat /\ j <= OfsH + n
    BY <1>1
  <2> QED BY <2>1, RowsSeenKept
<1>3. \A j \in 1 .. OfsH + n : j \in 1 .. OutH
  BY <1>1
<1>4. \A j \in 1 .. OfsH + n : Picture[j] = Row(j) /\ Picture'[j] = Row(j)'
                               /\ Aside[j] = Reverse(Row(j)) /\ Aside'[j] = Reverse(Row(j)')
  BY <1>1, <1>3 DEF Picture, Aside
<1>5. \A j \in 1 .. OfsH + n : Picture'[j] = Picture[j] /\ Aside'[j] = Aside[j]
  BY <1>2, <1>4
<1> QED BY <1>5 DEF Firsts

\* The row at hand is made of the line read last.
LEMMA RowAtHand ==
  ASSUME Typed, Sized, Reading, Lines, pc = "read", cnt = 0
  PROVE  /\ Row(OfsH + y + 1) = Resized(in_ptr) /\ Resized(in_ptr) \in Seq(Pixel)
         /\ Seen(y + 1)
<1>1. y \in Nat /\ y < DstH /\ DstH \in Nat /\ DstH > 1 /\ OfsH \in Nat
      /\ inheader.h \in Nat /\ inheader.h > 0
  BY SizesFit DEF Typed, Reading, Creating
<1>2. Len(given) = prev_pos + 1 /\ At(prev_pos, cursor.rest, y)
      /\ prev_pos \in Int /\ cursor.rest \in Int
  BY DEF Reading, Creating, Typed
<1>3. prev_pos = Nearest(y, inheader.h, DstH)
  <2>1. /\ prev_pos * (DstH - 1) + cursor.rest = y * (inheader.h - 1)
        /\ -(DstH - 1) <= 2 * cursor.rest /\ 2 * cursor.rest < DstH - 1
    BY <1>2 DEF At, D
  <2> DEFINE e == cursor.rest
             h == inheader.h
             q == DstH
  <2> HIDE DEF e, h, q
  <2> QED BY <1>1, <1>2, <2>1, PositionNearest DEF e, h, q
<1>4. prev_pos \in 0 .. inheader.h - 1
  <2>1. y \in 0 .. DstH - 1
    BY <1>1
  <2> QED BY <1>1, <1>3, <2>1, NearestIn
<1>5. in_ptr = given[prev_pos + 1] /\ prev_pos + 1 \in 1 .. Len(given)
  <2>1. given # <<>>
    BY <1>2, <1>4 DEF Typed
  <2> QED BY <1>2, <1>4, <2>1 DEF Lines, Creating
<1>6. in_ptr \in Seq(Pixel) /\ Len(in_ptr) > 0
  <2>1. inheader.w \in Nat /\ inheader.w > 0
    BY WidthsFit
  <2>2. in_ptr \in Line(inheader.w)
    BY DEF Lines, Creating
  <2>3. in_ptr \in Seq(Pixel)
    BY DEF Typed
  <2>4. DOMAIN in_ptr = 1 .. inheader.w
    BY <2>2 DEF Line
  <2>5. Len(in_ptr) = inheader.w
    BY <2>1, <2>3, <2>4
  <2> QED BY <2>1, <2>3, <2>5
<1> DEFINE j == OfsH + y + 1
<1>7. j \in OfsH + 1 .. OfsH + DstH /\ j - OfsH - 1 = y
  BY <1>1
<1> HIDE DEF j
<1>8. given[Nearest(j - OfsH - 1, inheader.h, DstH) + 1] = in_ptr
  BY <1>3, <1>5, <1>7
<1>9. Row(j) = LET l == Scaled(in_ptr, DstW)
               IN  [x \in 1 .. OutW |->
                      IF x \in OfsW + 1 .. OfsW + DstW THEN l[x - OfsW] ELSE White]
  BY <1>7, <1>8 DEF Row
<1>10. Row(j) = Resized(in_ptr) /\ Resized(in_ptr) \in Seq(Pixel)
  BY <1>6, <1>9, LineTyped
<1>11. Seen(y + 1)
  <2>1. ASSUME NEW i \in 0 .. (y + 1) - 1
        PROVE  Nearest(i, inheader.h, DstH) + 1 \in 1 .. Len(given)
    <3>1. CASE i = y
      BY <1>3, <1>5, <3>1
    <3>2. CASE i # y
      <4>1. i \in 0 .. y - 1
        BY <1>1, <3>2
      <4> QED BY <4>1 DEF Lines, Seen
    <3> QED BY <3>1, <3>2
  <2> QED BY <2>1 DEF Seen
<1> QED BY <1>10, <1>11 DEF j

\* Pixels are numbers.
LEMMA PixelNumbers == Seq(Pixel) \subseteq Seq(Nat)
<1> SUFFICES ASSUME NEW s \in Seq(Pixel) PROVE s \in Seq(Nat)
  OBVIOUS
<1>1. s \in [1 .. Len(s) -> Nat] /\ Len(s) \in Nat
  <2>1. \A i \in 1 .. Len(s) : s[i] \in Pixel
    BY ElementOfSeq
  <2>2. \A p \in Pixel : p \in Nat
    BY RasterAssumption
  <2> QED BY <2>1, <2>2
<1>2. \A k \in Nat : [1 .. k -> Nat] \subseteq Seq(Nat)
  BY FunctionsAreSequences
<1> QED BY <1>1, <1>2

\* The rows of a page whose lines have been read are lines of numbers.
LEMMA RowTyped ==
  ASSUME Typed, Sized, given \in Seq(Line(inheader.w)), Seen(DstH), NEW j \in 1 .. OutH
  PROVE  Row(j) \in Seq(Nat) /\ Reverse(Row(j)) \in Seq(Nat)
<1>1. Row(j) \in Seq(Pixel)
  <2>1. CASE j \notin OfsH + 1 .. OfsH + DstH
    BY <2>1, WhiteRow DEF Row
  <2>2. CASE j \in OfsH + 1 .. OfsH + DstH
    <3> DEFINE l == given[Nearest(j - OfsH - 1, inheader.h, DstH) + 1]
    <3>1. j - OfsH - 1 \in 0 .. DstH - 1
      BY <2>2, SizesFit
    <3>2. l \in Line(inheader.w)
      BY <3>1 DEF Seen
    <3>3. inheader.w \in Nat /\ inheader.w > 0
      BY WidthsFit
    <3> HIDE DEF l
    <3>4. l \in Seq(Pixel) /\ Len(l) > 0
      <4>1. l \in Seq(Pixel)
        BY <3>2, <3>3, LinesTyped
      <4>2. DOMAIN l = 1 .. inheader.w
        BY <3>2 DEF Line
      <4> QED BY <3>3, <4>1, <4>2
    <3>5. Row(j) = LET sc == Scaled(l, DstW)
                   IN  [x \in 1 .. OutW |->
                          IF x \in OfsW + 1 .. OfsW + DstW THEN sc[x - OfsW] ELSE White]
      BY <2>2 DEF Row, l
    <3> QED BY <3>4, <3>5, LineTyped
  <2> QED BY <2>1, <2>2
<1>2. Seq(Pixel) \subseteq Seq(Nat)
  BY PixelNumbers
<1> QED BY <1>1, <1>2, ReverseTyped

\* A new raster is empty.
LEMMA NewRasterHeld ==
  ASSUME NEW n \in Nat
  PROVE  Held(NewRaster(n)) /\ Put(NewRaster(n)) = <<>> /\ NewRaster(n).remaining = n
<1> DEFINE r == NewRaster(n)
<1>1. r.pixels = <<>> /\ r.count = 0 /\ r.remaining = n /\ r.file = <<>>
  BY DEF NewRaster
<1>2. r \in Raster
  <2>1. <<>> \in Seq(Nat) /\ <<>> \in Seq(FileRow)
    BY EmptySeq
  <2> QED BY <2>1 DEF NewRaster, Raster
<1>3. 0 < MaxRepeat
  BY LineAssumption
<1> HIDE DEF r
<1>4. All(r) = <<>> /\ Decoded(r.file) = <<>>
  <2>1. All(r) = Decoded(r.file)
    BY <1>1, <1>2, AllTyped
  <2> QED BY <1>1, <2>1, DecodedEmpty
<1> QED BY <1>1, <1>2, <1>3, <1>4 DEF Held, Put, r

\* The next row goes to the page's file, or aside.
LEMMA NextRowPut ==
  ASSUME IInv, Held(outras), Creating, UNCHANGED <<job, inheader, given>>,
         NEW m \in Nat, m < OutH, ~Rotated => outras.remaining > 0,
         NEW line, Row(m + 1) \in Seq(Nat), PutLine(line),
         line = IF Rotated THEN Reverse(Row(m + 1)) ELSE Row(m + 1),
         Rotated => temp = Firsts(Aside, m),
         ~Rotated /\ ~full => Put(outras) = Firsts(Picture, m)
  PROVE  /\ Held(outras')
         /\ Rotated => temp' = Firsts(Aside', m + 1) /\ outras' = outras
         /\ ~Rotated /\ ~full' => Put(outras') = Firsts(Picture', m + 1)
<1>1. Sized
  BY DEF IInv, Pages, Creating
<1>2. m + 1 \in 1 .. OutH
  BY <1>1, SizesFit DEF IInv
<1>3. Picture' = Picture /\ Aside' = Aside
  BY PictureKept
<1>4. Picture[m + 1] = Row(m + 1) /\ Aside[m + 1] = Reverse(Row(m + 1))
  BY <1>2 DEF Picture, Aside
<1>5. CASE Rotated
  <2>1. temp' = Append(temp, line) /\ outras' = outras
    BY <1>5 DEF PutLine
  <2>2. Firsts(Aside, m + 1) = Append(Firsts(Aside, m), Aside[m + 1])
    BY OneMoreRow
  <2> QED BY <1>3, <1>4, <1>5, <2>1, <2>2
<1>6. CASE ~Rotated
  <2>1. WriteRow(line) /\ line = Row(m + 1) /\ line \in Seq(Nat)
    BY <1>6 DEF PutLine
  <2>2. /\ Held(outras')
        /\ full => full'
        /\ ~full' => Put(outras') = Append(Put(outras), line)
    BY <1>6, <2>1, RowTaken
  <2>3. Firsts(Picture, m + 1) = Append(Firsts(Picture, m), Picture[m + 1])
    BY OneMoreRow
  <2>4. ASSUME ~full' PROVE Put(outras') = Firsts(Picture', m + 1)
    <3>1. Put(outras) = Firsts(Picture, m)
      BY <1>6, <2>2, <2>4, Zenon
    <3>2. Put(outras') = Append(Put(outras), line)
      BY <2>2, <2>4
    <3>3. Put(outras') = Firsts(Picture, m + 1)
      BY <1>4, <2>1, <2>3, <3>1, <3>2
    <3> QED BY <1>3, <3>3
  <2> QED BY <1>6, <2>2, <2>4, Zenon
<1> QED BY <1>5, <1>6

\* Between the pages nothing is said.
LEMMA BetweenPages ==
  ASSUME Held(outras)', ~Creating', ~Finished'
  PROVE  PInv'
<1>1. Lines'
  BY DEF Lines, Creating
<1>2. Counted'
  BY DEF Counted, Creating
<1>3. Upright' /\ UpsideDown'
  BY DEF Upright, UpsideDown, Creating
<1> QED BY <1>1, <1>2, <1>3 DEF PInv

\* The steps of PInv: between the pages,
LEMMA PicHeaderSteps ==
  ASSUME PInv, ReadHeader \/ NoHeader \/ CreateFails \/ OutputPage \/ OutputLast
  PROVE  PInv'
<1>1. ~Creating' /\ ~Finished'
  BY DEF ReadHeader, NoHeader, CreateFails, OutputPage, OutputLast, Goto, Creating, Finished
<1>2. Held(outras)'
  <2>1. outras' = outras \/ outras' = NewRaster(0)
    BY DEF ReadHeader, NoHeader, CreateFails, OutputPage, OutputLast, PutOut
  <2>2. Held(outras')
    BY <2>1, NewRasterHeld DEF PInv
  <2> QED BY <2>2 DEF Held
<1> QED BY <1>1, <1>2, BetweenPages

\* a page begun,
LEMMA PicCreateStep ==
  ASSUME IInv, PInv, CreatePage
  PROVE  PInv'
<1>1. Sized /\ UNCHANGED <<job, inheader, page>> /\ OutH' = OutH /\ inheader.w \in Nat
  BY SizesKept, RasterAssumption DEF IInv, Pages, CreatePage, Sized
<1>2. OutH \in Nat /\ OfsH \in Nat
  BY <1>1, SizesFit DEF IInv
<1>3. /\ outras' = NewRaster(OutH) /\ in_ptr' = WhiteLine(inheader.w) /\ temp' = <<>>
      /\ given' = <<>> /\ y' = 0 /\ pc' \in {"crash", "top"}
  BY DEF CreatePage, Goto
<1>4. Held(outras') /\ Put(outras') = <<>>
  BY <1>2, <1>3, NewRasterHeld
<1>5. Held(outras)'
  BY <1>4 DEF Held
<1>6. CASE pc' = "crash"
  <2>1. ~Creating' /\ ~Finished'
    BY <1>6 DEF Creating, Finished
  <2> QED BY <1>5, <2>1, BetweenPages
<1>7. CASE pc' = "top"
  <2>1. Lines'
    <3>1. in_ptr' \in Line(inheader.w) /\ <<>> \in Seq(Line(inheader.w))
      BY <1>3, RasterAssumption, EmptySeq DEF WhiteLine, Line
    <3> QED BY <1>1, <1>3, <1>7, <3>1 DEF Lines, Creating, Finished, Line
  <2>2. Counted'
    <3>1. OfsH' = OfsH
      BY <1>1, SizesKept
    <3> QED BY <1>2, <1>3, <1>7, <3>1 DEF Counted, Finished
  <2>3. Made' = 0
    BY <1>3, <1>7 DEF Made
  <2>4. Firsts(Picture', 0) = <<>> /\ Firsts(Aside', 0) = <<>>
    BY OneMoreRow
  <2>5. Put(outras)' = <<>>
    BY <1>4 DEF Put, All
  <2>6. Firsts(Picture, Made)' = <<>> /\ Firsts(Aside, Made)' = <<>>
    BY <2>3, <2>4 DEF Firsts
  <2>7. Upright'
    BY <1>7, <2>5, <2>6 DEF Upright, Finished
  <2>8. NewRaster(OutH)' = NewRaster(OutH)
    BY <1>1 DEF NewRaster
  <2>9. UpsideDown'
    BY <1>3, <1>7, <2>6, <2>8 DEF UpsideDown, Finished
  <2> QED BY <1>5, <2>1, <2>2, <2>7, <2>9 DEF PInv
<1> QED BY <1>3, <1>6, <1>7

\* The margins: white rows above and below the picture.
LEMMA MarginRow ==
  ASSUME IInv, PInv, Creating, pc \in {"top", "bottom"},
         y < IF pc = "top" THEN OfsH ELSE BottomMargin
  PROVE  /\ Made \in Nat /\ Made < OutH /\ Row(Made + 1) = WhiteLine(OutW)
         /\ Row(Made + 1) \in Seq(Nat)
         /\ Reverse(Row(Made + 1)) = WhiteLine(OutW)
         /\ ~Rotated => outras.remaining > 0
<1>1. Typed /\ Sized /\ y \in Nat
  BY DEF IInv, Pages, Typed
<1>2. OutH \in Nat /\ DstH \in 0 .. OutH /\ OfsH \in Nat /\ BottomMargin \in Nat
      /\ OutH = OfsH + DstH + BottomMargin
  BY <1>1, SizesFit
<1>3. /\ Made \in Nat /\ Made < OutH /\ Made + 1 \notin OfsH + 1 .. OfsH + DstH
      /\ ~Rotated => outras.remaining > 0
  <2>1. CASE pc = "top"
    <3>1. Made = y /\ y < OfsH
      BY <2>1 DEF Made
    <3>2. ~Rotated => outras.remaining = OutH - y
      BY <2>1 DEF IInv, Writing
    <3> QED BY <1>1, <1>2, <3>1, <3>2
  <2>2. CASE pc = "bottom"
    <3>1. Made = OfsH + DstH + y /\ y < BottomMargin
      BY <2>2 DEF Made
    <3>2. ~Rotated => outras.remaining = BottomMargin - y
      BY <2>2 DEF IInv, Writing
    <3> QED BY <1>1, <1>2, <3>1, <3>2
  <2> QED BY <2>1, <2>2
<1>4. Row(Made + 1) = WhiteLine(OutW)
  BY <1>3 DEF Row
<1>5. WhiteLine(OutW) \in Seq(Nat) /\ Reverse(WhiteLine(OutW)) = WhiteLine(OutW)
  BY <1>1, WhiteRow, PixelNumbers
<1> QED BY <1>3, <1>4, <1>5

\* What stays when only the rows made go on.
LEMMA LinesKept ==
  ASSUME Lines, Creating, Creating', UNCHANGED <<job, inheader, given, in_ptr>>,
         pc' \in {"data", "read"} => Seen(y'),
         pc' \in {"bottom", "reread"} => Seen(DstH)
  PROVE  Lines'
<1>1. Seen(y)' <=> Seen(y')
  BY RowKept DEF Seen
<1>2. DstH' = DstH
  BY SizesKept
<1>3. Seen(DstH)' <=> Seen(DstH)
  BY <1>2 DEF Seen
<1>4. /\ in_ptr \in Line(inheader.w) /\ given \in Seq(Line(inheader.w))
      /\ given # <<>> => in_ptr = given[Len(given)]
  BY DEF Lines
<1>5. ~Finished'
  BY DEF Creating, Finished
<1> QED BY <1>1, <1>3, <1>4, <1>5 DEF Lines, Line

\* What the page's rows say when the sizes and the lines stay.
LEMMA RowsGoOn ==
  ASSUME Creating', pc' # "reread", UNCHANGED <<job, inheader, given, page>>,
         NEW m, Made' = m,
         Rotated => temp' = Firsts(Aside', m) /\ outras' = NewRaster(OutH),
         ~Rotated /\ ~full' => Put(outras') = Firsts(Picture', m)
  PROVE  Upright' /\ UpsideDown'
<1>1. Rotated' = Rotated /\ ~Finished'
  BY DEF Rotated, Finished, Creating
<1>2. NewRaster(OutH)' = NewRaster(OutH)
  BY SizesKept DEF NewRaster
<1>3. Firsts(Picture, Made)' = Firsts(Picture', m) /\ Firsts(Aside, Made)' = Firsts(Aside', m)
  BY DEF Firsts
<1>4. Put(outras)' = Put(outras')
  BY DEF Put, All
<1> QED BY <1>1, <1>2, <1>3, <1>4, Zenon DEF Upright, UpsideDown

\* a line of a margin, or its end,
LEMMA PicMarginStep ==
  ASSUME IInv, PInv, TopMargin \/ BottomLines
  PROVE  PInv'
<1> DEFINE n == IF pc = "top" THEN OfsH ELSE BottomMargin
           next == IF pc = "top" THEN "data" ELSE "reread"
           m == Made
<1>1. /\ pc \in {"top", "bottom"} /\ UNCHANGED <<job, inheader, given, in_ptr, page>>
      /\ \/ y < n /\ PutLine(WhiteLine(OutW)) /\ y' = y + 1 /\ pc' = pc
         \/ y >= n /\ y' = 0 /\ pc' = next /\ UNCHANGED <<temp, outras, full>>
  BY DEF TopMargin, BottomLines, Margin, Goto, place
<1>2. Creating /\ Typed /\ Sized /\ y \in Nat
  BY <1>1 DEF Creating, IInv, Pages, Typed
<1>3. OutH \in Nat /\ DstH \in 0 .. OutH /\ OfsH \in Nat /\ BottomMargin \in Nat
      /\ OutH = OfsH + DstH + BottomMargin
  BY <1>2, SizesFit
<1>4. OutH' = OutH /\ DstH' = DstH /\ OfsH' = OfsH /\ BottomMargin' = BottomMargin
      /\ Rotated' = Rotated
  BY <1>1, SizesKept DEF Rotated
<1>5. y <= n
  BY <1>1 DEF PInv, Counted
<1>6. pc' \in {"data", "read"} => Seen(y')
  <2> SUFFICES ASSUME pc' = "data" PROVE Seen(y')
    BY <1>1
  <2>1. y' = 0
    BY <1>1
  <2> QED BY <2>1 DEF Seen
<1>7. pc = "bottom" => Seen(DstH)
  BY DEF PInv, Lines
<1>8. Creating'
  BY <1>1 DEF Creating
<1>9. Lines'
  <2>1. pc' \in {"bottom", "reread"} => Seen(DstH)
    BY <1>1, <1>7
  <2> QED BY <1>1, <1>2, <1>6, <1>8, <2>1, LinesKept DEF PInv
<1>10. CASE y < n /\ PutLine(WhiteLine(OutW)) /\ y' = y + 1 /\ pc' = pc
  <2>1. /\ m \in Nat /\ m < OutH /\ Row(m + 1) = WhiteLine(OutW)
        /\ Row(m + 1) \in Seq(Nat) /\ Reverse(Row(m + 1)) = WhiteLine(OutW)
        /\ ~Rotated => outras.remaining > 0
    BY <1>1, <1>2, <1>10, MarginRow
  <2>2. /\ Rotated => temp = Firsts(Aside, m) /\ outras = NewRaster(OutH)
        /\ ~Rotated /\ ~full => Put(outras) = Firsts(Picture, m)
    BY <1>1, <1>2 DEF PInv, Upright, UpsideDown
  <2>3. /\ Made' = m + 1
        /\ pc' # "reread"
    BY <1>1, <1>2, <1>3, <1>4, <1>10 DEF Made
  <2> HIDE DEF m
  <2>4. WhiteLine(OutW) = IF Rotated THEN Reverse(Row(m + 1)) ELSE Row(m + 1)
    BY <2>1
  <2>5. /\ Held(outras')
        /\ Rotated => temp' = Firsts(Aside', m + 1) /\ outras' = outras
        /\ ~Rotated /\ ~full' => Put(outras') = Firsts(Picture', m + 1)
    <3>1. Held(outras)
      BY DEF PInv
    <3>2. UNCHANGED <<job, inheader, given>>
      BY <1>1
    <3>3. PutLine(WhiteLine(OutW))
      BY <1>10
    <3> DEFINE line == WhiteLine(OutW)
    <3> HIDE DEF line
    <3> QED BY <1>2, <2>1, <2>2, <2>4, <3>1, <3>2, <3>3, NextRowPut DEF line
  <2>6. Upright' /\ UpsideDown'
    <3>1. Rotated => temp' = Firsts(Aside', m + 1) /\ outras' = NewRaster(OutH)
      BY <2>2, <2>5
    <3>2. UNCHANGED <<job, inheader, given, page>>
      BY <1>1
    <3> QED BY <1>8, <2>3, <2>5, <3>1, <3>2, RowsGoOn
  <2>7. Counted'
    <3>1. y' <= n
      BY <1>2, <1>3, <1>10
    <3> QED BY <1>1, <1>4, <1>8, <1>10, <3>1 DEF Counted, Creating, Finished
  <2>8. Held(outras)'
    BY <2>5 DEF Held
  <2> QED BY <1>9, <2>6, <2>7, <2>8 DEF PInv
<1>11. CASE y >= n /\ y' = 0 /\ pc' = next /\ UNCHANGED <<temp, outras, full>>
  <2>1. y = n
    BY <1>2, <1>3, <1>5, <1>11
  <2>2. Made' = Made /\ Made = IF pc = "top" THEN OfsH ELSE OutH
    BY <1>1, <1>3, <1>4, <1>11, <2>1 DEF Made
  <2>3. Picture' = Picture /\ Aside' = Aside /\ TurnedRows' = TurnedRows
    BY <1>1, PictureKept
  <2>4. /\ Firsts(Picture, Made)' = Firsts(Picture, Made)
        /\ Firsts(Aside, Made)' = Firsts(Aside, Made)
    BY <2>2, <2>3 DEF Firsts
  <2>5. Put(outras)' = Put(outras) /\ NewRaster(OutH)' = NewRaster(OutH)
        /\ (Held(outras)' <=> Held(outras))
    BY <1>4, <1>11 DEF Put, All, NewRaster, Held
  <2>6. ~Finished'
    BY <1>8 DEF Creating, Finished
  <2>7. Counted'
    <3>1. pc = "bottom" /\ Rotated => outras.remaining = OutH
      BY <1>2 DEF PInv, UpsideDown, NewRaster
    <3>2. (y' <= DstH /\ y' <= OfsH /\ y' <= BottomMargin)
          /\ (pc = "bottom" /\ Rotated => outras'.remaining = OutH - y')
      BY <1>3, <1>11, <3>1
    <3> QED BY <1>1, <1>4, <1>11, <2>6, <3>2 DEF Counted
  <2>8. Upright'
    <3>1. ~Rotated /\ ~full => Put(outras) = Firsts(Picture, Made)
      BY <1>2 DEF PInv, Upright
    <3> QED BY <1>4, <1>11, <2>4, <2>5, <2>6, <3>1 DEF Upright
  <2>9. UpsideDown'
    <3>1. Rotated => temp = Firsts(Aside, Made) /\ outras = NewRaster(OutH)
      BY <1>1, <1>2 DEF PInv, UpsideDown
    <3>2. pc' = "reread" /\ Rotated => Put(outras) = Firsts(TurnedRows, y)'
      <4>1. Put(NewRaster(OutH)) = <<>>
        BY <1>3, NewRasterHeld
      <4>2. Firsts(TurnedRows, y)' = <<>>
        <5>1. Firsts(TurnedRows', 0) = <<>>
          BY OneMoreRow
        <5> QED BY <1>11, <5>1 DEF Firsts
      <4> QED BY <3>1, <4>1, <4>2
    <3> QED BY <1>4, <1>11, <2>4, <2>5, <2>6, <3>1, <3>2 DEF UpsideDown
  <2> QED BY <1>9, <2>5, <2>7, <2>8, <2>9 DEF PInv
<1> QED BY <1>1, <1>10, <1>11

\* The steps that put out no row and read no line.
LEMMA PicLoopSteps ==
  ASSUME IInv, PInv, NextRow \/ RowsDone
  PROVE  PInv'
<1>1. /\ pc = "data" /\ UNCHANGED <<job, inheader, given, in_ptr, page, temp, outras, full>>
      /\ \/ pc' = "read" /\ y' = y /\ y < DstH
         \/ pc' = "bottom" /\ y' = 0 /\ y >= DstH
  BY DEF NextRow, RowsDone, Goto, world
<1>2. Creating /\ Typed /\ Sized /\ y \in Nat /\ Creating' /\ ~Finished'
  BY <1>1 DEF Creating, IInv, Pages, Typed, Finished
<1>3. DstH \in Nat /\ OfsH \in Nat /\ BottomMargin \in Nat
  BY <1>2, SizesFit
<1>4. OutH' = OutH /\ DstH' = DstH /\ OfsH' = OfsH /\ BottomMargin' = BottomMargin
      /\ Rotated' = Rotated
  BY <1>1, SizesKept DEF Rotated
<1>5. y <= DstH /\ Seen(y)
  BY <1>1 DEF PInv, Counted, Lines
<1>6. pc' = "bottom" => y = DstH
  BY <1>1, <1>2, <1>3, <1>5
<1>7. Lines'
  <2>1. pc' \in {"data", "read"} => Seen(y')
    BY <1>1, <1>5
  <2>2. pc' \in {"bottom", "reread"} => Seen(DstH)
    BY <1>1, <1>5, <1>6
  <2> QED BY <1>1, <1>2, <2>1, <2>2, LinesKept DEF PInv
<1>8. Counted'
  <2>1. pc' = "bottom" => y' <= BottomMargin
    BY <1>1, <1>3
  <2> QED BY <1>1, <1>2, <1>4, <1>5, <2>1 DEF Counted
<1>9. Made' = Made
  BY <1>1, <1>2, <1>3, <1>4, <1>6 DEF Made
<1>10. Picture' = Picture /\ Aside' = Aside
  BY <1>1, PictureKept
<1>11. Upright' /\ UpsideDown'
  <2> DEFINE m == Made
  <2>1. Rotated => temp = Firsts(Aside, m) /\ outras = NewRaster(OutH)
    BY <1>1, <1>2 DEF PInv, UpsideDown
  <2>2. ~Rotated /\ ~full => Put(outras) = Firsts(Picture, m)
    BY <1>2 DEF PInv, Upright
  <2>3. Made' = m /\ pc' # "reread" /\ UNCHANGED <<job, inheader, given, page>>
    BY <1>1, <1>9
  <2> HIDE DEF m
  <2>4. Rotated => temp' = Firsts(Aside', m) /\ outras' = NewRaster(OutH)
    BY <1>1, <1>10, <2>1
  <2>5. ~Rotated /\ ~full' => Put(outras') = Firsts(Picture', m)
    BY <1>1, <1>10, <2>2
  <2> QED BY <1>2, <2>3, <2>4, <2>5, RowsGoOn
<1>12. Held(outras)'
  BY <1>1 DEF PInv, Held
<1> QED BY <1>7, <1>8, <1>11, <1>12 DEF PInv

\* a line read,
LEMMA PicReadStep ==
  ASSUME IInv, PInv, ReadPixels
  PROVE  PInv'
<1>1. /\ pc = "read" /\ pc' = "read"
      /\ UNCHANGED <<job, inheader, page, temp, outras, full, y>>
      /\ in_ptr' = in_ptr \/ in_ptr' \in Line(inheader.w)
      /\ given' = Append(given, in_ptr')
  BY DEF ReadPixels, place, world
<1>2. Creating /\ Typed /\ Sized /\ y \in Nat /\ Creating' /\ ~Finished'
  BY <1>1 DEF Creating, IInv, Pages, Typed, Finished
<1>3. DstH \in Nat /\ OfsH \in Nat
  BY <1>2, SizesFit
<1>4. OutH' = OutH /\ DstH' = DstH /\ OfsH' = OfsH /\ BottomMargin' = BottomMargin
      /\ Rotated' = Rotated
  BY <1>1, SizesKept DEF Rotated
<1>5. y <= DstH /\ Seen(y)
  BY <1>1 DEF PInv, Counted, Lines
<1>6. Lines'
  <2>1. in_ptr \in Line(inheader.w) /\ given \in Seq(Line(inheader.w))
    BY <1>2 DEF PInv, Lines
  <2>2. in_ptr' \in Line(inheader.w)
    BY <1>1, <2>1
  <2> DEFINE L == Line(inheader.w)
             x == in_ptr'
  <2>3. /\ given' \in Seq(L) /\ Len(given') = Len(given) + 1
        /\ given'[Len(given) + 1] = x
    <3> HIDE DEF L, x
    <3> QED BY <1>1, <2>1, <2>2, AppendProperties DEF L, x
  <2>4. Line(inheader.w)' = L
    BY <1>1 DEF Line
  <2>5. Seen(y)'
    <3>1. Seen(y')
      BY <1>1, <1>5
    <3>2. UNCHANGED <<job, inheader>>
      BY <1>1
    <3>3. \A n \in Nat : Seen(n) => Seen(n)'
      BY <1>1, <1>2, <3>2, RowsSeenKept
    <3> QED BY <1>1, <1>2, <1>5, <3>3 DEF Seen
  <2> HIDE DEF L
  <2> QED BY <1>1, <1>2, <2>2, <2>3, <2>4, <2>5 DEF Lines, L
<1>7. Counted'
  BY <1>1, <1>4, <1>5, <1>2 DEF Counted
<1>8. Made' = Made /\ Made = OfsH + y
  BY <1>1, <1>4 DEF Made
<1>9. /\ Firsts(Picture', OfsH + y) = Firsts(Picture, OfsH + y)
      /\ Firsts(Aside', OfsH + y) = Firsts(Aside, OfsH + y)
  <2>1. UNCHANGED <<job, inheader>>
    BY <1>1
  <2> QED BY <1>1, <1>2, <1>5, <2>1, FirstsSeenKept
<1>10. Upright'
  <2>1. ~Rotated /\ ~full => Put(outras) = Firsts(Picture, OfsH + y)
    BY <1>2, <1>8 DEF PInv, Upright
  <2>2. Firsts(Picture, Made)' = Firsts(Picture', OfsH + y)
    BY <1>8 DEF Firsts
  <2>3. Put(outras)' = Put(outras)
    BY <1>1 DEF Put, All
  <2> QED BY <1>1, <1>2, <1>4, <1>9, <2>1, <2>2, <2>3, Zenon DEF Upright
<1>11. UpsideDown'
  <2>1. Rotated => temp = Firsts(Aside, OfsH + y) /\ outras = NewRaster(OutH)
    BY <1>1, <1>2, <1>8 DEF PInv, UpsideDown
  <2>2. Firsts(Aside, Made)' = Firsts(Aside', OfsH + y)
    BY <1>8 DEF Firsts
  <2>3. NewRaster(OutH)' = NewRaster(OutH)
    BY <1>4 DEF NewRaster
  <2> QED BY <1>1, <1>2, <1>4, <1>9, <2>1, <2>2, <2>3 DEF UpsideDown
<1>12. Held(outras)'
  BY <1>1 DEF PInv, Held
<1> QED BY <1>6, <1>7, <1>10, <1>11, <1>12 DEF PInv

\* a row put out,
LEMMA PicPutRowStep ==
  ASSUME IInv, PInv, PutRow
  PROVE  PInv'
<1> DEFINE m == Made
           line == IF Rotated THEN MirrorRaster(Resized(in_ptr)) ELSE Resized(in_ptr)
<1>1. /\ pc = "read" /\ pc' = "data" /\ cnt = 0 /\ y' = y + 1 /\ PutLine(line)
      /\ UNCHANGED <<job, inheader, page, given, in_ptr>>
  BY DEF PutRow, Goto
<1>2. /\ Creating /\ Typed /\ Sized /\ Reading /\ Lines /\ y \in Nat /\ Creating'
      /\ ~Finished'
  BY <1>1 DEF Creating, IInv, PInv, Pages, Typed, Finished
<1>3. OutH \in Nat /\ DstH \in 0 .. OutH /\ OfsH \in Nat /\ BottomMargin \in Nat
      /\ OutH = OfsH + DstH + BottomMargin
  BY <1>2, SizesFit
<1>4. OutH' = OutH /\ DstH' = DstH /\ OfsH' = OfsH /\ BottomMargin' = BottomMargin
      /\ Rotated' = Rotated
  BY <1>1, SizesKept DEF Rotated
<1>5. y < DstH
  BY <1>1, <1>2 DEF Reading
<1>6. Row(OfsH + y + 1) = Resized(in_ptr) /\ Resized(in_ptr) \in Seq(Pixel) /\ Seen(y + 1)
  BY <1>1, <1>2, RowAtHand
<1>7. /\ m = OfsH + y /\ Made' = m + 1 /\ m \in Nat /\ m < OutH
      /\ ~Rotated => outras.remaining > 0
  <2>1. m = OfsH + y /\ Made' = OfsH + (y + 1)
    BY <1>1, <1>4 DEF Made
  <2>2. ~Rotated => outras.remaining = OutH - OfsH - y
    BY <1>1 DEF IInv, Writing
  <2> HIDE DEF m
  <2> QED BY <1>2, <1>3, <1>5, <2>1, <2>2
<1>8. /\ Rotated => temp = Firsts(Aside, m) /\ outras = NewRaster(OutH)
      /\ ~Rotated /\ ~full => Put(outras) = Firsts(Picture, m)
  BY <1>1, <1>2 DEF PInv, Upright, UpsideDown
<1>9. Row(m + 1) \in Seq(Nat) /\ line = IF Rotated THEN Reverse(Row(m + 1)) ELSE Row(m + 1)
  <2>1. Row(m + 1) = Resized(in_ptr)
    BY <1>6, <1>7
  <2> HIDE DEF m
  <2> QED BY <1>6, <2>1, PixelNumbers DEF MirrorRaster
<1>10. /\ Held(outras')
       /\ Rotated => temp' = Firsts(Aside', m + 1) /\ outras' = outras
       /\ ~Rotated /\ ~full' => Put(outras') = Firsts(Picture', m + 1)
  <2>1. Held(outras)
    BY DEF PInv
  <2>2. UNCHANGED <<job, inheader, given>>
    BY <1>1
  <2>3. PutLine(line)
    BY <1>1
  <2> HIDE DEF line, m
  <2> QED BY <1>2, <1>7, <1>8, <1>9, <2>1, <2>2, <2>3, NextRowPut
<1>11. Upright' /\ UpsideDown'
  <2>1. Rotated => temp' = Firsts(Aside', m + 1) /\ outras' = NewRaster(OutH)
    BY <1>8, <1>10
  <2>2. UNCHANGED <<job, inheader, given, page>> /\ pc' # "reread"
    BY <1>1
  <2> HIDE DEF m
  <2> QED BY <1>2, <1>7, <1>10, <2>1, <2>2, RowsGoOn
<1>12. Lines'
  <2>1. pc' \in {"data", "read"} => Seen(y')
    BY <1>1, <1>6
  <2>2. pc' \in {"bottom", "reread"} => Seen(DstH)
    BY <1>1
  <2> HIDE DEF line, m
  <2> QED BY <1>1, <1>2, <2>1, <2>2, LinesKept
<1>13. Counted'
  <2>1. y' <= DstH
    BY <1>1, <1>2, <1>3, <1>5
  <2> QED BY <1>1, <1>2, <1>4, <2>1 DEF Counted
<1>14. Held(outras)'
  BY <1>10 DEF Held
<1> QED BY <1>11, <1>12, <1>13, <1>14 DEF PInv

\* a row read back from the temporary file,
LEMMA PicRereadStep ==
  ASSUME IInv, PInv, Reread
  PROVE  PInv'
<1>1. /\ pc = "reread" /\ pc' = "reread" /\ y' = y + 1 /\ WriteRow(temp[DstH - y])
      /\ UNCHANGED <<job, inheader, page, given, in_ptr, temp>>
      /\ Rotated /\ y < DstH
  BY DEF Reread, place
<1>2. /\ Creating /\ Typed /\ Sized /\ y \in Nat /\ Creating' /\ ~Finished'
  BY <1>1 DEF Creating, IInv, Pages, Typed, Finished
<1>3. OutH \in Nat /\ DstH \in 0 .. OutH
  BY <1>2, SizesFit
<1>4. OutH' = OutH /\ DstH' = DstH /\ Rotated' = Rotated
  BY <1>1, SizesKept DEF Rotated
<1>5. Picture' = Picture /\ Aside' = Aside /\ TurnedRows' = TurnedRows
  BY <1>1, PictureKept
<1>6. Made = OutH /\ Made' = OutH
  BY <1>1, <1>4 DEF Made
<1>7. /\ outras.remaining = OutH - y /\ Seen(DstH) /\ given \in Seq(Line(inheader.w))
      /\ temp = Firsts(Aside, OutH) /\ Held(outras)
      /\ ~full => Put(outras) = Firsts(TurnedRows, y)
  BY <1>1, <1>2, <1>6 DEF PInv, Counted, Lines, UpsideDown
<1> DEFINE j == DstH - y
           line == temp[j]
<1>8. /\ line = Reverse(Row(j)) /\ line \in Seq(Nat)
      /\ TurnedRows[y + 1] = line
  <2>1. j \in 1 .. OutH /\ y + 1 \in 1 .. DstH /\ DstH + 1 - (y + 1) = j
    BY <1>1, <1>2, <1>3
  <2>2. TurnedRows[y + 1] = Reverse(Row(j))
    BY <2>1, Zenon DEF TurnedRows
  <2> HIDE DEF j
  <2>3. line = Reverse(Row(j))
    BY <1>7, <2>1 DEF Firsts, Aside
  <2>4. Reverse(Row(j)) \in Seq(Nat)
    BY <1>2, <1>7, <2>1, RowTyped
  <2> QED BY <2>2, <2>3, <2>4
<1>9. WriteRow(line)
  BY <1>1
<1> HIDE DEF line
<1>10. /\ Held(outras')
       /\ outras'.remaining = IF outras.remaining = 0 THEN 0 ELSE outras.remaining - 1
       /\ full => full'
       /\ ~full' /\ outras.remaining > 0 => Put(outras') = Append(Put(outras), line)
  BY <1>7, <1>8, <1>9, RowTaken
<1>11. outras.remaining > 0 /\ outras'.remaining = OutH - y' /\ y' <= DstH
  BY <1>1, <1>2, <1>3, <1>7, <1>10
<1>12. Lines'
  <2>1. pc' \in {"data", "read"} => Seen(y')
    BY <1>1
  <2> QED BY <1>1, <1>2, <1>7, <2>1, LinesKept DEF PInv
<1>13. Counted'
  BY <1>1, <1>2, <1>4, <1>11 DEF Counted
<1>14. Upright'
  BY <1>1, <1>2, <1>4 DEF Upright
<1>15. ~full' => Put(outras') = Firsts(TurnedRows, y + 1)
  <2> SUFFICES ASSUME ~full' PROVE Put(outras') = Firsts(TurnedRows, y + 1)
    OBVIOUS
  <2>1. Put(outras') = Append(Put(outras), line) /\ Put(outras) = Firsts(TurnedRows, y)
    BY <1>7, <1>10, <1>11
  <2>2. Firsts(TurnedRows, y + 1) = Append(Firsts(TurnedRows, y), TurnedRows[y + 1])
    BY <1>2, OneMoreRow
  <2> QED BY <1>8, <2>1, <2>2
<1>16. UpsideDown'
  <2>1. Firsts(TurnedRows, y)' = Firsts(TurnedRows, y + 1)
    BY <1>1, <1>5 DEF Firsts
  <2>2. Firsts(Aside, Made)' = Firsts(Aside, OutH)
    BY <1>5, <1>6 DEF Firsts
  <2>3. Put(outras)' = Put(outras')
    BY DEF Put, All
  <2>4. temp' = Firsts(Aside, OutH)
    BY <1>1, <1>7
  <2> QED BY <1>1, <1>2, <1>15, <2>1, <2>2, <2>3, <2>4, Zenon DEF UpsideDown
<1>17. Held(outras)'
  BY <1>10 DEF Held
<1> QED BY <1>12, <1>13, <1>14, <1>16, <1>17 DEF PInv

\* a page finished,
LEMMA PicPageCreatedStep ==
  ASSUME IInv, PInv, PageCreated
  PROVE  PInv'
<1>1. /\ pc = "reread" /\ pc' = "header" /\ isPWGExist' = TRUE /\ page' = page + 1
      /\ Rotated => y >= DstH
      /\ UNCHANGED <<job, inheader, given, in_ptr, temp, outras, full, y>>
  BY DEF PageCreated, Goto, loop, world
<1>2. /\ Creating /\ Typed /\ Sized /\ y \in Nat /\ page \in Nat /\ ~Creating' /\ Finished'
  BY <1>1 DEF Creating, IInv, Pages, Typed, Finished
<1>3. OutH \in Nat /\ DstH \in 0 .. OutH
  BY <1>2, SizesFit
<1>4. OutH' = OutH /\ DstH' = DstH
  BY <1>1, SizesKept
<1>5. WasRotated' <=> Rotated
  <2>1. (page + 1) % 2 = 0 <=> page % 2 = 1
    BY <1>2
  <2> QED BY <1>1, <2>1 DEF WasRotated, Rotated
<1>6. Picture' = Picture /\ TurnedRows' = TurnedRows
  BY <1>1, PictureKept
<1>7. Put(outras)' = Put(outras) /\ (Held(outras)' <=> Held(outras))
  BY <1>1 DEF Put, All, Held
<1>8. Made = OutH
  BY <1>1 DEF Made
<1>9. Lines'
  <2>1. Seen(DstH)' <=> Seen(DstH)
    BY <1>1, <1>4, RowKept DEF Seen
  <2>2. /\ Seen(DstH) /\ in_ptr \in Line(inheader.w) /\ given \in Seq(Line(inheader.w))
        /\ given # <<>> => in_ptr = given[Len(given)]
    BY <1>1, <1>2 DEF PInv, Lines
  <2> QED BY <1>1, <1>2, <2>1, <2>2 DEF Lines, Line
<1>10. Rotated => y = DstH /\ outras.remaining = OutH - DstH
  <2>1. Rotated => y <= DstH /\ outras.remaining = OutH - y
    BY <1>1 DEF PInv, Counted
  <2>2. Rotated => y = DstH
    BY <1>1, <1>2, <1>3, <2>1
  <2> QED BY <2>1, <2>2
<1>11. Counted'
  BY <1>1, <1>4, <1>5, <1>10 DEF Counted
<1>12. Upright'
  <2>1. ~Rotated /\ ~full => Put(outras) = Firsts(Picture, OutH)
    BY <1>2, <1>8 DEF PInv, Upright
  <2>2. Firsts(Picture, OutH) = Picture
    BY DEF Firsts, Picture
  <2> QED BY <1>1, <1>2, <1>5, <1>6, <1>7, <2>1, <2>2, Zenon DEF Upright
<1>13. UpsideDown'
  <2>1. Rotated /\ ~full => Put(outras) = Firsts(TurnedRows, DstH)
    BY <1>1, <1>10 DEF PInv, UpsideDown
  <2>2. Firsts(TurnedRows, DstH) = TurnedRows
    BY DEF Firsts, TurnedRows
  <2> QED BY <1>1, <1>2, <1>5, <1>6, <1>7, <2>1, <2>2 DEF UpsideDown
<1> QED BY <1>7, <1>9, <1>11, <1>12, <1>13 DEF PInv

\* and the world.
LEMMA PicQuietStep ==
  ASSUME PInv, UNCHANGED <<job, place, page, inheader, isPWGExist, loop, in_ptr, temp,
                           outras, given, full>>
  PROVE  PInv'
<1>1. UNCHANGED <<job, pc, page, inheader, isPWGExist, y, in_ptr, temp, outras, given, full>>
  BY DEF place, loop
<1>2. /\ OutH' = OutH /\ DstH' = DstH /\ OfsH' = OfsH /\ BottomMargin' = BottomMargin
      /\ Creating' = Creating /\ Finished' = Finished
      /\ Rotated' = Rotated /\ WasRotated' = WasRotated
  BY <1>1, SizesKept DEF Creating, Finished, Rotated, WasRotated
<1>3. Picture' = Picture /\ Aside' = Aside /\ TurnedRows' = TurnedRows
  BY <1>1, PictureKept
<1>4. Put(outras)' = Put(outras) /\ Held(outras)' = Held(outras)
      /\ NewRaster(OutH)' = NewRaster(OutH)
  BY <1>1, <1>2 DEF Put, All, Held, NewRaster
<1>5. Made' = Made
  BY <1>1, <1>2 DEF Made
<1>6. /\ Firsts(Picture, Made)' = Firsts(Picture, Made)
      /\ Firsts(Aside, Made)' = Firsts(Aside, Made)
      /\ Firsts(TurnedRows, y)' = Firsts(TurnedRows, y)
  BY <1>1, <1>3, <1>5 DEF Firsts
<1>7. Seen(y)' = Seen(y) /\ Seen(DstH)' = Seen(DstH)
  BY <1>1, <1>2, RowKept DEF Seen
<1>8. Lines'
  BY <1>1, <1>2, <1>7 DEF PInv, Lines, Line
<1>9. Counted'
  BY <1>1, <1>2 DEF PInv, Counted
<1>10. Upright'
  BY <1>1, <1>2, <1>3, <1>4, <1>6 DEF PInv, Upright
<1>11. UpsideDown'
  BY <1>1, <1>2, <1>3, <1>4, <1>6 DEF PInv, UpsideDown
<1> QED BY <1>4, <1>8, <1>9, <1>10, <1>11 DEF PInv

\* Before the first page.
LEMMA PicInit == Init => PInv
<1> SUFFICES ASSUME Init PROVE PInv
  OBVIOUS
<1>1. pc = "header" /\ ~isPWGExist /\ outras = NewRaster(0)
  BY DEF Init
<1>2. Held(outras)
  BY <1>1, NewRasterHeld
<1>3. ~Creating /\ ~Finished
  BY <1>1 DEF Creating, Finished
<1> QED BY <1>2, <1>3 DEF PInv, Lines, Counted, Upright, UpsideDown, Creating, Finished

\* What has been made of a page is the picture so far; of a page to be turned, aside,
\* the mirrored picture, and then in its file the same from below.
THEOREM PictureInvariance == Spec => []PInv
<1>1. PInv /\ IInv /\ [Next]_vars => PInv'
  <2> SUFFICES ASSUME PInv, IInv, [Next]_vars PROVE PInv'
    OBVIOUS
  <2>1. CASE ReadHeader \/ NoHeader \/ CreateFails \/ OutputPage \/ OutputLast
    BY <2>1, PicHeaderSteps
  <2>2. CASE CreatePage
    BY <2>2, PicCreateStep
  <2>3. CASE TopMargin \/ BottomLines
    BY <2>3, PicMarginStep
  <2>4. CASE NextRow \/ RowsDone
    BY <2>4, PicLoopSteps
  <2>5. CASE ReadPixels
    BY <2>5, PicReadStep
  <2>6. CASE PutRow
    BY <2>6, PicPutRowStep
  <2>7. CASE Reread
    BY <2>7, PicRereadStep
  <2>8. CASE PageCreated
    BY <2>8, PicPageCreatedStep
  <2>9. CASE InputEnds \/ ReaderLeaves \/ UNCHANGED vars
    BY <2>9, PicQuietStep DEF InputEnds, ReaderLeaves, vars, world
  <2> QED BY <2>1, <2>2, <2>3, <2>4, <2>5, <2>6, <2>7, <2>8, <2>9 DEF Next, Filter, Terminated
<1> QED BY PicInit, <1>1, PwgInvariance, PTL DEF Spec

\* A finished page is, read back from its file, the picture it should be, whatever its
\* pixels and its size and whatever the sheet; a page turned by 180 degrees as well,
\* where there are no margins above and below.
THEOREM PageReadsBack == Spec => []PageIsWhole
<1>1. IInv /\ PInv => PageIsWhole
  <2> SUFFICES ASSUME IInv, PInv, Finished, ~full, WasRotated => DstH = OutH
               PROVE  Decoded(outras.file) = IF WasRotated THEN Turned ELSE Picture
    BY DEF PageIsWhole
  <2>1. Sized /\ outras.remaining \in Nat
    BY DEF IInv, Pages, Typed, Finished
  <2>2. OutH \in Nat
    BY <2>1, SizesFit DEF IInv
  <2>3. outras.remaining = 0
    BY <2>2 DEF IInv, Writing, PInv, Counted
  <2>4. Put(outras) = Decoded(outras.file)
    BY <2>3 DEF Put
  <2>5. WasRotated => TurnedRows = Turned
    BY DEF TurnedRows, Turned
  <2> QED BY <2>4, <2>5 DEF PInv, Upright, UpsideDown
<1> QED BY <1>1, PictureInvariance, PwgInvariance, PTL

=============================================================================

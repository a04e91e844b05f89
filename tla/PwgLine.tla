------------------------------ MODULE PwgLine ------------------------------
(***************************************************************************)
(* tocnpwg: what is done to the lines of a page.  A line is a sequence of  *)
(* pixels; the bytes of a pixel travel together, so a pixel is one value.  *)
(***************************************************************************)
EXTENDS Integers, SequencesExt

CONSTANTS
  MaxRun,    \* pixels of a packet: 128 in the code
  MaxRepeat  \* rows of a repeated row: 256 in the code

ASSUME LineAssumption == MaxRun \in Nat \ {0, 1} /\ MaxRepeat \in Nat \ {0, 1}

-----------------------------------------------------------------------------
(* Scaling: dst positions spread over src ones, with quotient and rest, of *)
(* the rows of a page and of the pixels of a line alike.                   *)
First == [pos |-> 0, rest |-> 0]

Adjust(c, d) ==
  IF c.rest * 2 >= d THEN [pos |-> c.pos + 1, rest |-> c.rest - d] ELSE c

\* The code compares and divides by d = dst - 1.
Advance_Slip(c, src, d) ==   \* the divisor is dst
  [pos |-> c.pos + (src - 1) \div (d + 1), rest |-> c.rest + ((src - 1) % (d + 1))]

Advance(c, src, d) ==
  [pos |-> c.pos + (src - 1) \div d, rest |-> c.rest + ((src - 1) % d)]

\* Where the dst positions of a line lie in the src ones.
Cursors(src, dst) ==
  LET at[x \in 0 .. dst - 1] ==
        Adjust(IF x = 0 THEN First ELSE Advance(at[x - 1], src, dst - 1), dst - 1)
  IN  at

HExtend(line, dst) ==
  IF dst <= 1 THEN SubSeq(line, 1, dst)
  ELSE LET at == Cursors(Len(line), dst)
       IN  [x \in 1 .. dst |-> line[at[x - 1].pos + 1]]

MirrorRaster(line) == Reverse(line)

-----------------------------------------------------------------------------
(* cups_raster_write: a row is its repeat count and packets of equal or of *)
(* different pixels.                                                       *)
Break(line, i) == {p \in i + 1 .. Len(line) : p = Len(line) \/ line[p] = line[p + 1]}

\* The length of a run of equal pixels from i on, and of one of different
\* pixels, which stops in front of a pair.
EqualRun(line, i) ==
  Min({p - i : p \in {q \in i + 1 .. Len(line) : line[q] # line[i]}}
      \cup {Len(line) - i + 1, MaxRun})

DifferentRun(line, i) ==
  LET p == Min(Break(line, i) \cup {i + MaxRun})
  IN  IF p = Len(line) /\ p - i < MaxRun THEN p - i + 1 ELSE p - i

LiteralByte_Slip(count) == 2 * MaxRun - count

\* 257 - count, in a byte: 0 for a single pixel, which is a run of one.
LiteralByte(count) == (2 * MaxRun + 1 - count) % (2 * MaxRun)

Packets(line) ==
  LET from[i \in 1 .. Len(line) + 1] ==
        IF i > Len(line) THEN <<>>
        ELSE IF i = Len(line) THEN <<0, line[i]>>
        ELSE IF line[i] = line[i + 1]
        THEN LET n == EqualRun(line, i) IN <<n - 1, line[i]>> \o from[i + n]
        ELSE LET n == DifferentRun(line, i)
             IN  <<LiteralByte(n)>> \o SubSeq(line, i, i + n - 1) \o from[i + n]
  IN  from[1]

EncodedRow(line, count) == <<(count - 1) % MaxRepeat>> \o Packets(line)

-----------------------------------------------------------------------------
(* The raster being written: the row held back and how often it came, the  *)
(* rows still to come, and the rows in the file.                           *)
NewRaster(rows) == [pixels |-> <<>>, count |-> 0, remaining |-> rows, file |-> <<>>]

RasterWrite(r) == [r EXCEPT !.file = Append(@, EncodedRow(r.pixels, r.count))]

WritePixels(r, line) ==
  LET same   == r.count > 0 /\ line = r.pixels
      before == IF r.count > 0 /\ ~same
                THEN [RasterWrite(r) EXCEPT !.count = 0] ELSE r
      taken  == [before EXCEPT !.pixels = line, !.count = @ + 1, !.remaining = @ - 1]
  IN  IF r.remaining = 0 THEN r
      ELSE IF taken.remaining = 0 THEN RasterWrite(taken)
      ELSE IF same /\ taken.count = MaxRepeat
      THEN [RasterWrite(taken) EXCEPT !.count = 0]
      ELSE taken

-----------------------------------------------------------------------------
(* What a reader of the format makes of it, from the format's own rules: a *)
(* byte b below MaxRun repeats the next pixel b + 1 times, one above it is *)
(* followed by 2 * MaxRun + 1 - b pixels, MaxRun itself is not used.  What  *)
(* is not a byte is no packet, and what follows a packet that is not all   *)
(* there cannot be read.                                                   *)
Byte == 0 .. 2 * MaxRun - 1

Follow(b) == IF b < MaxRun THEN 1 ELSE 2 * MaxRun + 1 - b

\* The packet at i is all there.
Whole(bytes, i) ==
  i <= Len(bytes) /\ bytes[i] \in Byte /\ i + Follow(bytes[i]) <= Len(bytes)

Pixels(bytes) ==
  LET from[i \in 1 .. Len(bytes) + 1] ==
        IF ~Whole(bytes, i) THEN <<>>
        ELSE LET n    == Follow(bytes[i])
                 here == IF bytes[i] < MaxRun
                         THEN [k \in 1 .. bytes[i] + 1 |-> bytes[i + 1]]
                         ELSE SubSeq(bytes, i + 1, i + n)
             IN  here \o from[i + n + 1]
  IN  from[1]

\* The rows of a file.
Decoded(file) ==
  FlattenSeq([k \in 1 .. Len(file) |->
                [j \in 1 .. file[k][1] + 1 |-> Pixels(Tail(file[k]))]])

\* The src position nearest to dst position x, halves upwards.
Nearest(x, src, dst) == (2 * x * (src - 1) + dst - 1) \div (2 * (dst - 1))

Scaled(line, dst) ==
  IF dst <= 1 THEN SubSeq(line, 1, dst)
  ELSE [x \in 1 .. dst |-> line[Nearest(x - 1, Len(line), dst) + 1]]

=============================================================================

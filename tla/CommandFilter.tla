--------------------------- MODULE CommandFilter ---------------------------
(***************************************************************************)
(* tocanonij: main() writes the commands that open a job, copies the pages *)
(* it reads from tocnpwg, each between its commands, and ends the job.     *)
(* A page comes as a header with its size and so many units of data.       *)
(*                                                                         *)
(* read() gives what is there; tocnpwg may end in the middle of anything.  *)
(* write() is one unit here, so that a longer one is several steps; once   *)
(* nobody reads stdout every write fails (SIGPIPE is ignored, as inherited *)
(* from rastertocanonij), and half of the calls do not look.               *)
(***************************************************************************)
EXTENDS Integers, Sequences

CONSTANTS
  MaxPages,  \* bound: pages of a job
  MaxSize,   \* bound: units of a page
  BufSize    \* CN_BUFSIZE in units

ASSUME CommandAssumption ==
  MaxPages \in Nat /\ MaxSize \in Nat /\ BufSize \in Nat \ {0}

VARIABLES
  pages,     \* what tocnpwg is about to send: the sizes of the pages
  opening,   \* the commands that open the job, by protocol: see StartJob
  pc, result,
  page,      \* the page at hand
  readSize,  \* units of it still to be read
  readBytes, \* units in the buffer still to be written
  wire,      \* the last thing written
  cut,       \* tocnpwg ended early
  broken,    \* nobody reads stdout
  dropped    \* an interrupted write() has lost data

job    == <<pages, opening>>
world  == <<cut, broken>>
vars   == <<job, pc, result, page, readSize, readBytes, wire, world, dropped>>

Sent(c, p, n) == [cmd |-> c, page |-> p, n |-> n]

TypeOK ==
  /\ pages \in Seq(0 .. MaxSize) /\ Len(pages) <= MaxPages
  /\ opening \in {1, 2, 5}
  /\ pc \in {"start", "config", "header", "page", "data", "read", "write", "end",
             "exit"}
  /\ result \in {-1, 0}
  /\ page \in 0 .. Len(pages)
  /\ readSize \in 0 .. MaxSize
  /\ readBytes \in 0 .. BufSize
  /\ wire \in [cmd : {"opening", "config", "page", "data", "end"},
               page : 0 .. Len(pages), n : 0 .. MaxSize + 5]
  /\ cut \in BOOLEAN /\ broken \in BOOLEAN /\ dropped \in BOOLEAN

Init ==
  /\ pages \in UNION {[1 .. m -> 0 .. MaxSize] : m \in 0 .. MaxPages}
  /\ opening \in {1, 2, 5}
  /\ pc = "start" /\ result = -1
  /\ page = 0 /\ readSize = 0 /\ readBytes = 0
  /\ wire = Sent("opening", 0, 0)
  /\ cut = FALSE /\ broken = FALSE /\ dropped = FALSE

Smaller(a, b) == IF a < b THEN a ELSE b

-----------------------------------------------------------------------------
Goto(place) == pc' = place /\ UNCHANGED result

\* onErr1, onErr2, onErr3: result stays -1.
Fail == pc' = "exit" /\ UNCHANGED <<result, wire>>

\* A command whose write() is looked at, and one whose write() is not.
Write(c, p, n, place) ==
  \/ ~broken /\ wire' = Sent(c, p, n) /\ Goto(place)
  \/ broken /\ Fail

WriteUnseen(c, p, n, place) ==
  /\ wire' = IF broken THEN wire ELSE Sent(c, p, n)
  /\ Goto(place)

\* Options, libraries, the capability, memory, and making the commands: any of
\* it may fail.
PrepareFails ==
  /\ pc \in {"start", "config", "page", "data", "end"}
  /\ Fail
  /\ UNCHANGED <<job, page, readSize, readBytes, world, dropped>>

\* The second protocol opens with one command, and one more if the printer
\* wants the date; the first opens, sets the time, and ends, and opens again.
StartJob ==
  /\ pc = "start" /\ wire.n < opening
  /\ Write("opening", 0, wire.n + 1, "start")
  /\ UNCHANGED <<job, page, readSize, readBytes, world, dropped>>

Started ==
  /\ pc = "start" /\ wire.n = opening
  /\ Goto("config")
  /\ UNCHANGED <<job, page, readSize, readBytes, wire, world, dropped>>

SetConfiguration ==
  /\ pc = "config"
  /\ WriteUnseen("config", 0, 0, "header")
  /\ UNCHANGED <<job, page, readSize, readBytes, world, dropped>>

ReadHeader_Slip ==   \* the end is taken for an interruption
  /\ pc = "header"
  /\ \/ /\ ~cut /\ page < Len(pages)
        /\ page' = page + 1 /\ readSize' = pages[page + 1]
        /\ Goto("page")
     \/ /\ cut \/ page = Len(pages)
        /\ Goto("header") /\ UNCHANGED <<page, readSize>>
  /\ UNCHANGED <<job, readBytes, wire, world, dropped>>

\* A header is written at once and so is read at once; 0 bytes are the end.
ReadHeader ==
  /\ pc = "header"
  /\ \/ /\ ~cut /\ page < Len(pages)
        /\ page' = page + 1 /\ readSize' = pages[page + 1]
        /\ Goto("page")
     \/ /\ cut \/ page = Len(pages)
        /\ Goto("end") /\ UNCHANGED <<page, readSize>>
  /\ UNCHANGED <<job, readBytes, wire, world, dropped>>

SetPageConfiguration ==
  /\ pc = "page"
  /\ Write("page", page, 0, "data")
  /\ UNCHANGED <<job, page, readSize, readBytes, world, dropped>>

SendData ==
  /\ pc = "data"
  /\ WriteUnseen("data", page, 0, "read")
  /\ UNCHANGED <<job, page, readSize, readBytes, world, dropped>>

-----------------------------------------------------------------------------
\* while ( readSize )
PageDone ==
  /\ pc = "read" /\ readSize = 0
  /\ Goto("header")
  /\ UNCHANGED <<job, page, readSize, readBytes, wire, world, dropped>>

Asked == Smaller(readSize, BufSize)

ReadData ==
  /\ pc = "read" /\ readSize > 0 /\ ~cut
  /\ \E k \in 1 .. Asked : readSize' = readSize - k /\ readBytes' = k
  /\ Goto("write")
  /\ UNCHANGED <<job, page, wire, world, dropped>>

\* Here 0 bytes are not the end: none are written, and read() is called again.
ReadNothing ==
  /\ pc = "read" /\ readSize > 0 /\ cut
  /\ readBytes' = 0
  /\ Goto("write")
  /\ UNCHANGED <<job, page, readSize, wire, world, dropped>>

\* A read error is seen at the header; in a page -1 is taken for a length, and
\* the write() of so much fails.
ReadFails ==
  /\ pc \in {"header", "read"}
  /\ Fail
  /\ UNCHANGED <<job, page, readSize, readBytes, world, dropped>>

UnitAtHand_Slip == pages[page] - readSize   \* pCurrent stays behind the last

\* What pCurrent points at.
UnitAtHand == pages[page] - readSize - readBytes + 1

WriteData ==
  /\ pc = "write" /\ readBytes > 0
  /\ \/ Write("data", page, UnitAtHand, "write") /\ readBytes' = readBytes - 1
     \/ broken /\ Fail /\ UNCHANGED readBytes
  /\ UNCHANGED <<job, page, readSize, world, dropped>>

\* "continue" in a do-while loop looks at its condition, and writeBytes is -1:
\* the rest of the buffer is not written.
WriteInterrupted ==
  /\ pc = "write" /\ readBytes > 0
  /\ readBytes' = 0 /\ dropped' = TRUE
  /\ Goto("read")
  /\ UNCHANGED <<job, page, readSize, wire, world>>

\* write() of 0 bytes ends the loop.
BufferDone ==
  /\ pc = "write" /\ readBytes = 0
  /\ Goto("read")
  /\ UNCHANGED <<job, page, readSize, readBytes, wire, world, dropped>>

EndJob ==
  /\ pc = "end"
  /\ wire' = IF broken THEN wire ELSE Sent("end", page, 0)
  /\ pc' = "exit" /\ result' = 0
  /\ UNCHANGED <<job, page, readSize, readBytes, world, dropped>>

-----------------------------------------------------------------------------
\* tocnpwg ends before its last page is through; cnijlgmon3 stops reading.
InputEnds ==
  /\ pc # "exit" /\ ~cut
  /\ page < Len(pages) \/ readSize > 0
  /\ cut' = TRUE
  /\ UNCHANGED <<job, pc, result, page, readSize, readBytes, wire, broken, dropped>>

ReaderLeaves ==
  /\ pc # "exit" /\ ~broken
  /\ broken' = TRUE
  /\ UNCHANGED <<job, pc, result, page, readSize, readBytes, wire, cut, dropped>>

Working ==
  \/ StartJob \/ Started \/ SetConfiguration
  \/ ReadHeader \/ SetPageConfiguration \/ SendData
  \/ PageDone \/ ReadData \/ ReadNothing \/ WriteData \/ BufferDone
  \/ EndJob

Filter == Working \/ PrepareFails \/ ReadFails \/ WriteInterrupted

Terminated == pc = "exit" /\ UNCHANGED vars

Next == Filter \/ InputEnds \/ ReaderLeaves \/ Terminated

Spec == Init /\ [][Next]_vars

\* The filter runs, and its input comes or ends; no error is counted on.
FairSpec == Spec /\ WF_vars(Working)

-----------------------------------------------------------------------------
\* The stream is well formed at every moment, whatever the sizes of pages and of
\* reads and writes, wherever the input ends: no command inside page data, no
\* page with less or more data than announced, no end command before the last
\* page -- unless the input ended early -- and no success without it.  Two things
\* take the promise away: an interrupted write(), and a reader that leaves
\* unnoticed, since nobody looks whether the end command could be written.
Outcome == IF dropped THEN "spoiled"
           ELSE IF pc # "exit" THEN "open"
           ELSE IF result = -1 THEN "failed"
           ELSE IF broken THEN "spoiled"
           ELSE "done"

JS == INSTANCE JobStream WITH outcome <- Outcome

ImplementsJobStream == JS!Spec

\* The filter ends, with one exception: when its input has ended inside a page
\* it reads 0 bytes and writes 0 bytes for ever.
FilterEnds == <>[](pc = "exit" \/ (cut /\ readSize > 0))

=============================================================================

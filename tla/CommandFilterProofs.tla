------------------------ MODULE CommandFilterProofs ------------------------
(***************************************************************************)
(* CommandFilter keeps its types and implements JobStream, for every       *)
(* number and size of pages and every size of the buffer; and what the     *)
(* printer is set to is what the job asks for, for every job, printer      *)
(* description and table of options.                                       *)
(*                                                                         *)
(* 1. The filter: FilterInv, and the stream it writes.                     *)
(* 2. The filter behind its command line: StageInv.                        *)
(* 3. The command line.  A word that means an option is the key of an      *)
(*    entry (KeyOfOption), so that the word behind it is the value of that *)
(*    entry, wherever the reader begins (OptionValue); and what no option  *)
(*    in front of it takes is found (OptionTaken).  So the two filters     *)
(*    read what the job has (ReadAsAsked, MeasuredAsAsked): AskedInv.      *)
(***************************************************************************)
EXTENDS FilterCommand, InductionLemmas

\* What was last written is where the filter stands, as long as somebody reads
\* and no write() has lost data.
BetweenPages(p) ==
  \/ p = 0 /\ wire = Sent("config", 0, 0)
  \/ p > 0 /\ wire = Sent("data", p, pages[p])

Standing ==
  /\ pc = "start" => wire.cmd = "opening" /\ wire.page = 0 /\ wire.n <= opening
  /\ pc = "config" => wire = Sent("opening", 0, opening)
  /\ pc = "header" => BetweenPages(page)
  /\ pc = "end" => BetweenPages(page) /\ (page = Len(pages) \/ cut)
  /\ pc = "page" => BetweenPages(page - 1) /\ readSize = pages[page]
  /\ pc = "data" => wire = Sent("page", page, 0) /\ readSize = pages[page]
  /\ pc = "read" => wire = Sent("data", page, pages[page] - readSize)
  /\ pc = "write" => wire = Sent("data", page, pages[page] - readSize - readBytes)

\* The sizes at hand, whatever became of the writes.
AtHand ==
  /\ pc \in {"start", "config"} => page = 0
  /\ pc \in {"page", "data", "read", "write"} => page > 0 /\ readSize <= pages[page]
  /\ pc = "write" => readSize + readBytes <= pages[page]
  /\ pc # "exit" => result = -1

FilterInv == TypeOK /\ AtHand /\ (~broken /\ ~dropped => Standing)

-----------------------------------------------------------------------------
\* A job the filter can be given is a sequence of page sizes.
LEMMA JobTyped ==
  ASSUME NEW s \in UNION {[1 .. m -> 0 .. MaxSize] : m \in 0 .. MaxPages}
  PROVE  s \in Seq(0 .. MaxSize) /\ Len(s) <= MaxPages
<1>1. PICK m \in 0 .. MaxPages : s \in [1 .. m -> 0 .. MaxSize]
  OBVIOUS
<1>2. m \in Nat /\ DOMAIN s = 1 .. m
  BY <1>1, CommandAssumption
<1>3. s \in Seq(0 .. MaxSize)
  <2> SUFFICES s \in UNION {[1 .. n -> 0 .. MaxSize] : n \in Nat}
    BY SeqDef, Zenon
  <2> QED BY <1>1, <1>2, Zenon
<1>4. Len(s) \in Nat /\ 1 .. Len(s) = 1 .. m
  BY <1>2, <1>3, LenProperties
<1>5. Len(s) = m
  <2>1. Len(s) <= m
    BY <1>2, <1>4
  <2>2. m <= Len(s)
    BY <1>2, <1>4
  <2> QED BY <1>2, <1>4, <2>1, <2>2
<1> QED BY <1>3, <1>5, CommandAssumption

\* The sizes of pages are numbers.
LEMMA PageTyped ==
  ASSUME TypeOK
  PROVE  /\ Len(pages) \in Nat
         /\ \A p \in 1 .. Len(pages) : pages[p] \in 0 .. MaxSize
<1>1. pages \in Seq(0 .. MaxSize)
  BY DEF TypeOK
<1> QED BY <1>1, LenProperties, ElementOfSeq

LEMMA InitInv == Init => FilterInv
<1> SUFFICES ASSUME Init PROVE FilterInv
  OBVIOUS
<1>1. TypeOK
  <2>1. pages \in Seq(0 .. MaxSize) /\ Len(pages) <= MaxPages
    BY JobTyped DEF Init
  <2>2. Len(pages) \in Nat
    BY <2>1, LenProperties
  <2>3. wire \in [cmd : {"opening", "config", "page", "data", "end"},
                 page : 0 .. Len(pages), n : 0 .. MaxSize + 5]
    BY <2>2, CommandAssumption DEF Init, Sent
  <2>4. page \in 0 .. Len(pages) /\ readSize \in 0 .. MaxSize /\ readBytes \in 0 .. BufSize
    BY <2>2, CommandAssumption DEF Init
  <2> QED BY <2>1, <2>3, <2>4 DEF Init, TypeOK
<1>2. AtHand /\ Standing
  BY DEF Init, AtHand, Standing, Sent
<1> QED BY <1>1, <1>2 DEF FilterInv

-----------------------------------------------------------------------------
\* Giving up loses nothing of the invariant.
LEMMA FailStep ==
  ASSUME FilterInv, Fail,
         UNCHANGED <<job, page, broken, dropped>>, cut' \in BOOLEAN,
         readSize' \in 0 .. MaxSize, readBytes' \in 0 .. BufSize
  PROVE  FilterInv'
BY DEF FilterInv, Fail, TypeOK, AtHand, Standing, job

\* Each step of the filter keeps the invariant.
LEMMA StartStep == FilterInv /\ (StartJob \/ Started \/ SetConfiguration) => FilterInv'
<1> SUFFICES ASSUME FilterInv, StartJob \/ Started \/ SetConfiguration PROVE FilterInv'
  OBVIOUS
<1>1. CASE StartJob /\ Fail
  BY <1>1, FailStep DEF StartJob, job, world, FilterInv, TypeOK
<1>2. CASE StartJob /\ ~Fail
  BY <1>2, CommandAssumption
    DEF StartJob, Write, Goto, Sent, job, world, FilterInv, TypeOK, AtHand, Standing
<1>3. CASE Started
  BY <1>3 DEF Started, Goto, Sent, job, world, FilterInv, TypeOK, AtHand, Standing
<1>4. CASE SetConfiguration
  BY <1>4, CommandAssumption DEF SetConfiguration, WriteUnseen, Goto, Sent, job, world,
    FilterInv, TypeOK, AtHand, Standing, BetweenPages
<1> QED BY <1>1, <1>2, <1>3, <1>4

LEMMA HeaderStep == FilterInv /\ ReadHeader => FilterInv'
<1> SUFFICES ASSUME FilterInv, ReadHeader PROVE FilterInv'
  OBVIOUS
<1>0. Len(pages) \in Nat /\ \A p \in 1 .. Len(pages) : pages[p] \in 0 .. MaxSize
  BY PageTyped DEF FilterInv
<1>1. CASE pc' = "page"
  BY <1>0, <1>1 DEF ReadHeader, Goto, job, world, FilterInv, TypeOK, AtHand, Standing,
    BetweenPages
<1>2. CASE pc' = "end"
  BY <1>0, <1>2 DEF ReadHeader, Goto, job, world, FilterInv, TypeOK, AtHand, Standing,
    BetweenPages
<1> QED BY <1>1, <1>2 DEF ReadHeader, Goto

LEMMA CommandStep == FilterInv /\ (SetPageConfiguration \/ SendData) => FilterInv'
<1> SUFFICES ASSUME FilterInv, SetPageConfiguration \/ SendData PROVE FilterInv'
  OBVIOUS
<1>0. Len(pages) \in Nat /\ \A p \in 1 .. Len(pages) : pages[p] \in 0 .. MaxSize
  BY PageTyped DEF FilterInv
<1>1. CASE SetPageConfiguration /\ Fail
  BY <1>1, FailStep DEF SetPageConfiguration, job, world, FilterInv, TypeOK
<1>2. CASE SetPageConfiguration /\ ~Fail
  <2>1. /\ pc = "page" /\ pc' = "data" /\ ~broken
        /\ wire' = Sent("page", page, 0)
        /\ UNCHANGED <<pages, opening, result, page, readSize, readBytes, cut, broken, dropped>>
    BY <1>2 DEF SetPageConfiguration, Write, Goto, job, world
  <2>2. TypeOK'
    BY <1>0, <2>1, CommandAssumption DEF Sent, FilterInv, TypeOK, AtHand
  <2>3. AtHand'
    BY <2>1 DEF FilterInv, AtHand
  <2>4. ASSUME ~dropped' PROVE Standing'
    BY <1>0, <2>1, <2>4 DEF Sent, FilterInv, TypeOK, AtHand, Standing
  <2> QED BY <2>2, <2>3, <2>4 DEF FilterInv
<1>3. CASE SendData
  <2>1. /\ pc = "data" /\ pc' = "read"
        /\ wire' = IF broken THEN wire ELSE Sent("data", page, 0)
        /\ UNCHANGED <<pages, opening, result, page, readSize, readBytes, cut, broken, dropped>>
    BY <1>3 DEF SendData, WriteUnseen, Goto, job, world
  <2>2. TypeOK'
    BY <1>0, <2>1, CommandAssumption DEF Sent, FilterInv, TypeOK, AtHand
  <2>3. AtHand'
    BY <2>1 DEF FilterInv, AtHand
  <2>4. ASSUME ~broken', ~dropped' PROVE Standing'
    BY <1>0, <2>1, <2>4 DEF Sent, FilterInv, TypeOK, AtHand, Standing
  <2> QED BY <2>2, <2>3, <2>4 DEF FilterInv
<1> QED BY <1>1, <1>2, <1>3

LEMMA ReadStep == FilterInv /\ (PageDone \/ ReadData \/ ReadNothing) => FilterInv'
<1> SUFFICES ASSUME FilterInv, PageDone \/ ReadData \/ ReadNothing PROVE FilterInv'
  OBVIOUS
<1>0. Len(pages) \in Nat /\ \A p \in 1 .. Len(pages) : pages[p] \in 0 .. MaxSize
  BY PageTyped DEF FilterInv
<1>1. CASE PageDone
  BY <1>0, <1>1 DEF PageDone, Goto, job, world, FilterInv, TypeOK, AtHand, Standing,
    BetweenPages
<1>2. CASE ReadData
  <2>1. PICK k \in 1 .. Asked : readSize' = readSize - k /\ readBytes' = k
    BY <1>2 DEF ReadData
  <2>2. k \in 1 .. BufSize /\ k <= readSize
    BY <2>1, CommandAssumption DEF Asked, Smaller, FilterInv, TypeOK
  <2> QED
    BY <1>0, <1>2, <2>1, <2>2, CommandAssumption
      DEF ReadData, Goto, job, world, FilterInv, TypeOK, AtHand, Standing
<1>3. CASE ReadNothing
  <2>1. TypeOK'
    BY <1>3, CommandAssumption DEF ReadNothing, Goto, job, world, FilterInv, TypeOK
  <2>2. AtHand'
    <3>1. /\ pc = "read" /\ pc' = "write" /\ readBytes' = 0
          /\ UNCHANGED <<pages, page, readSize, result>>
      BY <1>3 DEF ReadNothing, Goto, job
    <3>2. page > 0 /\ readSize <= pages[page] /\ result = -1 /\ readSize \in 0 .. MaxSize
      BY <3>1 DEF FilterInv, TypeOK, AtHand
    <3>3. readSize + 0 = readSize
      BY <3>2, CommandAssumption
    <3> QED BY <3>1, <3>2, <3>3 DEF AtHand
  <2>3. ~broken /\ ~dropped => Standing'
    <3>1. /\ pc = "read" /\ pc' = "write" /\ readBytes' = 0
          /\ UNCHANGED <<pages, page, readSize, wire>>
      BY <1>3 DEF ReadNothing, Goto, job
    <3>2. pages[page] - readSize - 0 = pages[page] - readSize
      BY <1>0, <3>1, CommandAssumption DEF FilterInv, TypeOK, AtHand
    <3>3. ~broken /\ ~dropped => Standing
      BY DEF FilterInv
    <3> QED BY <3>1, <3>2, <3>3 DEF Standing
  <2>4. UNCHANGED <<broken, dropped>>
    BY <1>3 DEF ReadNothing, job, world
  <2> QED BY <2>1, <2>2, <2>3, <2>4 DEF FilterInv
<1> QED BY <1>1, <1>2, <1>3

LEMMA WriteStep == FilterInv /\ (WriteData \/ WriteInterrupted \/ BufferDone) => FilterInv'
<1> SUFFICES ASSUME FilterInv, WriteData \/ WriteInterrupted \/ BufferDone PROVE FilterInv'
  OBVIOUS
<1>0. Len(pages) \in Nat /\ \A p \in 1 .. Len(pages) : pages[p] \in 0 .. MaxSize
  BY PageTyped DEF FilterInv
<1>1. CASE WriteData /\ Fail
  <2>1. readBytes' \in 0 .. BufSize
    BY <1>1, CommandAssumption DEF WriteData, FilterInv, TypeOK
  <2> QED BY <1>1, <2>1, FailStep DEF WriteData, job, world, FilterInv, TypeOK
<1>2. CASE WriteData /\ ~Fail
  <2>1. /\ pc = "write" /\ pc' = "write" /\ result' = result
        /\ readBytes > 0 /\ readBytes' = readBytes - 1
        /\ wire' = Sent("data", page, UnitAtHand)
        /\ UNCHANGED <<pages, opening, page, readSize, cut, broken, dropped>>
    BY <1>2 DEF WriteData, Write, Goto, job, world
  <2>2. page \in 1 .. Len(pages) /\ pages[page] \in 0 .. MaxSize
    BY <1>0, <2>1 DEF FilterInv, TypeOK, AtHand
  <2>3. UnitAtHand \in 1 .. MaxSize /\ UnitAtHand = pages'[page'] - readSize' - readBytes'
    <3>1. /\ readSize \in 0 .. MaxSize /\ readBytes \in 0 .. BufSize
          /\ readSize + readBytes <= pages[page]
      BY <2>1 DEF FilterInv, TypeOK, AtHand
    <3> QED BY <2>1, <2>2, <3>1, CommandAssumption DEF UnitAtHand
  <2>4. TypeOK'
    <3>1. wire' \in [cmd : {"data"}, page : 0 .. Len(pages), n : 0 .. MaxSize + 5]
      <4>1. page \in 0 .. Len(pages) /\ UnitAtHand \in 0 .. MaxSize + 5
        BY <1>0, <2>2, <2>3, CommandAssumption
      <4> QED BY <2>1, <4>1 DEF Sent
    <3>2. readBytes' \in 0 .. BufSize
      BY <2>1, CommandAssumption DEF FilterInv, TypeOK
    <3>3. /\ pages' \in Seq(0 .. MaxSize) /\ Len(pages') <= MaxPages
          /\ opening' \in {1, 2, 5} /\ page' \in 0 .. Len(pages')
          /\ readSize' \in 0 .. MaxSize
      BY <2>1 DEF FilterInv, TypeOK
    <3>4. wire' \in [cmd : {"opening", "config", "page", "data", "end"},
                     page : 0 .. Len(pages'), n : 0 .. MaxSize + 5]
      BY <2>1, <3>1
    <3>5. /\ pc' = "write" /\ result' \in {-1, 0}
          /\ cut' \in BOOLEAN /\ broken' \in BOOLEAN /\ dropped' \in BOOLEAN
      BY <2>1 DEF FilterInv, TypeOK
    <3> QED BY <3>2, <3>3, <3>4, <3>5 DEF TypeOK
  <2>5. AtHand'
    <3>1. /\ readSize' <= pages'[page'] /\ page' > 0
          /\ readSize' + readBytes' <= pages'[page']
      <4>1. /\ readSize \in Nat /\ readBytes \in Nat /\ page > 0
            /\ readSize <= pages[page] /\ readSize + readBytes <= pages[page]
        BY <2>1, CommandAssumption DEF FilterInv, TypeOK, AtHand
      <4>2. pages[page] \in Nat
        BY <2>2, CommandAssumption
      <4> QED BY <2>1, <4>1, <4>2
    <3>2. result' = -1
      BY <2>1 DEF FilterInv, AtHand
    <3> QED BY <2>1, <3>1, <3>2 DEF AtHand
  <2>6. Standing'
    BY <2>1, <2>3 DEF Standing
  <2> QED BY <2>4, <2>5, <2>6 DEF FilterInv
<1>3. CASE WriteInterrupted
  BY <1>0, <1>3, CommandAssumption
    DEF WriteInterrupted, Goto, job, world, FilterInv, TypeOK, AtHand
<1>4. CASE BufferDone
  BY <1>0, <1>4, CommandAssumption
    DEF BufferDone, Goto, job, world, FilterInv, TypeOK, AtHand, Standing
<1> QED BY <1>1, <1>2, <1>3, <1>4

LEMMA EndStep == FilterInv /\ (PrepareFails \/ ReadFails \/ EndJob) => FilterInv'
<1> SUFFICES ASSUME FilterInv, PrepareFails \/ ReadFails \/ EndJob PROVE FilterInv'
  OBVIOUS
<1>1. CASE PrepareFails \/ ReadFails
  BY <1>1, FailStep DEF PrepareFails, ReadFails, job, world, FilterInv, TypeOK
<1>2. CASE EndJob
  BY <1>2, CommandAssumption, PageTyped
    DEF EndJob, Sent, job, world, FilterInv, TypeOK, AtHand, Standing
<1> QED BY <1>1, <1>2

LEMMA WorldStep == FilterInv /\ (InputEnds \/ ReaderLeaves \/ UNCHANGED vars) => FilterInv'
<1> SUFFICES ASSUME FilterInv, InputEnds \/ ReaderLeaves \/ UNCHANGED vars PROVE FilterInv'
  OBVIOUS
<1>1. CASE InputEnds
  BY <1>1 DEF InputEnds, job, world, FilterInv, TypeOK, AtHand, Standing, BetweenPages
<1>2. CASE ReaderLeaves
  BY <1>2 DEF ReaderLeaves, job, world, FilterInv, TypeOK, AtHand
<1>3. CASE UNCHANGED vars
  BY <1>3 DEF vars, job, world, FilterInv, TypeOK, AtHand, Standing, BetweenPages
<1> QED BY <1>1, <1>2, <1>3

LEMMA NextInv == FilterInv /\ [Next]_vars => FilterInv'
BY StartStep, HeaderStep, CommandStep, ReadStep, WriteStep, EndStep, WorldStep
  DEF Next, Filter, Working, Terminated

\* The invariant holds at every moment.
LEMMA FilterInvariance == Spec => []FilterInv
BY InitInv, NextInv, PTL DEF Spec

\* main(): the sizes at hand stay inside the page and the buffer.
THEOREM FilterTyped == Spec => []TypeOK
<1>1. FilterInv => TypeOK
  BY DEF FilterInv
<1> QED BY <1>1, FilterInvariance, PTL

-----------------------------------------------------------------------------
\* The filter implements JobStream: every step is a step of the stream or none.
LEMMA StreamInit == Init => JS!Init
<1> SUFFICES ASSUME Init PROVE JS!Init
  OBVIOUS
<1>1. pages \in Seq(0 .. MaxSize)
  BY JobTyped DEF Init
<1>2. (0 .. MaxSize) \subseteq Nat
  BY CommandAssumption
<1>3. pages \in Seq(Nat)
  BY <1>1, <1>2, SeqMonotonic
<1> QED BY <1>3 DEF Init, JS!Init, Sent, JS!Sent, Outcome

\* A step that changes nothing the stream knows of.
LEMMA Silent ==
  ASSUME FilterInv, UNCHANGED <<pages, opening, wire, cut, dropped>>,
         pc # "exit", pc' # "exit"
  PROVE  [JS!Next]_(JS!vars)
BY DEF JS!vars, Outcome

\* Giving up is a failure, unless there is no promise any more.
LEMMA FailStreams ==
  ASSUME FilterInv, Fail, pc # "exit", UNCHANGED <<pages, opening, cut, dropped>>
  PROVE  [JS!Next]_(JS!vars)
<1>1. result' = -1 /\ pc' = "exit" /\ wire' = wire
  BY DEF FilterInv, AtHand, Fail
<1> QED BY <1>1 DEF JS!vars, Outcome, JS!Next, JS!Fail

LEMMA StartStreams ==
  ASSUME FilterInv, StartJob \/ Started \/ SetConfiguration
  PROVE  [JS!Next]_(JS!vars)
<1>1. CASE StartJob /\ Fail
  BY <1>1, FailStreams DEF StartJob, job, world
<1>2. CASE StartJob /\ ~Fail
  BY <1>2 DEF StartJob, Write, Goto, job, world, FilterInv, Standing, JS!vars, Outcome,
    JS!Next, JS!Open, JS!Send, Sent, JS!Sent
<1>3. CASE Started
  BY <1>3, Silent DEF Started, Goto, job, world
<1>4. CASE SetConfiguration
  BY <1>4 DEF SetConfiguration, WriteUnseen, Goto, job, world, FilterInv, Standing, JS!vars,
    Outcome, JS!Next, JS!Open, JS!Send, Sent, JS!Sent
<1> QED BY <1>1, <1>2, <1>3, <1>4

LEMMA PageStreams ==
  ASSUME FilterInv, SetPageConfiguration \/ SendData
  PROVE  [JS!Next]_(JS!vars)
<1>0. Len(pages) \in Nat /\ \A p \in 1 .. Len(pages) : pages[p] \in 0 .. MaxSize
  BY PageTyped DEF FilterInv
<1>1. CASE SetPageConfiguration /\ Fail
  BY <1>1, FailStreams DEF SetPageConfiguration, job, world
<1>2. CASE SetPageConfiguration /\ ~Fail
  <2>1. /\ pc = "page" /\ pc' = "data" /\ ~broken
        /\ wire' = Sent("page", page, 0)
        /\ UNCHANGED <<pages, opening, cut, dropped>>
    BY <1>2 DEF SetPageConfiguration, Write, Goto, job, world
  <2>2. CASE dropped
    BY <2>1, <2>2 DEF JS!vars, Outcome, JS!Next
  <2>3. CASE ~dropped
    <3>1. page \in 1 .. Len(pages) /\ BetweenPages(page - 1)
      BY <1>0, <2>1, <2>3 DEF FilterInv, TypeOK, AtHand, Standing
    <3>2. /\ JS!Configured \/ JS!PageWhole
          /\ wire.page = page - 1
      BY <3>1 DEF BetweenPages, Sent, JS!Configured, JS!PageWhole
    <3> QED BY <1>0, <2>1, <2>3, <3>1, <3>2
      DEF JS!vars, Outcome, JS!Next, JS!PageCommand, JS!Send, Sent, JS!Sent
  <2> QED BY <2>2, <2>3
<1>3. CASE SendData
  BY <1>3 DEF SendData, WriteUnseen, Goto, job, world, FilterInv, Standing, JS!vars,
    Outcome, JS!Next, JS!DataCommand, JS!Send, Sent, JS!Sent
<1> QED BY <1>1, <1>2, <1>3

LEMMA WriteStreams ==
  ASSUME FilterInv, WriteData
  PROVE  [JS!Next]_(JS!vars)
<1>0. Len(pages) \in Nat /\ \A p \in 1 .. Len(pages) : pages[p] \in 0 .. MaxSize
  BY PageTyped DEF FilterInv
<1>1. CASE Fail
  BY <1>1, FailStreams DEF WriteData, job, world
<1>2. CASE ~Fail
  <2>1. /\ pc = "write" /\ pc' = "write" /\ readBytes > 0 /\ ~broken
        /\ wire' = Sent("data", page, UnitAtHand)
        /\ UNCHANGED <<pages, opening, cut, dropped>>
    BY <1>2 DEF WriteData, Write, Goto, job, world
  <2>2. CASE dropped
    BY <2>1, <2>2 DEF JS!vars, Outcome, JS!Next
  <2>3. CASE ~dropped
    <3>1. page \in 1 .. Len(pages) /\ wire = Sent("data", page, pages[page] - readSize - readBytes)
      BY <1>0, <2>1, <2>3 DEF FilterInv, TypeOK, AtHand, Standing
    <3>2. readSize \in Nat /\ readBytes \in Nat /\ pages[page] \in Nat
      BY <1>0, <3>1, CommandAssumption DEF FilterInv, TypeOK
    <3>3. wire.n < pages[wire.page] /\ UnitAtHand = wire.n + 1
      BY <2>1, <3>1, <3>2 DEF UnitAtHand, Sent
    <3> QED BY <2>1, <2>3, <3>1, <3>3
      DEF JS!vars, Outcome, JS!Next, JS!Data, JS!Send, Sent, JS!Sent
  <2> QED BY <2>2, <2>3
<1> QED BY <1>1, <1>2

LEMMA EndStreams ==
  ASSUME FilterInv, EndJob
  PROVE  [JS!Next]_(JS!vars)
<1>1. /\ pc = "end" /\ pc' = "exit" /\ result' = 0
      /\ wire' = IF broken THEN wire ELSE Sent("end", page, 0)
      /\ UNCHANGED <<pages, opening, cut, broken, dropped>>
  BY DEF EndJob, job, world
<1>2. CASE broken \/ dropped
  BY <1>1, <1>2 DEF JS!vars, Outcome, JS!Next, JS!Fail
<1>3. CASE ~broken /\ ~dropped
  <2>1. BetweenPages(page) /\ (page = Len(pages) \/ cut)
    BY <1>1, <1>3 DEF FilterInv, Standing
  <2>2. (JS!Configured \/ JS!PageWhole) /\ wire.page = page
    BY <2>1 DEF BetweenPages, Sent, JS!Configured, JS!PageWhole
  <2> QED BY <1>1, <1>3, <2>1, <2>2
    DEF JS!vars, Outcome, JS!Next, JS!End, Sent, JS!Sent
<1> QED BY <1>2, <1>3

LEMMA StreamStep == FilterInv /\ [Next]_vars => [JS!Next]_(JS!vars)
<1> SUFFICES ASSUME FilterInv, [Next]_vars PROVE [JS!Next]_(JS!vars)
  OBVIOUS
<1>1. CASE PrepareFails \/ ReadFails
  BY <1>1, FailStreams DEF PrepareFails, ReadFails, job, world
<1>2. CASE StartJob \/ Started \/ SetConfiguration \/ SetPageConfiguration \/ SendData
  BY <1>2, StartStreams, PageStreams
<1>3. CASE ReadHeader \/ PageDone \/ ReadData \/ ReadNothing \/ BufferDone
  BY <1>3, Silent DEF ReadHeader, PageDone, ReadData, ReadNothing, BufferDone, Goto, job, world
<1>4. CASE WriteData
  BY <1>4, WriteStreams
<1>5. CASE WriteInterrupted
  BY <1>5 DEF WriteInterrupted, Goto, job, world, JS!vars, Outcome, JS!Next, JS!Fail
<1>6. CASE EndJob
  BY <1>6, EndStreams
<1>7. CASE InputEnds
  BY <1>7 DEF InputEnds, job, JS!vars, Outcome, JS!Next, JS!Cut
<1>8. CASE ReaderLeaves
  BY <1>8 DEF ReaderLeaves, job, JS!vars, Outcome
<1>9. CASE UNCHANGED vars
  BY <1>9 DEF vars, job, world, JS!vars, Outcome
<1> QED BY <1>1, <1>2, <1>3, <1>4, <1>5, <1>6, <1>7, <1>8, <1>9
  DEF Next, Filter, Working, Terminated

\* main(): whatever the pages, the reads, the writes and the end of the input,
\* the printer gets a well-formed stream.
THEOREM StreamRefinement == Spec => ImplementsJobStream
<1> QED BY StreamInit, StreamStep, FilterInvariance, PTL
  DEF Spec, ImplementsJobStream, JS!Spec

-----------------------------------------------------------------------------
(***************************************************************************)
(* With the command line in front of it the filter is still CommandFilter: *)
(* nothing is written before its options are read, and every way out       *)
(* before that is one of its failures.                                     *)
(***************************************************************************)
StageInv == at \notin {"run", "over"} => pc = "start"

LEMMA LineStep ==
  ASSUME StageInv, [CommandNext]_commandVars
  PROVE  StageInv' /\ [Next]_vars
<1>1. CASE Starting
  <2>1. CASE UNCHANGED vars /\ at \notin {"run", "over"}
    BY <2>1 DEF StageInv, vars
  <2>2. CASE /\ at \notin {"run", "over"} /\ at' = "over" /\ Fail
             /\ UNCHANGED <<job, page, readSize, readBytes, world, dropped>>
    BY <2>2 DEF StageInv, Next, Filter, PrepareFails
  <2>3. CASE at' = "run" /\ UNCHANGED vars
    BY <2>3 DEF StageInv
  <2> QED
    BY <1>1, <2>1, <2>2, <2>3
    DEF Starting, GetPrinterSettings, GetPrinterableArea, NoPaperSize, MakeExecCommand,
        TocnpwgOptions, TocanonijOptions, vars
<1>2. CASE NotStarted
  BY <1>2 DEF NotStarted, StageInv, Next, Filter, PrepareFails
<1>3. CASE Running
  BY <1>3 DEF Running, StageInv, settings
<1>4. CASE UNCHANGED commandVars
  BY <1>4 DEF commandVars, StageInv, settings, vars
<1> QED BY <1>1, <1>2, <1>3, <1>4 DEF CommandNext

\* rastertocanonij and tocanonij: with any settings, description and tables the
\* stream that goes out is the one of a job.
THEOREM CommandRefinement == CommandSpec => ImplementsJobStream
<1>1. CommandInit => Init /\ StageInv
  BY DEF CommandInit, Init, StageInv
<1>2. StageInv /\ [CommandNext]_commandVars => StageInv'
  BY LineStep
<1>3. StageInv /\ [CommandNext]_commandVars => [Next]_vars
  BY LineStep
<1>4. CommandSpec => Spec
  BY <1>1, <1>2, <1>3, PTL DEF CommandSpec, Spec
<1> QED BY <1>4, StreamRefinement

-----------------------------------------------------------------------------
(***************************************************************************)
(* The list of settings.                                                   *)
(***************************************************************************)
\* The entries rastertocanonij can make of the choices of a job.
OfPath == [key |-> "--filterpath", value |-> FilterPath]

Collected(choices) ==
  {OfPath} \cup
  {[key |-> Ppd[l][3], value |-> choices[Ppd[l][2]]] :
     l \in {k \in alloc_opt_key_table : Ppd[k][2] \in DOMAIN choices}}

\* param_list_add() puts one entry in front, or none.
LEMMA Added ==
  ASSUME NEW E, NEW list \in Seq(E), NEW key, NEW value, [key |-> key, value |-> value] \in E
  PROVE  Add(list, key, value) \in Seq(E)
<1>1. <<[key |-> key, value |-> value]>> \in Seq(E)
  OBVIOUS
<1> QED BY <1>1, ConcatProperties DEF Add

\* The list holds the path and choices that are marked.
LEMMA SettledCollects ==
  ASSUME NEW choices
  PROVE  Settled(choices) \in Seq(Collected(choices))
<1> DEFINE S == Seq(Collected(choices))
           m == Len(Ppd)
           first == Add(<< >>, "--filterpath", FilterPath)
           next(list, l) ==
             IF l \in alloc_opt_key_table /\ Ppd[l][2] \in DOMAIN choices
             THEN Add(list, Ppd[l][3], choices[Ppd[l][2]])
             ELSE list
           Is(f) == f = [l \in 0 .. m |-> IF l = 0 THEN first ELSE next(f[l - 1], l)]
           step == [l \in 1 .. m |-> [list \in S |-> next(list, l)]]
<1>1. m \in Nat
  BY PpdAssumption, LenProperties
<1>2. first \in S
  BY EmptySeq, Added DEF Collected, OfPath
<1>3. \A l \in 1 .. m, list \in S : next(list, l) \in S
  <2> SUFFICES ASSUME NEW l \in alloc_opt_key_table, Ppd[l][2] \in DOMAIN choices, NEW list \in S
               PROVE  Add(list, Ppd[l][3], choices[Ppd[l][2]]) \in S
    OBVIOUS
  <2>1. [key |-> Ppd[l][3], value |-> choices[Ppd[l][2]]] \in Collected(choices)
    BY DEF Collected
  <2> QED BY <2>1, Added
<1>4. Settled(choices) = (CHOOSE f : Is(f))[m]
  BY DEF Settled
<1> HIDE DEF S, m, first, next
<1>5. \E f : Is(f)
  <2>1. step \in [1 .. m -> [S -> S]]
    BY <1>3
  <2>2. PICK g : Stepping(g, S, m, first, step)
    <3> HIDE DEF step
    <3> QED BY <1>1, <1>2, <2>1, Steps
  <2>3. g \in [0 .. m -> S] /\ g[0] = first
    BY <2>2 DEF Stepping
  <2>4. \A l \in 0 .. m : g[l] = IF l = 0 THEN first ELSE next(g[l - 1], l)
    <3> SUFFICES ASSUME NEW l \in 1 .. m PROVE g[l] = next(g[l - 1], l)
      BY <1>1, <2>3
    <3>1. g[l - 1] \in S
      BY <1>1, <2>3
    <3>2. g[l] = step[l][g[l - 1]]
      BY <2>2 DEF Stepping
    <3> QED BY <3>1, <3>2
  <2> QED BY <2>3, <2>4
<1> DEFINE F == CHOOSE f : Is(f)
<1>6. Is(F)
  BY <1>5
<1>7. F[0] = first /\ \A l \in 1 .. m : F[l] = next(F[l - 1], l)
  <2> HIDE DEF F
  <2> QED BY <1>1, <1>6
<1>8. \A l \in 0 .. m : F[l] \in S
  <2> HIDE DEF F
  <2> QED BY <1>1, <1>2, <1>3, <1>7, Kept
<1> QED BY <1>1, <1>4, <1>8 DEF S

-----------------------------------------------------------------------------
(***************************************************************************)
(* The words of a list, and what getopt_long() finds in words.             *)
(***************************************************************************)
WordsOf(entries) == {e.key : e \in entries} \cup {e.value : e \in entries}

\* Words where each is a value, or a key with its value behind it if it has one.
Paired(entries) ==
  {words \in Seq(WordsOf(entries)) :
     \A k \in 1 .. Len(words) : \E entry \in entries :
       \/ words[k] = entry.value /\ entry.value # NoValue
       \/ /\ words[k] = entry.key
          /\ entry.value # NoValue => k < Len(words) /\ words[k + 1] = entry.value}

\* They may be put together.
LEMMA PairedJoin ==
  ASSUME NEW entries, NEW a \in Paired(entries), NEW b \in Paired(entries)
  PROVE  a \o b \in Paired(entries)
<1> DEFINE c == a \o b
<1>1. /\ a \in Seq(WordsOf(entries)) /\ b \in Seq(WordsOf(entries)) /\ c \in Seq(WordsOf(entries))
      /\ Len(a) \in Nat /\ Len(b) \in Nat /\ Len(c) = Len(a) + Len(b)
      /\ \A k \in 1 .. Len(a) : c[k] = a[k]
      /\ \A k \in 1 .. Len(b) : c[Len(a) + k] = b[k]
  BY ConcatProperties, LenProperties DEF Paired
<1> HIDE DEF c
<1>2. ASSUME NEW k \in 1 .. Len(c)
      PROVE  \E entry \in entries :
               \/ c[k] = entry.value /\ entry.value # NoValue
               \/ /\ c[k] = entry.key
                  /\ entry.value # NoValue => k < Len(c) /\ c[k + 1] = entry.value
  <2>1. CASE k \in 1 .. Len(a)
    <3>1. PICK entry \in entries :
            \/ a[k] = entry.value /\ entry.value # NoValue
            \/ /\ a[k] = entry.key
               /\ entry.value # NoValue => k < Len(a) /\ a[k + 1] = entry.value
      BY <2>1 DEF Paired
    <3>2. c[k] = a[k] /\ (k < Len(a) => k + 1 \in 1 .. Len(a) /\ k < Len(c))
      BY <1>1, <2>1
    <3> QED BY <1>1, <3>1, <3>2
  <2>2. CASE k \notin 1 .. Len(a)
    <3> DEFINE j == k - Len(a)
    <3>1. j \in 1 .. Len(b) /\ k = Len(a) + j /\ k + 1 = Len(a) + (j + 1)
      BY <1>1, <2>2
    <3>2. PICK entry \in entries :
            \/ b[j] = entry.value /\ entry.value # NoValue
            \/ /\ b[j] = entry.key
               /\ entry.value # NoValue => j < Len(b) /\ b[j + 1] = entry.value
      BY <3>1 DEF Paired
    <3>3. c[k] = b[j] /\ (j < Len(b) => k < Len(c) /\ c[k + 1] = b[j + 1])
      <4>1. j < Len(b) => j + 1 \in 1 .. Len(b) /\ k < Len(c)
        BY <1>1, <3>1
      <4> HIDE DEF j
      <4> QED BY <1>1, <3>1, <4>1
    <3> QED BY <3>2, <3>3
  <2> QED BY <2>1, <2>2
<1> QED BY <1>1, <1>2 DEF Paired, c

\* What the shell makes of one entry is a pair.
LEMMA PairPaired ==
  ASSUME NEW entries, NEW entry \in entries
  PROVE  Pair(entry) \in Paired(entries)
<1>1. entry.key \in WordsOf(entries) /\ entry.value \in WordsOf(entries)
  BY DEF WordsOf
<1>2. CASE entry.value = NoValue
  <2>1. Pair(entry) = <<entry.key>>
    BY <1>2 DEF Pair
  <2> QED BY <1>1, <1>2, <2>1 DEF Paired
<1>3. CASE entry.value # NoValue
  <2> DEFINE w == <<entry.key, entry.value>>
  <2>1. Pair(entry) = w
    BY <1>3 DEF Pair
  <2>2. w \in Seq(WordsOf(entries)) /\ Len(w) = 2 /\ w[1] = entry.key /\ w[2] = entry.value
    BY <1>1
  <2> HIDE DEF w
  <2>3. \A k \in 1 .. Len(w) : k = 1 \/ k = 2
    BY <2>2
  <2>4. \A k \in 1 .. Len(w) :
          \/ w[k] = entry.value /\ entry.value # NoValue
          \/ /\ w[k] = entry.key
             /\ entry.value # NoValue => k < Len(w) /\ w[k + 1] = entry.value
    BY <1>3, <2>2, <2>3
  <2> QED BY <2>1, <2>2, <2>4 DEF Paired
<1> QED BY <1>2, <1>3

\* How the words of a list are made of its entries, one after the other.
Wording(f, list) ==
  /\ f[Len(list) + 1] = << >>
  /\ \A e \in 1 .. Len(list) : f[e] = Pair(list[e]) \o f[e + 1]

\* The words are made so, and are pairs from each entry on.
LEMMA WordsUnfold ==
  ASSUME NEW entries, NEW list \in Seq(entries)
  PROVE  \E f : /\ Wording(f, list) /\ Words(list) = f[1]
                /\ \A e \in 1 .. Len(list) + 1 : f[e] \in Paired(entries)
<1> DEFINE S == Paired(entries)
           n == Len(list)
           put(e, s) == Pair(list[e]) \o s
           Is(f) == f = [e \in 1 .. n + 1 |-> IF e > n THEN << >> ELSE put(e, f[e + 1])]
           step == [e \in 1 .. n |-> [s \in S |-> put(e, s)]]
           next == [e \in 1 .. n |-> e + 1]
<1>1. n \in Nat /\ \A e \in 1 .. n : list[e] \in entries
  BY LenProperties, ElementOfSeq
<1>2. << >> \in S
  BY EmptySeq DEF Paired
<1>3. \A e \in 1 .. n, s \in S : put(e, s) \in S
  BY <1>1, PairPaired, PairedJoin
<1>4. Words(list) = (CHOOSE f : Is(f))[1]
  BY DEF Words
<1> HIDE DEF S, n, put
<1>5. \E f : Is(f)
  <2>1. step \in [1 .. n -> [S -> S]] /\ next \in [1 .. n -> Nat]
        /\ \A e \in 1 .. n : next[e] \in e + 1 .. n + 1
    BY <1>1, <1>3
  <2>2. PICK g : Jumping(g, S, n, << >>, step, next)
    <3> HIDE DEF step, next
    <3> QED BY <1>1, <1>2, <2>1, Jumps
  <2>3. g \in [1 .. n + 1 -> S] /\ g[n + 1] = << >>
    BY <2>2 DEF Jumping
  <2>4. ASSUME NEW e \in 1 .. n PROVE g[e] = put(e, g[e + 1])
    <3>1. e + 1 \in 1 .. n + 1 /\ next[e] = e + 1
      BY <1>1
    <3>2. g[e] = step[e][g[next[e]]]
      BY <2>2 DEF Jumping
    <3>3. g[e + 1] \in S
      BY <2>3, <3>1
    <3> HIDE DEF next
    <3> QED BY <3>1, <3>2, <3>3
  <2>5. \A e \in 1 .. n + 1 : g[e] = IF e > n THEN << >> ELSE put(e, g[e + 1])
    <3> SUFFICES ASSUME NEW e \in 1 .. n + 1
                 PROVE  g[e] = IF e > n THEN << >> ELSE put(e, g[e + 1])
      OBVIOUS
    <3>1. e > n => e = n + 1
      BY <1>1
    <3>2. ~(e > n) => e \in 1 .. n
      BY <1>1
    <3> QED BY <2>3, <2>4, <3>1, <3>2, Zenon
  <2> QED BY <2>3, <2>5
<1> DEFINE F == CHOOSE f : Is(f)
<1>6. Is(F)
  BY <1>5
<1> HIDE DEF F
<1>7. \A e \in 1 .. n + 1 : F[e] = IF e > n THEN << >> ELSE put(e, F[e + 1])
  BY <1>6, Zenon
<1>8. F[n + 1] = << >> /\ \A e \in 1 .. n : F[e] = put(e, F[e + 1])
  <2>1. n + 1 \in 1 .. n + 1 /\ n + 1 > n
    BY <1>1
  <2>2. \A e \in 1 .. n : e \in 1 .. n + 1 /\ ~(e > n)
    BY <1>1
  <2> QED BY <1>7, <2>1, <2>2, Zenon
<1>9. \A e \in 1 .. n + 1 : F[e] \in S
  <2> DEFINE X == {e \in Nat : F[e] \in S}
  <2>1. n + 1 \in X
    BY <1>1, <1>2, <1>8
  <2>2. ASSUME NEW e \in 1 .. n, \A j \in e + 1 .. n + 1 : j \in X PROVE e \in X
    <3>1. e + 1 \in e + 1 .. n + 1
      BY <1>1
    <3>2. F[e + 1] \in S
      BY <2>2, <3>1
    <3> QED BY <1>3, <1>8, <3>2
  <2>3. \A e \in 1 .. n + 1 : e \in X
    <3> HIDE DEF X
    <3> QED BY <1>1, <2>1, <2>2, Backwards
  <2> QED BY <2>3
<1>10. Wording(F, list)
  BY <1>8 DEF Wording, n, put
<1> QED BY <1>4, <1>9, <1>10 DEF F, n, S

\* A word that getopt_long() takes for an option, and the options of words that
\* there can be: each of a word that means it, with the word behind that.
Means(word, names, name) == name \in names /\ {x \in names : Stands(word, x)} = {name}

Meaningless(word, names) == \A name \in names : ~Means(word, names, name)

Optional(words, names) ==
  {o \in [name : names, optarg : {words[k] : k \in 1 .. Len(words)}] :
     \E k \in 1 .. Len(words) - 1 :
       Means(words[k], names, o.name) /\ o.optarg = words[k + 1]}

\* How getopt_long() goes on: behind an option two words, else one.
Parsing(f, words, names) ==
  \A k \in 1 .. Len(words) - 1 :
    /\ \A name \in names :
         Means(words[k], names, name) =>
           f[k] = <<[name |-> name, optarg |-> words[k + 1]]>> \o f[k + 2]
    /\ Meaningless(words[k], names) => f[k] = f[k + 1]

\* Options reads so, and finds only options that there can be.
LEMMA OptionsUnfold ==
  ASSUME NEW T, NEW words \in Seq(T), NEW names
  PROVE  \E f : /\ Parsing(f, words, names) /\ Options(words, names) = f[1]
                /\ \A k \in 1 .. Len(words) + 1 : f[k] \in Seq(Optional(words, names))
<1> DEFINE O == Optional(words, names)
           S == Seq(O)
           n == Len(words)
           taken(k) == \E name \in names : {x \in names : Stands(words[k], x)} = {name}
           opt(k) == [name |-> CHOOSE name \in names :
                                 {x \in names : Stands(words[k], x)} = {name},
                      optarg |-> words[k + 1]]
           Is(f) == f = [k \in 1 .. n + 1 |->
                           IF k >= n THEN << >>
                           ELSE IF taken(k) THEN <<opt(k)>> \o f[k + 2]
                           ELSE f[k + 1]]
           put(k, s) == IF k >= n THEN << >> ELSE IF taken(k) THEN <<opt(k)>> \o s ELSE s
           after(k) == IF k < n /\ taken(k) THEN k + 2 ELSE k + 1
           step == [k \in 1 .. n |-> [s \in S |-> put(k, s)]]
           next == [k \in 1 .. n |-> after(k)]
<1>1. n \in Nat
  BY LenProperties
<1>2. << >> \in S
  BY EmptySeq
<1>3. ASSUME NEW k \in 1 .. n - 1, taken(k)
      PROVE  /\ opt(k) \in O
             /\ \A name : Means(words[k], names, name) =>
                            opt(k) = [name |-> name, optarg |-> words[k + 1]]
  <2>1. PICK name \in names : {x \in names : Stands(words[k], x)} = {name}
    BY <1>3
  <2>2. (CHOOSE x \in names : {y \in names : Stands(words[k], y)} = {x}) = name
    <3>1. \A x : {name} = {x} => x = name
      OBVIOUS
    <3> QED BY <2>1, <3>1
  <2>3. opt(k) = [name |-> name, optarg |-> words[k + 1]]
    BY <2>2
  <2>4. words[k + 1] \in {words[i] : i \in 1 .. Len(words)}
    BY <1>1
  <2>5. Means(words[k], names, name)
    BY <2>1 DEF Means
  <2>6. \A x : Means(words[k], names, x) => x = name
    BY <2>1 DEF Means
  <2> HIDE DEF opt
  <2> QED BY <2>3, <2>4, <2>5, <2>6 DEF Optional
<1>4. Options(words, names) = (CHOOSE f : Is(f))[1]
  BY DEF Options
<1>5. \A k \in 1 .. n : taken(k) <=> ~Meaningless(words[k], names)
  BY DEF Meaningless, Means
<1> HIDE DEF O, n, taken, opt
<1>6. \A k \in 1 .. n, s \in S : put(k, s) \in S
  <2> SUFFICES ASSUME NEW k \in 1 .. n - 1, taken(k), NEW s \in S PROVE <<opt(k)>> \o s \in S
    BY <1>1, <1>2
  <2>1. <<opt(k)>> \in S
    BY <1>3
  <2> QED BY <2>1, ConcatProperties
<1>7. \A k \in 1 .. n : after(k) \in k + 1 .. n + 1
  BY <1>1
<1> HIDE DEF S
<1>8. \E f : Is(f)
  <2>1. step \in [1 .. n -> [S -> S]]
    <3> HIDE DEF put
    <3> QED BY <1>6
  <2>2. next \in [1 .. n -> Nat] /\ \A k \in 1 .. n : next[k] \in k + 1 .. n + 1
    <3> HIDE DEF after
    <3>1. \A k \in 1 .. n : next[k] = after(k) /\ after(k) \in Nat
      BY <1>1, <1>7
    <3> QED BY <1>7, <3>1
  <2>3. PICK g : Jumping(g, S, n, << >>, step, next)
    <3> HIDE DEF step, next
    <3> QED BY <1>1, <1>2, <2>1, <2>2, Jumps
  <2>4. g \in [1 .. n + 1 -> S] /\ g[n + 1] = << >>
    BY <2>3 DEF Jumping
  <2>5. ASSUME NEW k \in 1 .. n PROVE g[k] = put(k, g[after(k)])
    <3>1. after(k) \in 1 .. n + 1 /\ next[k] = after(k)
      BY <1>1, <1>7
    <3>2. g[k] = step[k][g[next[k]]]
      BY <2>3 DEF Jumping
    <3>3. g[after(k)] \in S
      BY <2>4, <3>1
    <3> HIDE DEF next, after, put
    <3> QED BY <3>1, <3>2, <3>3
  <2>6. \A k \in 1 .. n + 1 :
          g[k] = IF k >= n THEN << >>
                 ELSE IF taken(k) THEN <<opt(k)>> \o g[k + 2] ELSE g[k + 1]
    <3> SUFFICES ASSUME NEW k \in 1 .. n + 1
                 PROVE  g[k] = IF k >= n THEN << >>
                               ELSE IF taken(k) THEN <<opt(k)>> \o g[k + 2] ELSE g[k + 1]
      OBVIOUS
    <3>1. CASE k = n + 1
      <4>1. k >= n
        BY <1>1, <3>1
      <4> QED BY <2>4, <3>1, <4>1, Zenon
    <3>2. CASE k # n + 1
      <4>1. k \in 1 .. n /\ (~(k >= n) <=> k < n)
        BY <1>1, <3>2
      <4>2. g[k] = put(k, g[after(k)])
        BY <2>5, <4>1
      <4> QED BY <4>1, <4>2, Zenon
    <3> QED BY <3>1, <3>2
  <2> QED BY <2>4, <2>6
<1> DEFINE F == CHOOSE f : Is(f)
<1>9. Is(F)
  BY <1>8
<1> HIDE DEF F
<1>10. \A k \in 1 .. n + 1 :
        F[k] = IF k >= n THEN << >>
               ELSE IF taken(k) THEN <<opt(k)>> \o F[k + 2] ELSE F[k + 1]
  BY <1>9, Zenon
<1>11. \A k \in 1 .. n + 1 : F[k] \in S
  <2> DEFINE X == {k \in Nat : F[k] \in S}
  <2>1. n + 1 \in X
    <3>1. n + 1 \in 1 .. n + 1 /\ n + 1 >= n /\ n + 1 \in Nat
      BY <1>1
    <3>2. F[n + 1] = << >>
      BY <1>10, <3>1, Zenon
    <3> QED BY <1>2, <3>1, <3>2
  <2>2. ASSUME NEW k \in 1 .. n, \A j \in k + 1 .. n + 1 : j \in X PROVE k \in X
    <3>1. k \in 1 .. n + 1 /\ k \in Nat
      BY <1>1
    <3>2. CASE k >= n
      BY <1>2, <1>10, <3>1, <3>2
    <3>3. CASE ~(k >= n) /\ taken(k)
      <4>1. k + 2 \in k + 1 .. n + 1
        BY <1>1, <3>3
      <4>2. F[k + 2] \in S /\ F[k] = <<opt(k)>> \o F[k + 2]
        BY <1>10, <2>2, <3>1, <3>3, <4>1
      <4>3. put(k, F[k + 2]) = <<opt(k)>> \o F[k + 2]
        BY <3>3
      <4> HIDE DEF put
      <4> QED BY <1>6, <3>1, <4>2, <4>3
    <3>4. CASE ~(k >= n) /\ ~taken(k)
      <4>1. k + 1 \in k + 1 .. n + 1
        BY <1>1
      <4> QED BY <1>10, <2>2, <3>1, <3>4, <4>1
    <3> QED BY <3>2, <3>3, <3>4
  <2>3. \A k \in 1 .. n + 1 : k \in X
    <3> HIDE DEF X
    <3> QED BY <1>1, <2>1, <2>2, Backwards
  <2> QED BY <2>3
<1>12. Parsing(F, words, names)
  <2> SUFFICES ASSUME NEW k \in 1 .. n - 1
      PROVE /\ \A name \in names :
                 Means(words[k], names, name) =>
                   F[k] = <<[name |-> name, optarg |-> words[k + 1]]>> \o F[k + 2]
            /\ Meaningless(words[k], names) => F[k] = F[k + 1]
    BY DEF Parsing, n
  <2>1. k \in 1 .. n /\ k \in 1 .. n + 1 /\ ~(k >= n)
    BY <1>1
  <2>2. F[k] = IF taken(k) THEN <<opt(k)>> \o F[k + 2] ELSE F[k + 1]
    BY <1>10, <2>1, Zenon
  <2>3. CASE Meaningless(words[k], names)
    BY <1>5, <2>1, <2>2, <2>3 DEF Meaningless
  <2>4. CASE ~Meaningless(words[k], names)
    BY <1>3, <1>5, <2>1, <2>2, <2>4
  <2> QED BY <2>3, <2>4
<1> QED BY <1>4, <1>11, <1>12 DEF F, n, S, O

\* A sequence with one more element in front.
LEMMA InFront ==
  ASSUME NEW S, NEW a \in S, NEW t \in Seq(S)
  PROVE  /\ Len(<<a>> \o t) = 1 + Len(t) /\ (<<a>> \o t)[1] = a
         /\ \A j \in 1 .. Len(t) : (<<a>> \o t)[1 + j] = t[j]
<1> DEFINE s == <<a>>
<1>1. s \in Seq(S) /\ Len(s) = 1 /\ s[1] = a /\ Len(t) \in Nat
  OBVIOUS
<1> HIDE DEF s
<1>2. /\ Len(s \o t) = 1 + Len(t)
      /\ \A i \in 1 .. 1 + Len(t) : (s \o t)[i] = IF i <= 1 THEN s[i] ELSE t[i - 1]
  <2>1. /\ Len(s \o t) = Len(s) + Len(t)
        /\ \A i \in 1 .. Len(s) + Len(t) :
             (s \o t)[i] = IF i <= Len(s) THEN s[i] ELSE t[i - Len(s)]
    BY <1>1, ConcatProperties
  <2> QED BY <1>1, <2>1
<1>3. ASSUME NEW j \in 1 .. Len(t) PROVE (s \o t)[1 + j] = t[j]
  <2>1. 1 + j \in 1 .. 1 + Len(t) /\ ~(1 + j <= 1) /\ 1 + j - 1 = j
    BY <1>1
  <2> QED BY <1>2, <2>1
<1> QED BY <1>1, <1>2, <1>3 DEF s

\* A word that means an option is taken for it, unless the word in front of it is
\* one, too.
LEMMA OptionTaken ==
  ASSUME NEW T, NEW words \in Seq(T), NEW names, NEW k \in 1 .. Len(words) - 1,
         NEW name, Means(words[k], names, name),
         k > 1 => Meaningless(words[k - 1], names)
  PROVE  LET options == Options(words, names)
         IN  \E i \in 1 .. Len(options) :
               /\ options[i] = [name |-> name, optarg |-> words[k + 1]]
               /\ k = 1 => i = 1
<1>1. PICK f : /\ Parsing(f, words, names) /\ Options(words, names) = f[1]
               /\ \A j \in 1 .. Len(words) + 1 : f[j] \in Seq(Optional(words, names))
  BY OptionsUnfold
<1> DEFINE o == [name |-> name, optarg |-> words[k + 1]]
           In(s) == \E i \in 1 .. Len(s) : s[i] = o
           X == {j \in Nat : In(f[j])}
<1>2. k \in Nat /\ Len(words) \in Nat /\ k <= Len(words) - 1 /\ k >= 1
  BY LenProperties
<1>3. \A j \in 1 .. k + 2 : f[j] \in Seq(Optional(words, names)) /\ Len(f[j]) \in Nat
  BY <1>1, <1>2, LenProperties
<1>4. f[k] = <<o>> \o f[k + 2]
  BY <1>1 DEF Parsing, Means
<1>5. Len(f[k]) = 1 + Len(f[k + 2]) /\ f[k][1] = o
  <2> DEFINE U == {o} \cup Optional(words, names)
  <2>1. o \in U /\ f[k + 2] \in Seq(U)
    BY <1>2, <1>3, SeqMonotonic
  <2> HIDE DEF o, U
  <2> QED BY <1>4, <2>1, InFront
<1>6. 1 \in 1 .. Len(f[k])
  BY <1>2, <1>3, <1>5
<1>7. CASE k = 1
  BY <1>1, <1>5, <1>6, <1>7
<1>8. CASE k > 1
  <2>1. k - 1 + 1 \in X /\ k - 1 \in Nat /\ k - 1 + 1 = k
    BY <1>2, <1>5, <1>6
  <2>2. ASSUME NEW i \in 1 .. k - 1, \A j \in i + 1 .. k - 1 + 1 : j \in X PROVE i \in X
    <3>0. i \in Nat /\ i \in 1 .. Len(words) - 1 /\ i + 1 \in 1 .. k + 2 /\ i + 2 \in 1 .. k + 2
      BY <1>2
    <3>1. CASE Meaningless(words[i], names)
      <4>1. f[i] = f[i + 1]
        BY <1>1, <3>0, <3>1 DEF Parsing
      <4>2. i + 1 \in X
        <5>1. i + 1 \in i + 1 .. k - 1 + 1
          BY <1>2
        <5> QED BY <2>2, <5>1
      <4> QED BY <3>0, <4>1, <4>2
    <3>2. CASE ~Meaningless(words[i], names)
      <4>1. i + 2 \in X
        <5>1. i # k - 1
          BY <1>8, <3>2
        <5>2. i + 2 \in i + 1 .. k - 1 + 1
          BY <1>2, <5>1
        <5> QED BY <2>2, <5>2
      <4>2. PICK x \in names : Means(words[i], names, x)
        BY <3>2 DEF Meaningless
      <4> DEFINE p == [name |-> x, optarg |-> words[i + 1]]
                 U == {p} \cup Optional(words, names)
      <4>3. f[i] = <<p>> \o f[i + 2]
        BY <1>1, <3>0, <4>2 DEF Parsing
      <4>4. p \in U /\ f[i + 2] \in Seq(U)
        BY <1>3, <3>0, SeqMonotonic
      <4> HIDE DEF p, U
      <4>5. /\ Len(f[i]) = 1 + Len(f[i + 2])
            /\ \A j \in 1 .. Len(f[i + 2]) : f[i][1 + j] = f[i + 2][j]
        <5> DEFINE t == f[i + 2]
        <5>1. /\ Len(<<p>> \o t) = 1 + Len(t)
              /\ \A j \in 1 .. Len(t) : (<<p>> \o t)[1 + j] = t[j]
          <6> HIDE DEF t
          <6>1. t \in Seq(U)
            BY <4>4 DEF t
          <6> QED BY <4>4, <6>1, InFront
        <5> QED BY <4>3, <5>1
      <4>6. PICK j \in 1 .. Len(f[i + 2]) : f[i + 2][j] = o
        BY <4>1
      <4>7. 1 + j \in 1 .. Len(f[i]) /\ f[i][1 + j] = o
        <5>1. Len(f[i + 2]) \in Nat
          BY <1>3, <3>0
        <5>2. 1 + j \in 1 .. 1 + Len(f[i + 2])
          BY <5>1
        <5> QED BY <4>5, <4>6, <5>2
      <4>8. In(f[i])
        BY <4>7
      <4> QED BY <3>0, <4>8
    <3> QED BY <3>1, <3>2
  <2>3. \A i \in 1 .. k - 1 + 1 : i \in X
    <3> HIDE DEF X
    <3> QED BY <2>1, <2>2, Backwards
  <2>4. 1 \in X
    BY <1>2, <2>3
  <2> QED BY <1>1, <1>8, <2>4
<1> QED BY <1>2, <1>7, <1>8

\* What tocnpwg has read of its options, one after the other, stays in a set that
\* each of them keeps.
LEMMA MeasuredUnfold ==
  ASSUME NEW S, NEW first \in S, NEW options, Len(options) \in Nat,
         \A i \in 1 .. Len(options), s \in S : Measure(s, options[i]) \in S
  PROVE  \E f : /\ f[0] = first /\ Measured(first, options) = f[Len(options)]
                /\ \A i \in 1 .. Len(options) : f[i] = Measure(f[i - 1], options[i])
                /\ \A i \in 0 .. Len(options) : f[i] \in S
<1> DEFINE n == Len(options)
           next(s, i) == Measure(s, options[i])
           Is(f) == f = [i \in 0 .. n |-> IF i = 0 THEN first ELSE next(f[i - 1], i)]
           step == [i \in 1 .. n |-> [s \in S |-> next(s, i)]]
<1>1. n \in Nat /\ \A i \in 1 .. n, s \in S : next(s, i) \in S
  OBVIOUS
<1>2. Measured(first, options) = (CHOOSE f : Is(f))[n]
  BY DEF Measured
<1> HIDE DEF n, next
<1>3. \E f : Is(f)
  <2>1. step \in [1 .. n -> [S -> S]]
    BY <1>1
  <2>2. PICK g : Stepping(g, S, n, first, step)
    <3> HIDE DEF step
    <3> QED BY <1>1, <2>1, Steps
  <2>3. g \in [0 .. n -> S] /\ g[0] = first
    BY <2>2 DEF Stepping
  <2>4. \A i \in 0 .. n : g[i] = IF i = 0 THEN first ELSE next(g[i - 1], i)
    <3> SUFFICES ASSUME NEW i \in 1 .. n PROVE g[i] = next(g[i - 1], i)
      BY <1>1, <2>3
    <3>1. g[i - 1] \in S
      BY <1>1, <2>3
    <3>2. g[i] = step[i][g[i - 1]]
      BY <2>2 DEF Stepping
    <3> QED BY <3>1, <3>2
  <2> QED BY <2>3, <2>4
<1> DEFINE F == CHOOSE f : Is(f)
<1>4. Is(F)
  BY <1>3
<1>5. F[0] = first /\ \A i \in 1 .. n : F[i] = next(F[i - 1], i)
  <2> HIDE DEF F
  <2> QED BY <1>1, <1>4
<1>6. \A i \in 0 .. n : F[i] \in S
  <2> HIDE DEF F
  <2> QED BY <1>1, <1>5, Kept
<1> HIDE DEF F
<1> QED BY <1>2, <1>5, <1>6 DEF F, n, next

\* ... and tocanonij.
LEMMA HandledUnfold ==
  ASSUME NEW S, NEW first \in S, NEW options, Len(options) \in Nat,
         \A i \in 1 .. Len(options), s \in S : Handle(s, options[i]) \in S
  PROVE  \E f : /\ f[0] = first /\ Handled(first, options) = f[Len(options)]
                /\ \A i \in 1 .. Len(options) : f[i] = Handle(f[i - 1], options[i])
                /\ \A i \in 0 .. Len(options) : f[i] \in S
<1> DEFINE n == Len(options)
           next(s, i) == Handle(s, options[i])
           Is(f) == f = [i \in 0 .. n |-> IF i = 0 THEN first ELSE next(f[i - 1], i)]
           step == [i \in 1 .. n |-> [s \in S |-> next(s, i)]]
<1>1. n \in Nat /\ \A i \in 1 .. n, s \in S : next(s, i) \in S
  OBVIOUS
<1>2. Handled(first, options) = (CHOOSE f : Is(f))[n]
  BY DEF Handled
<1> HIDE DEF n, next
<1>3. \E f : Is(f)
  <2>1. step \in [1 .. n -> [S -> S]]
    BY <1>1
  <2>2. PICK g : Stepping(g, S, n, first, step)
    <3> HIDE DEF step
    <3> QED BY <1>1, <2>1, Steps
  <2>3. g \in [0 .. n -> S] /\ g[0] = first
    BY <2>2 DEF Stepping
  <2>4. \A i \in 0 .. n : g[i] = IF i = 0 THEN first ELSE next(g[i - 1], i)
    <3> SUFFICES ASSUME NEW i \in 1 .. n PROVE g[i] = next(g[i - 1], i)
      BY <1>1, <2>3
    <3>1. g[i - 1] \in S
      BY <1>1, <2>3
    <3>2. g[i] = step[i][g[i - 1]]
      BY <2>2 DEF Stepping
    <3> QED BY <3>1, <3>2
  <2> QED BY <2>3, <2>4
<1> DEFINE F == CHOOSE f : Is(f)
<1>4. Is(F)
  BY <1>3
<1>5. F[0] = first /\ \A i \in 1 .. n : F[i] = next(F[i - 1], i)
  <2> HIDE DEF F
  <2> QED BY <1>1, <1>4
<1>6. \A i \in 0 .. n : F[i] \in S
  <2> HIDE DEF F
  <2> QED BY <1>1, <1>5, Kept
<1> HIDE DEF F
<1> QED BY <1>2, <1>5, <1>6 DEF F, n, next

-----------------------------------------------------------------------------
(***************************************************************************)
(* The entries of a job: what their keys and values are to the filters.    *)
(***************************************************************************)
OfId(j) == [key |-> "--jobid", value |-> j.jobID]
OfUuid(j) == [key |-> "--uuid", value |-> j.uuid]
OfArea(a) == {[key |-> "--printable_width", value |-> a.width],
              [key |-> "--printable_height", value |-> a.height]}

\* All entries there can be in the two lists of a job, given an area.
OfJob(j) == Collected(j.choices) \cup {OfId(j), OfUuid(j)}
Entries(j, a) == OfJob(j) \cup OfArea(a)

Names == CnpwgNames \cup CanonijNames

\* A word that can be told from the options.
Plain(word) == word # NoValue /\ ~Named(word)

\* The words of a row are words.
LEMMA RowTyped ==
  ASSUME NEW l \in DOMAIN Ppd, NEW w \in Nat, w > 0, w <= Len(Ppd[l])
  PROVE  Ppd[l][w] # NoValue
<1>1. Ppd[l] \in Seq(STRING)
  BY PpdAssumption, ElementOfSeq
<1>2. w \in 1 .. Len(Ppd[l]) /\ DOMAIN Ppd[l] = 1 .. Len(Ppd[l])
  BY <1>1, LenProperties
<1> QED BY <1>1, <1>2, PpdAssumption, ElementOfSeq

\* A table has numbers of lines.
LEMMA RowsAreLines ==
  ASSUME NEW name
  PROVE  Rows(name) \subseteq DOMAIN Ppd /\ Rows(name) \subseteq Nat
<1>1. DOMAIN Ppd = 1 .. Len(Ppd) /\ Len(Ppd) \in Nat
  BY PpdAssumption, LenProperties
<1> QED BY <1>1 DEF Rows

\* The area of a size is two plain words.
LEMMA AreaPlain ==
  ASSUME NEW size
  PROVE  /\ Plain(AreaOf(size).width) /\ Plain(AreaOf(size).height)
         /\ AreaOf(size) = [width |-> AreaOf(size).width, height |-> AreaOf(size).height]
<1> DEFINE rows == {l \in alloc_size_to_print_area_table : Ppd[l][2] = size}
           first == CHOOSE l \in rows : \A k \in rows : l <= k
<1>1. CASE rows = {}
  <2>1. AreaOf(size) = [width |-> "0", height |-> "0"]
    BY <1>1 DEF AreaOf
  <2>2. Plain("0")
    BY ValueAssumption DEF Plain, NoValue
  <2> QED BY <2>1, <2>2
<1>2. CASE rows # {}
  <2>1. alloc_size_to_print_area_table \subseteq Rows("*%CNSizeToPrintArea")
    BY DEF alloc_size_to_print_area_table
  <2>2. \E l \in rows : \A k \in rows : l <= k
    <3>1. rows \in SUBSET Nat
      BY <2>1, RowsAreLines
    <3> HIDE DEF rows
    <3> QED BY <1>2, <3>1, Least
  <2>3. first \in rows
    <3> HIDE DEF rows
    <3> QED BY <2>2
  <2>4. AreaOf(size) = [width |-> Ppd[first][3], height |-> Ppd[first][4]]
    BY <1>2 DEF AreaOf
  <2> HIDE DEF first
  <2>5. first \in alloc_size_to_print_area_table /\ first \in DOMAIN Ppd
    BY <2>1, <2>3, RowsAreLines
  <2>6. Len(Ppd[first]) >= 4 /\ Len(Ppd[first]) \in Nat
    <3>1. Ppd[first] # << >> /\ Ppd[first][1] = "*%CNSizeToPrintArea"
      BY <2>1, <2>5 DEF Rows
    <3>2. Ppd[first] \in Seq(STRING)
      BY <2>5, PpdAssumption, ElementOfSeq
    <3> QED BY <2>5, <3>1, <3>2, PpdAssumption, LenProperties
  <2>7. Plain(Ppd[first][3]) /\ Plain(Ppd[first][4])
    BY <2>5, <2>6, RowTyped, ValueAssumption DEF Plain
  <2> QED BY <2>4, <2>7
<1> QED BY <1>1, <1>2

\* The values are no options, and only a job's number and UUID may be empty.
LEMMA EntriesPlain ==
  ASSUME NEW j \in Jobs, NEW a, Plain(a.width), Plain(a.height),
         NEW e \in Entries(j, a)
  PROVE  ~Named(e.value) /\ (e.value = NoValue => e \in {OfId(j), OfUuid(j)})
<1>1. CASE e = OfPath
  BY <1>1, ValueAssumption DEF OfPath, FilterPath, NoValue
<1>2. CASE e \in {OfId(j), OfUuid(j)}
  BY <1>2, ValueAssumption DEF OfId, OfUuid
<1>3. CASE e \in OfArea(a)
  BY <1>3 DEF OfArea, Plain
<1>4. ASSUME NEW l \in alloc_opt_key_table, Ppd[l][2] \in DOMAIN j.choices,
             e = [key |-> Ppd[l][3], value |-> j.choices[Ppd[l][2]]]
      PROVE  ~Named(e.value) /\ e.value # NoValue
  BY <1>4, ValueAssumption
<1> QED BY <1>1, <1>2, <1>3, <1>4 DEF Entries, OfJob, Collected

\* A key that stands for an option has the value that is for it.
LEMMA KeyOfOption ==
  ASSUME NEW j \in Jobs, NEW a, NEW e \in Entries(j, a), NEW name \in Names,
         Stands(e.key, name)
  PROVE  /\ name \in DOMAIN Choice => e.value = j.choices[Choice[name]]
                                      /\ Choice[name] \in DOMAIN j.choices
         /\ name = "jobid" => e = OfId(j)
         /\ name = "uuid" => e = OfUuid(j)
         /\ name = "printable_width" => e.value = a.width
         /\ name = "printable_height" => e.value = a.height
<1>0. DOMAIN Choice = {"papersize", "mediatype", "grayscale", "duplexprint"}
  BY DEF Choice
<1>1. CASE e = OfPath
  <2>1. name = "filterpath"
    BY <1>1, KeyAssumption DEF OfPath, Names
  <2> QED BY <1>0, <2>1
<1>2. CASE e = OfId(j)
  <2>1. name = "jobid"
    BY <1>2, KeyAssumption DEF OfId, Names
  <2> QED BY <1>0, <1>2, <2>1
<1>3. CASE e = OfUuid(j)
  <2>1. name = "uuid"
    BY <1>3, KeyAssumption DEF OfUuid, Names
  <2> QED BY <1>0, <1>3, <2>1
<1>4. CASE e = [key |-> "--printable_width", value |-> a.width]
  <2>1. name = "printable_width"
    BY <1>4, KeyAssumption DEF Names
  <2> QED BY <1>0, <1>4, <2>1
<1>5. CASE e = [key |-> "--printable_height", value |-> a.height]
  <2>1. name = "printable_height"
    BY <1>5, KeyAssumption DEF Names
  <2> QED BY <1>0, <1>5, <2>1
<1>6. ASSUME NEW l \in alloc_opt_key_table, Ppd[l][2] \in DOMAIN j.choices,
             e = [key |-> Ppd[l][3], value |-> j.choices[Ppd[l][2]]]
      PROVE  name \in DOMAIN Choice /\ e.value = j.choices[Choice[name]]
             /\ Choice[name] \in DOMAIN j.choices
  BY <1>6, KeyAssumption DEF Names
<1> QED BY <1>0, <1>1, <1>2, <1>3, <1>4, <1>5, <1>6 DEF Entries, OfJob, Collected, OfArea

\* So an option that getopt_long() finds has the value it was given, whatever
\* words there are in front of it.
LEMMA OptionValue ==
  ASSUME NEW j \in Jobs, NEW a, Plain(a.width), Plain(a.height),
         NEW words \in Paired(Entries(j, a)), NEW names \in SUBSET Names,
         NEW o \in Optional(words, names)
  PROVE  /\ o.name \in DOMAIN Choice => o.optarg = j.choices[Choice[o.name]]
                                        /\ Choice[o.name] \in DOMAIN j.choices
         /\ o.name = "uuid" /\ j.uuid # NoValue => o.optarg = j.uuid
         /\ o.name = "printable_width" => o.optarg = a.width
         /\ o.name = "printable_height" => o.optarg = a.height
<1>1. PICK k \in 1 .. Len(words) - 1 :
        Means(words[k], names, o.name) /\ o.optarg = words[k + 1]
  BY DEF Optional
<1>2. o.name \in Names /\ Stands(words[k], o.name)
  BY <1>1 DEF Means
<1>3. Len(words) \in Nat /\ k \in 1 .. Len(words)
  BY LenProperties DEF Paired
<1>4. PICK e \in Entries(j, a) :
        \/ words[k] = e.value /\ e.value # NoValue
        \/ /\ words[k] = e.key
           /\ e.value # NoValue => k < Len(words) /\ words[k + 1] = e.value
  BY <1>3 DEF Paired
<1>5. words[k] = e.key /\ (e.value # NoValue => o.optarg = e.value)
  <2>1. ~Named(e.value)
    BY EntriesPlain
  <2>2. words[k] # e.value
    BY <1>2, <2>1 DEF Named, Names
  <2> QED BY <1>1, <1>4, <2>2
<1>6. Stands(e.key, o.name)
  BY <1>2, <1>5
<1>7. o.name \notin {"jobid", "uuid"} => e.value # NoValue
  <2> SUFFICES ASSUME e.value = NoValue PROVE o.name \in {"jobid", "uuid"}
    OBVIOUS
  <2>1. e \in {OfId(j), OfUuid(j)}
    BY EntriesPlain
  <2>2. e.key \in {"--jobid", "--uuid"}
    BY <2>1 DEF OfId, OfUuid
  <2> QED BY <1>2, <1>6, <2>2, KeyAssumption DEF Names
<1>8. "jobid" \notin DOMAIN Choice /\ "uuid" \notin DOMAIN Choice
  BY DEF Choice
<1>9. o.name = "uuid" => e.value = j.uuid
  BY <1>2, <1>6, KeyOfOption DEF OfUuid
<1> QED BY <1>2, <1>5, <1>6, <1>7, <1>8, <1>9, KeyOfOption

\* The words of the area, which are the last ones that tocnpwg gets.
AreaWords(a) == <<"--printable_height", a.height, "--printable_width", a.width>>

LEMMA WordsOfArea ==
  ASSUME NEW a, Plain(a.width), Plain(a.height)
  PROVE  LET list == Add(Add(<< >>, "--printable_width", a.width),
                         "--printable_height", a.height)
         IN  Words(list) = AreaWords(a) /\ Words(list) \in Paired(OfArea(a))
<1> DEFINE w == [key |-> "--printable_width", value |-> a.width]
           h == [key |-> "--printable_height", value |-> a.height]
           list == <<h, w>>
<1>1. Add(<< >>, "--printable_width", a.width) = <<w>>
  BY DEF Add
<1>2. Add(<<w>>, "--printable_height", a.height) = list
  <2>1. \A e \in DOMAIN <<w>> : <<w>>[e].key # "--printable_height"
    OBVIOUS
  <2>2. <<h>> \o <<w>> = list
    <3> HIDE DEF h, w
    <3>1. /\ <<h>> \in Seq({h, w}) /\ Len(<<h>>) = 1 /\ <<h>>[1] = h
          /\ <<w>> \in Seq({h, w}) /\ Len(<<w>>) = 1 /\ <<w>>[1] = w
          /\ list \in Seq({h, w}) /\ Len(list) = 2 /\ list[1] = h /\ list[2] = w
      OBVIOUS
    <3> DEFINE hw == <<h>> \o <<w>>
    <3>2. hw \in Seq({h, w}) /\ Len(hw) = 2 /\ hw[1] = h /\ hw[1 + 1] = w
      BY <3>1, ConcatProperties
    <3> HIDE DEF hw, list
    <3>3. \A i \in 1 .. 2 : hw[i] = list[i]
      BY <3>1, <3>2
    <3> QED BY <3>1, <3>2, <3>3, SeqEqual DEF hw
  <2> QED BY <2>1, <2>2 DEF Add
<1>3. Pair(h) = <<"--printable_height", a.height>> /\ Pair(w) = <<"--printable_width", a.width>>
  BY DEF Pair, Plain
<1>4. /\ list \in Seq(OfArea(a)) /\ Len(list) = 2 /\ list[1] = h /\ list[2] = w
  <2>1. h \in OfArea(a) /\ w \in OfArea(a)
    BY DEF OfArea
  <2> HIDE DEF h, w
  <2> QED BY <2>1
<1> HIDE DEF h, w, list
<1>5. PICK f : /\ Wording(f, list) /\ Words(list) = f[1]
               /\ \A e \in 1 .. Len(list) + 1 : f[e] \in Paired(OfArea(a))
  BY <1>4, WordsUnfold
<1>6. f[3] = << >> /\ f[2] = Pair(w) \o f[3] /\ f[1] = Pair(h) \o f[2] /\ f[1] \in Paired(OfArea(a))
  BY <1>4, <1>5 DEF Wording
<1>7. f[1] = AreaWords(a)
  <2> DEFINE hk == "--printable_height"
             wk == "--printable_width"
             T == {hk, a.height, wk, a.width}
             hs == <<hk, a.height>>
             ws == <<wk, a.width>>
             all == <<hk, a.height, wk, a.width>>
  <2>1. f[1] = hs \o (ws \o << >>)
    BY <1>3, <1>6
  <2>2. /\ hs \in Seq(T) /\ Len(hs) = 2 /\ hs[1] = hk /\ hs[2] = a.height
        /\ ws \in Seq(T) /\ Len(ws) = 2 /\ ws[1] = wk /\ ws[2] = a.width
        /\ all \in Seq(T) /\ Len(all) = 4
        /\ all[1] = hk /\ all[2] = a.height /\ all[3] = wk /\ all[4] = a.width
    <3> HIDE DEF hk, wk
    <3> QED OBVIOUS
  <2>3. AreaWords(a) = all
    BY DEF AreaWords
  <2> HIDE DEF hk, wk, T, hs, ws, all
  <2>4. ws \o << >> = ws
    BY <2>2, ConcatEmptySeq
  <2> DEFINE both == hs \o ws
  <2>5. /\ both \in Seq(T) /\ Len(both) = 4
        /\ both[1] = hk /\ both[2] = a.height /\ both[3] = wk /\ both[4] = a.width
    <3>1. /\ both \in Seq(T) /\ Len(both) = Len(hs) + Len(ws)
          /\ \A i \in 1 .. Len(hs) + Len(ws) :
               both[i] = IF i <= Len(hs) THEN hs[i] ELSE ws[i - Len(hs)]
      BY <2>2, ConcatProperties
    <3> HIDE DEF both
    <3> QED BY <2>2, <3>1
  <2> HIDE DEF both
  <2>6. \A i \in 1 .. 4 : both[i] = all[i]
    BY <2>2, <2>5
  <2>7. both = all
    BY <2>2, <2>5, <2>6, SeqEqual
  <2> QED BY <2>1, <2>3, <2>4, <2>7 DEF both
<1> QED BY <1>1, <1>2, <1>5, <1>6, <1>7

\* What is in some entries is in more.
LEMMA PairedMonotonic ==
  ASSUME NEW E, NEW entries, E \subseteq entries, NEW words \in Paired(E)
  PROVE  words \in Paired(entries)
<1>1. WordsOf(E) \subseteq WordsOf(entries)
  BY DEF WordsOf
<1>2. words \in Seq(WordsOf(entries))
  BY <1>1, SeqMonotonic DEF Paired
<1> QED BY <1>2 DEF Paired

\* main() puts the job in front of its choices, and the UUID first.
LEMMA WordsOfJob ==
  ASSUME asked \in Jobs, NEW list \in Seq(Collected(asked.choices))
  PROVE  LET words == Words(WithJob(list))
         IN  /\ words \in Paired(OfJob(asked))
             /\ asked.uuid # NoValue =>
                  Len(words) >= 2 /\ words[1] = "--uuid" /\ words[2] = asked.uuid
<1> DEFINE E == OfJob(asked)
           id == OfId(asked)
           u == OfUuid(asked)
           more == <<id>> \o list
           all == <<u>> \o more
<1>1. \A e \in Collected(asked.choices) : e.key # "--jobid" /\ e.key # "--uuid"
  <2>1. /\ "jobid" \in CnpwgNames \cup CanonijNames /\ "uuid" \in CnpwgNames \cup CanonijNames
        /\ "jobid" \notin DOMAIN Choice /\ "uuid" \notin DOMAIN Choice
    BY DEF CanonijNames, Choice
  <2>2. Stands("--jobid", "jobid") /\ Stands("--uuid", "uuid")
    BY <2>1, KeyAssumption
  <2>3. \A l \in alloc_opt_key_table : Ppd[l][3] # "--jobid" /\ Ppd[l][3] # "--uuid"
    BY <2>1, <2>2, KeyAssumption
  <2> QED BY <2>3 DEF Collected, OfPath
<1>2. \A e \in DOMAIN list : list[e] \in Collected(asked.choices)
  BY LenProperties, ElementOfSeq
<1>3. Add(list, "--jobid", asked.jobID) = more
  BY <1>1, <1>2 DEF Add, OfId
<1>4. /\ list \in Seq(E) /\ id \in E /\ u \in E
  <2>1. Collected(asked.choices) \subseteq E /\ id \in E /\ u \in E
    BY DEF OfJob
  <2> HIDE DEF E, id, u
  <2> QED BY <2>1, SeqMonotonic
<1>5. /\ more \in Seq(E) /\ Len(more) = Len(list) + 1 /\ more[1] = id
      /\ \A e \in 1 .. Len(list) : more[1 + e] = list[e]
  <2>1. <<id>> \in Seq(E) /\ Len(<<id>>) = 1 /\ <<id>>[1] = id
    BY <1>4
  <2> HIDE DEF id, E
  <2> QED BY <1>4, <2>1, ConcatProperties
<1>6. Add(more, "--uuid", asked.uuid) = all
  <2>1. DOMAIN more = 1 .. Len(more) /\ DOMAIN list = 1 .. Len(list) /\ Len(list) \in Nat
    BY <1>4, <1>5, LenProperties
  <2> HIDE DEF more, id
  <2>2. ASSUME NEW e \in DOMAIN more PROVE more[e].key # "--uuid"
    <3>1. CASE e = 1
      BY <1>5, <3>1 DEF id, OfId
    <3>2. CASE e # 1
      <4>1. e - 1 \in 1 .. Len(list) /\ 1 + (e - 1) = e
        BY <1>5, <2>1, <3>2
      <4>2. more[e] = list[e - 1]
        BY <1>5, <4>1
      <4> QED BY <1>1, <1>2, <2>1, <4>1, <4>2
    <3> QED BY <3>1, <3>2
  <2> QED BY <2>2 DEF Add, OfUuid
<1>7. WithJob(list) = all
  BY <1>3, <1>6 DEF WithJob
<1>8. /\ all \in Seq(E) /\ Len(all) = Len(more) + 1 /\ all[1] = u /\ Len(all) \in Nat
  <2>1. <<u>> \in Seq(E) /\ Len(<<u>>) = 1 /\ <<u>>[1] = u
    BY <1>4
  <2> HIDE DEF u, E, more
  <2> QED BY <1>5, <2>1, ConcatProperties, LenProperties
<1>9. Len(more) \in Nat
  BY <1>5, LenProperties
<1> HIDE DEF all, more, E
<1>10. PICK f : /\ Wording(f, all) /\ Words(all) = f[1]
                /\ \A e \in 1 .. Len(all) + 1 : f[e] \in Paired(E)
  BY <1>8, WordsUnfold
<1>11. /\ f[1] = Pair(u) \o f[2]
       /\ f[1] \in Paired(E) /\ f[2] \in Seq(WordsOf(E))
  <2>1. 1 \in 1 .. Len(all) /\ 1 \in 1 .. Len(all) + 1 /\ 2 \in 1 .. Len(all) + 1 /\ 1 + 1 = 2
    BY <1>8, <1>9
  <2>2. f[1] = Pair(all[1]) \o f[1 + 1]
    BY <1>10, <2>1 DEF Wording
  <2> QED BY <1>8, <1>10, <2>1, <2>2 DEF Paired
<1>12. ASSUME asked.uuid # NoValue
       PROVE  Len(f[1]) >= 2 /\ f[1][1] = "--uuid" /\ f[1][2] = asked.uuid
  <2> DEFINE p == <<u.key, u.value>>
  <2>1. Pair(u) = p /\ u.key = "--uuid" /\ u.value = asked.uuid
    BY <1>12 DEF Pair, OfUuid
  <2>2. p \in Seq(WordsOf(E)) /\ Len(p) = 2 /\ p[1] = u.key /\ p[2] = u.value
    <3>1. u.key \in WordsOf(E) /\ u.value \in WordsOf(E)
      BY <1>4 DEF WordsOf
    <3> HIDE DEF u
    <3> QED BY <3>1
  <2> HIDE DEF p, u
  <2>3. f[1] = p \o f[2] /\ Len(f[2]) \in Nat
    BY <1>11, <2>1, LenProperties
  <2>4. Len(f[1]) = 2 + Len(f[2]) /\ f[1][1] = p[1] /\ f[1][2] = p[2]
    <3> DEFINE t == f[2]
               c == p \o t
    <3>1. /\ Len(c) = Len(p) + Len(t)
          /\ \A i \in 1 .. Len(p) + Len(t) : c[i] = IF i <= Len(p) THEN p[i] ELSE t[i - Len(p)]
      BY <1>11, <2>2, ConcatProperties
    <3>2. f[1] = c /\ Len(t) \in Nat
      BY <2>3
    <3> HIDE DEF c, t
    <3> QED BY <2>2, <3>1, <3>2 DEF t
  <2> QED BY <2>1, <2>2, <2>3, <2>4
<1> QED BY <1>7, <1>10, <1>11, <1>12 DEF E

\* Only words of the job's number or UUID can be the last without being a value,
\* and neither is an option of tocnpwg.
LEMMA LastMeaningless ==
  ASSUME NEW j \in Jobs, NEW a, Plain(a.width), Plain(a.height),
         NEW words \in Paired(OfJob(j)), Len(words) > 0
  PROVE  Meaningless(words[Len(words)], CnpwgNames)
<1>1. Len(words) \in Nat /\ Len(words) \in 1 .. Len(words)
  BY LenProperties DEF Paired
<1>2. PICK e \in OfJob(j) :
        \/ words[Len(words)] = e.value
        \/ words[Len(words)] = e.key /\ e.value = NoValue
  BY <1>1 DEF Paired
<1>3. e \in Entries(j, a)
  BY DEF Entries
<1>4. CASE words[Len(words)] = e.value
  <2>1. ~Named(e.value)
    BY <1>3, EntriesPlain
  <2> QED BY <1>4, <2>1 DEF Named, Means, Meaningless
<1>5. CASE words[Len(words)] = e.key /\ e.value = NoValue
  <2>1. e.key \in {"--jobid", "--uuid"}
    BY <1>3, <1>5, EntriesPlain DEF OfId, OfUuid
  <2>2. \A name \in CnpwgNames : ~Stands(e.key, name)
    BY <2>1, KeyAssumption DEF CnpwgNames
  <2> QED BY <1>5, <2>2 DEF Means, Meaningless
<1> QED BY <1>2, <1>4, <1>5

-----------------------------------------------------------------------------
(***************************************************************************)
(* What the filters have read when they have read all of their words.      *)
(***************************************************************************)
\* What tocanonij has before it reads an option, and what it can have then.
Unread == [papersize |-> Unset, mediatype |-> Unset, borderlessprint |-> Unset,
           colormode |-> Unset, duplexprint |-> Unset]

Readable(choices) ==
  [papersize       : {Unset, ConvertStrToID(choices["PageSize"])},
   mediatype       : {Unset, ConvertStrToID(choices["MediaType"])},
   borderlessprint : {Unset, IsBorderless(choices["PageSize"])},
   colormode       : {Unset, ConvertStrToID(choices["CNGrayscale"])},
   duplexprint     : {Unset, ConvertStrToID(choices["Duplex"])}]

\* No option changes a setting to anything but what was asked.
LEMMA SetReadable ==
  ASSUME NEW choices, NEW s \in Readable(choices), NEW o,
         o.name \in DOMAIN Choice => o.optarg = choices[Choice[o.name]]
  PROVE  Set(s, o) \in Readable(choices)
<1>0. DOMAIN Choice = {"papersize", "mediatype", "grayscale", "duplexprint"}
  BY DEF Choice
<1>1. CASE o.name = "papersize"
  <2>1. o.optarg = choices["PageSize"]
    BY <1>0, <1>1 DEF Choice
  <2> QED BY <1>1, <2>1 DEF Set, Readable
<1>2. CASE o.name = "mediatype"
  <2>1. o.optarg = choices["MediaType"]
    BY <1>0, <1>2 DEF Choice
  <2> QED BY <1>2, <2>1 DEF Set, Readable
<1>3. CASE o.name = "grayscale"
  <2>1. o.optarg = choices["CNGrayscale"]
    BY <1>0, <1>3 DEF Choice
  <2> QED BY <1>3, <2>1 DEF Set, Readable
<1>4. CASE o.name = "duplexprint"
  <2>1. o.optarg = choices["Duplex"]
    BY <1>0, <1>4 DEF Choice
  <2> QED BY <1>4, <2>1 DEF Set, Readable
<1>5. CASE o.name \notin {"papersize", "mediatype", "grayscale", "duplexprint"}
  BY <1>5 DEF Set
<1> QED BY <1>1, <1>2, <1>3, <1>4, <1>5

\* tocanonij reads the settings of the job, and its UUID.
LEMMA ReadAsAsked ==
  ASSUME NEW j \in Jobs, NEW words \in Paired(OfJob(j))
  PROVE  LET last == Handled([settings |-> Unread, uuid |-> NoValue],
                             Options(words, CanonijNames))
         IN  /\ last.settings \in Readable(j.choices)
             /\ (/\ j.uuid # NoValue
                 /\ Len(words) >= 2 /\ words[1] = "--uuid" /\ words[2] = j.uuid)
                   => last.uuid = j.uuid
<1> DEFINE names == CanonijNames
           options == Options(words, names)
           O == Optional(words, names)
           n == Len(options)
           first == [settings |-> Unread, uuid |-> NoValue]
           S == [settings : Readable(j.choices), uuid : {NoValue} \cup {o.optarg : o \in O}]
           a == AreaOf(NoValue)
<1>1. words \in Paired(Entries(j, a))
  <2>1. OfJob(j) \subseteq Entries(j, a)
    BY DEF Entries
  <2> QED BY <2>1, PairedMonotonic
<1>2. Plain(a.width) /\ Plain(a.height) /\ names \in SUBSET Names
  BY AreaPlain DEF Names
<1>3. words \in Seq(WordsOf(OfJob(j))) /\ Len(words) \in Nat
  BY LenProperties DEF Paired
<1>4. options \in Seq(O) /\ n \in Nat /\ \A i \in 1 .. n : options[i] \in O
  <2>1. options \in Seq(O)
    <3>1. 1 \in 1 .. Len(words) + 1
      BY <1>3
    <3> QED BY <1>3, <3>1, OptionsUnfold
  <2> HIDE DEF options, O
  <2> QED BY <2>1, LenProperties, ElementOfSeq
<1> HIDE DEF options, names, a
<1>5. \A o \in O : /\ o.name \in DOMAIN Choice => o.optarg = j.choices[Choice[o.name]]
                   /\ o.name = "uuid" /\ j.uuid # NoValue => o.optarg = j.uuid
  BY <1>1, <1>2, OptionValue
<1> HIDE DEF O
<1>6. first \in S
  BY DEF Readable, Unread
<1>7. \A i \in 1 .. n, h \in S : Handle(h, options[i]) \in S
  <2> SUFFICES ASSUME NEW i \in 1 .. n, NEW h \in S PROVE Handle(h, options[i]) \in S
    OBVIOUS
  <2>1. h.settings \in Readable(j.choices) /\ h.uuid \in {NoValue} \cup {o.optarg : o \in O}
    OBVIOUS
  <2>2. Set(h.settings, options[i]) \in Readable(j.choices)
    BY <1>4, <1>5, <2>1, SetReadable
  <2>3. JobNumber(h.uuid, options[i]) \in {NoValue} \cup {o.optarg : o \in O}
    BY <1>4, <2>1 DEF JobNumber
  <2> QED BY <2>2, <2>3 DEF Handle
<1> HIDE DEF S, first, n
<1>8. PICK f : /\ f[0] = first /\ Handled(first, options) = f[n]
               /\ \A i \in 1 .. n : f[i] = Handle(f[i - 1], options[i])
               /\ \A i \in 0 .. n : f[i] \in S
  BY <1>4, <1>6, <1>7, HandledUnfold DEF n
<1>9. f[n].settings \in Readable(j.choices)
  <2>1. f[n] \in S
    BY <1>4, <1>8
  <2> QED BY <2>1 DEF S
<1>10. ASSUME j.uuid # NoValue, Len(words) >= 2, words[1] = "--uuid", words[2] = j.uuid
       PROVE  f[n].uuid = j.uuid
  <2>1. Means(words[1], names, "uuid")
    <3>1. "uuid" \in names /\ names \subseteq CnpwgNames \cup CanonijNames
      BY DEF names, CanonijNames
    <3>2. \A name \in names : Stands("--uuid", name) <=> name = "uuid"
      BY <3>1, KeyAssumption
    <3>3. {x \in names : Stands("--uuid", x)} = {"uuid"}
      BY <3>1, <3>2
    <3> QED BY <1>10, <3>1, <3>3 DEF Means
  <2>2. 1 \in 1 .. n /\ options[1] = [name |-> "uuid", optarg |-> words[1 + 1]]
    <3>1. 1 \in 1 .. Len(words) - 1 /\ ~(1 > 1)
      BY <1>3, <1>10
    <3>2. \E i \in 1 .. Len(Options(words, names)) :
            /\ Options(words, names)[i] = [name |-> "uuid", optarg |-> words[1 + 1]]
            /\ 1 = 1 => i = 1
      BY <1>3, <2>1, <3>1, OptionTaken
    <3> QED BY <3>2 DEF options, n
  <2> DEFINE X == {h \in S : h.uuid = j.uuid}
  <2>3. f[1] \in X
    <3>1. f[1] = Handle(f[0], options[1]) /\ f[1] \in S
      BY <1>4, <1>8, <2>2
    <3> QED BY <1>10, <2>2, <3>1 DEF Handle, JobNumber
  <2>4. ASSUME NEW i \in 1 + 1 .. n, f[i - 1] \in X PROVE f[i] \in X
    <3>1. i \in 1 .. n /\ i \in 0 .. n
      BY <1>4
    <3>2. f[i] = Handle(f[i - 1], options[i]) /\ f[i] \in S
      BY <1>8, <3>1
    <3>3. options[i].name = "uuid" => options[i].optarg = j.uuid
      BY <1>4, <1>5, <1>10, <3>1
    <3>4. JobNumber(f[i - 1].uuid, options[i]) = j.uuid
      BY <1>10, <2>4, <3>3 DEF JobNumber
    <3> QED BY <3>2, <3>4 DEF Handle
  <2>5. \A i \in 1 .. n : f[i] \in X
    <3>1. n \in Nat /\ 1 \in 0 .. n
      BY <1>4, <2>2
    <3> HIDE DEF X
    <3> QED BY <2>3, <2>4, <3>1, KeptFrom
  <2> QED BY <1>4, <2>2, <2>5
<1> QED BY <1>8, <1>9, <1>10 DEF options, names, first

\* ... and tocnpwg the area, which is behind all the words of the job.
Unmeasured == [width |-> "0", height |-> "0", is_rotate |-> FALSE]

\* Its two words belong to it alone.
LEMMA OwnOption ==
  ASSUME NEW own \in {<<"--printable_width", "printable_width">>,
                      <<"--printable_height", "printable_height">>}
  PROVE  Means(own[1], CnpwgNames, own[2])
<1>1. own[2] \in CnpwgNames
  BY DEF CnpwgNames
<1>2. \A name \in CnpwgNames : Stands(own[1], name) <=> name = own[2]
  BY KeyAssumption
<1>3. {x \in CnpwgNames : Stands(own[1], x)} = {own[2]}
  BY <1>1, <1>2
<1> QED BY <1>1, <1>3 DEF Means

LEMMA MeasuredAsAsked ==
  ASSUME NEW j \in Jobs, NEW a, Plain(a.width), Plain(a.height), NEW front \in Paired(OfJob(j))
  PROVE  LET last == Measured(Unmeasured, Options(front \o AreaWords(a), CnpwgNames))
         IN  /\ last.width = a.width /\ last.height = a.height
             /\ last.is_rotate => j.choices["Duplex"] = "DuplexNoTumble"
<1> DEFINE names == CnpwgNames
           words == front \o AreaWords(a)
           options == Options(words, names)
           O == Optional(words, names)
           W == WordsOf(Entries(j, a))
           n == Len(options)
           m == Len(front)
           S == [width : {"0", a.width}, height : {"0", a.height},
                 is_rotate : {FALSE, isRotate(j.choices["Duplex"])}]
<1>1. words \in Paired(Entries(j, a)) /\ front \in Seq(W) /\ AreaWords(a) \in Seq(W)
  <2>1. OfJob(j) \subseteq Entries(j, a) /\ OfArea(a) \subseteq Entries(j, a)
    BY DEF Entries
  <2>2. front \in Paired(Entries(j, a))
    BY <2>1, PairedMonotonic
  <2>3. AreaWords(a) \in Paired(OfArea(a))
    BY WordsOfArea
  <2>4. AreaWords(a) \in Paired(Entries(j, a))
    BY <2>1, <2>3, PairedMonotonic
  <2> QED BY <2>2, <2>4, PairedJoin DEF Paired
<1>2. /\ words \in Seq(W) /\ m \in Nat /\ Len(words) = m + 4
      /\ words[m + 1] = "--printable_height" /\ words[m + 2] = a.height
      /\ words[m + 3] = "--printable_width" /\ words[m + 4] = a.width
      /\ m > 0 => words[m] = front[m]
  <2> DEFINE b == AreaWords(a)
  <2>1. /\ Len(b) = 4 /\ b[1] = "--printable_height" /\ b[2] = a.height
        /\ b[3] = "--printable_width" /\ b[4] = a.width
    BY DEF AreaWords
  <2>2. b \in Seq(W) /\ m \in Nat
    BY <1>1, LenProperties
  <2> HIDE DEF b, W
  <2>3. /\ words \in Seq(W) /\ Len(words) = m + Len(b)
        /\ \A i \in 1 .. m + Len(b) : words[i] = IF i <= m THEN front[i] ELSE b[i - m]
    BY <1>1, <2>2, ConcatProperties DEF b
  <2> HIDE DEF words, m
  <2> QED BY <2>1, <2>2, <2>3
<1>3. options \in Seq(O) /\ n \in Nat /\ \A i \in 1 .. n : options[i] \in O
  <2>1. options \in Seq(O)
    <3>1. 1 \in 1 .. Len(words) + 1
      BY <1>2
    <3> HIDE DEF words, W
    <3> QED BY <1>2, <3>1, OptionsUnfold
  <2> HIDE DEF options, O
  <2> QED BY <2>1, LenProperties, ElementOfSeq
<1>4. \A o \in O : /\ o.name \in DOMAIN Choice => o.optarg = j.choices[Choice[o.name]]
                   /\ o.name = "printable_width" => o.optarg = a.width
                   /\ o.name = "printable_height" => o.optarg = a.height
  <2>1. names \in SUBSET Names
    BY DEF Names
  <2> HIDE DEF words, names
  <2> QED BY <1>1, <2>1, OptionValue
<1>5. \E i \in 1 .. n : options[i] = [name |-> "printable_height", optarg |-> a.height]
  <2> DEFINE k == m + 1
  <2>1. k \in 1 .. Len(words) - 1 /\ k + 1 = m + 2
    BY <1>2
  <2>2. k > 1 => Meaningless(words[k - 1], names)
    <3> SUFFICES ASSUME m > 0 PROVE Meaningless(words[m], names)
      BY <1>2
    <3> QED BY <1>2, LastMeaningless
  <2>3. Means(words[k], names, "printable_height")
    BY <1>2, OwnOption
  <2>4. words[k + 1] = a.height
    BY <1>2, <2>1
  <2> HIDE DEF words, names, W, k
  <2>5. \E i \in 1 .. Len(Options(words, names)) :
          /\ Options(words, names)[i] = [name |-> "printable_height", optarg |-> words[k + 1]]
          /\ k = 1 => i = 1
    BY <1>2, <2>1, <2>2, <2>3, OptionTaken
  <2> QED BY <2>4, <2>5
<1>6. \E i \in 1 .. n : options[i] = [name |-> "printable_width", optarg |-> a.width]
  <2> DEFINE k == m + 3
  <2>1. k \in 1 .. Len(words) - 1 /\ k + 1 = m + 4 /\ k - 1 = m + 2
    BY <1>2
  <2>2. Meaningless(words[k - 1], names)
    BY <1>2, <2>1 DEF Plain, Named, Means, Meaningless
  <2>3. Means(words[k], names, "printable_width")
    BY <1>2, OwnOption
  <2>4. words[k + 1] = a.width
    BY <1>2, <2>1
  <2> HIDE DEF words, names, W, k
  <2>5. \E i \in 1 .. Len(Options(words, names)) :
          /\ Options(words, names)[i] = [name |-> "printable_width", optarg |-> words[k + 1]]
          /\ k = 1 => i = 1
    BY <1>2, <2>1, <2>2, <2>3, OptionTaken
  <2> QED BY <2>4, <2>5
<1> HIDE DEF words, names, options, O, n, W, m
<1>7. Unmeasured \in S
  BY DEF Unmeasured
<1>8. \A i \in 1 .. n, s \in S :
        /\ Measure(s, options[i]) \in S
        /\ options[i].name = "printable_width" \/ s.width = a.width
             => Measure(s, options[i]).width = a.width
        /\ options[i].name = "printable_height" \/ s.height = a.height
             => Measure(s, options[i]).height = a.height
  <2> SUFFICES ASSUME NEW o \in O, NEW s \in S
               PROVE  /\ Measure(s, o) \in S
                      /\ o.name = "printable_width" \/ s.width = a.width
                           => Measure(s, o).width = a.width
                      /\ o.name = "printable_height" \/ s.height = a.height
                           => Measure(s, o).height = a.height
    BY <1>3
  <2>1. o.name = "duplexprint" => o.optarg = j.choices["Duplex"]
    BY <1>4 DEF Choice
  <2>2. CASE o.name = "printable_width"
    BY <1>4, <2>2 DEF Measure
  <2>3. CASE o.name = "printable_height"
    BY <1>4, <2>3 DEF Measure
  <2>4. CASE o.name = "duplexprint"
    BY <2>1, <2>4 DEF Measure
  <2>5. CASE o.name \notin {"printable_width", "printable_height", "duplexprint"}
    BY <2>5 DEF Measure
  <2> QED BY <2>2, <2>3, <2>4, <2>5
<1> HIDE DEF S
<1>9. PICK f : /\ f[0] = Unmeasured /\ Measured(Unmeasured, options) = f[n]
               /\ \A i \in 1 .. n : f[i] = Measure(f[i - 1], options[i])
               /\ \A i \in 0 .. n : f[i] \in S
  BY <1>3, <1>7, <1>8, MeasuredUnfold DEF n
<1>10. \A i \in 1 .. n : i - 1 \in 0 .. n /\ i \in 0 .. n
  BY <1>3
<1>11. f[n].width = a.width
  <2> DEFINE X == {s \in S : s.width = a.width}
  <2>1. PICK i \in 1 .. n : options[i].name = "printable_width"
    BY <1>6
  <2>2. f[i] \in X
    <3>1. f[i - 1] \in S /\ f[i] = Measure(f[i - 1], options[i])
      BY <1>9, <1>10
    <3> QED BY <1>8, <2>1, <3>1
  <2>3. ASSUME NEW k \in i + 1 .. n, f[k - 1] \in X PROVE f[k] \in X
    <3>1. k \in 1 .. n
      BY <1>3
    <3>2. f[k - 1] \in S /\ f[k] = Measure(f[k - 1], options[k])
      BY <1>9, <1>10, <3>1
    <3> QED BY <1>8, <2>3, <3>1, <3>2
  <2>4. f[n] \in X
    <3> HIDE DEF X
    <3>1. i \in 0 .. n /\ n \in i .. n
      BY <1>3
    <3> QED BY <1>3, <2>2, <2>3, <3>1, KeptFrom
  <2> QED BY <2>4
<1>12. f[n].height = a.height
  <2> DEFINE X == {s \in S : s.height = a.height}
  <2>1. PICK i \in 1 .. n : options[i].name = "printable_height"
    BY <1>5
  <2>2. f[i] \in X
    <3>1. f[i - 1] \in S /\ f[i] = Measure(f[i - 1], options[i])
      BY <1>9, <1>10
    <3> QED BY <1>8, <2>1, <3>1
  <2>3. ASSUME NEW k \in i + 1 .. n, f[k - 1] \in X PROVE f[k] \in X
    <3>1. k \in 1 .. n
      BY <1>3
    <3>2. f[k - 1] \in S /\ f[k] = Measure(f[k - 1], options[k])
      BY <1>9, <1>10, <3>1
    <3> QED BY <1>8, <2>3, <3>1, <3>2
  <2>4. f[n] \in X
    <3> HIDE DEF X
    <3>1. i \in 0 .. n /\ n \in i .. n
      BY <1>3
    <3> QED BY <1>3, <2>2, <2>3, <3>1, KeptFrom
  <2> QED BY <2>4
<1>13. f[n].is_rotate => j.choices["Duplex"] = "DuplexNoTumble"
  <2>1. f[n] \in S
    BY <1>3, <1>9
  <2> QED BY <2>1 DEF S, isRotate
<1> QED BY <1>9, <1>11, <1>12, <1>13 DEF options, words, names

-----------------------------------------------------------------------------
\* Where the settings are, at each place.  Nothing is written and no page begins
\* before tocanonij has read its options and found that all of them are there.
AskedArea == AreaOf(asked.choices["PageSize"])

Places == {"settings", "area", "command", "tocnpwg", "tocanonij", "run", "over"}

UuidAsked == asked.uuid # NoValue => uuid = asked.uuid

AskedInv ==
  /\ asked \in Jobs /\ at \in Places
  /\ at # "run" => wire = Sent("opening", 0, 0) /\ page = 0
  /\ at \notin {"run", "over"} => pc = "start" /\ Settings = Unread /\ uuid = NoValue
  /\ at = "over" => pc = "exit"
  /\ at \in {"settings", "area", "command", "tocnpwg"} => area = Unmeasured
  /\ at \in {"area", "command"} => p_list \in Seq(Collected(asked.choices))
  /\ at = "command" => p_list2 = Add(Add(<< >>, "--printable_width", AskedArea.width),
                                     "--printable_height", AskedArea.height)
  /\ at \in {"tocnpwg", "tocanonij"} =>
       /\ toCanonij \in Paired(OfJob(asked))
       /\ asked.uuid # NoValue =>
            Len(toCanonij) >= 2 /\ toCanonij[1] = "--uuid" /\ toCanonij[2] = asked.uuid
  /\ at = "tocnpwg" => toCnpwg = toCanonij \o AreaWords(AskedArea)
  /\ at \in {"tocanonij", "run"} =>
       /\ area.width = AskedArea.width /\ area.height = AskedArea.height
       /\ area.is_rotate => asked.choices["Duplex"] = "DuplexNoTumble"
  /\ at = "run" => Settings \in Readable(asked.choices) /\ CheckSettings(Settings) /\ UuidAsked

\* It holds at the start ...
LEMMA AskedInit == CommandInit => AskedInv
BY DEF CommandInit, Init, AskedInv, Places, Unread, Unmeasured

\* ... the steps in front of the filter keep it ...
LEMMA AskedSettings == AskedInv /\ GetPrinterSettings => AskedInv'
<1> SUFFICES ASSUME AskedInv, GetPrinterSettings PROVE AskedInv'
  OBVIOUS
<1>1. p_list' \in Seq(Collected(asked.choices))
  BY SettledCollects DEF GetPrinterSettings
<1> QED BY <1>1 DEF AskedInv, GetPrinterSettings, vars, AskedArea, Places

LEMMA AskedPaperArea == AskedInv /\ GetPrinterableArea => AskedInv'
<1> SUFFICES ASSUME AskedInv, GetPrinterableArea PROVE AskedInv'
  OBVIOUS
<1>1. PICK size \in Values(p_list, "--papersize") :
        p_list2' = Add(Add(<< >>, "--printable_width", AreaOf(size).width),
                       "--printable_height", AreaOf(size).height)
  BY DEF GetPrinterableArea
<1>2. size = asked.choices["PageSize"]
  <2>1. PICK e \in DOMAIN p_list : p_list[e].key = "--papersize" /\ p_list[e].value = size
    BY DEF Values
  <2>2. p_list[e] \in Entries(asked, AskedArea)
    <3>1. p_list \in Seq(Collected(asked.choices))
      BY DEF AskedInv, GetPrinterableArea
    <3>2. p_list[e] \in Collected(asked.choices)
      BY <3>1, LenProperties, ElementOfSeq
    <3> QED BY <3>2 DEF Entries, OfJob
  <2>3. "papersize" \in Names /\ "papersize" \in DOMAIN Choice /\ Choice["papersize"] = "PageSize"
    BY DEF Names, CanonijNames, Choice
  <2>4. Stands("--papersize", "papersize")
    BY <2>3, KeyAssumption DEF Names
  <2>5. p_list[e].value = asked.choices[Choice["papersize"]]
    BY <2>1, <2>2, <2>3, <2>4, KeyOfOption DEF AskedInv
  <2> QED BY <2>1, <2>3, <2>5
<1>3. p_list2' = Add(Add(<< >>, "--printable_width", AskedArea.width),
                     "--printable_height", AskedArea.height)
  BY <1>1, <1>2 DEF AskedArea
<1> QED BY <1>3 DEF AskedInv, GetPrinterableArea, vars, AskedArea, Places

LEMMA AskedCommand == AskedInv /\ MakeExecCommand => AskedInv'
<1> SUFFICES ASSUME AskedInv, MakeExecCommand PROVE AskedInv'
  OBVIOUS
<1>1. /\ toCanonij' = Words(WithJob(p_list))
      /\ toCnpwg' = Words(WithJob(p_list)) \o Words(p_list2)
  BY DEF MakeExecCommand, OfCnpwg
<1>2. /\ toCanonij' \in Paired(OfJob(asked))
      /\ asked.uuid # NoValue =>
           Len(toCanonij') >= 2 /\ toCanonij'[1] = "--uuid" /\ toCanonij'[2] = asked.uuid
  BY <1>1, WordsOfJob DEF AskedInv, MakeExecCommand
<1>3. Words(p_list2) = AreaWords(AskedArea)
  <2>1. Plain(AskedArea.width) /\ Plain(AskedArea.height)
    BY AreaPlain DEF AskedArea
  <2>2. p_list2 = Add(Add(<< >>, "--printable_width", AskedArea.width),
                      "--printable_height", AskedArea.height)
    BY DEF AskedInv, MakeExecCommand
  <2> QED BY <2>1, <2>2, WordsOfArea
<1>4. toCnpwg' = toCanonij' \o AreaWords(AskedArea)
  BY <1>1, <1>3
<1> QED BY <1>2, <1>4 DEF AskedInv, MakeExecCommand, vars, AskedArea, Places

LEMMA AskedTocnpwg == AskedInv /\ TocnpwgOptions => AskedInv'
<1> SUFFICES ASSUME AskedInv, TocnpwgOptions PROVE AskedInv'
  OBVIOUS
<1>1. area' = Measured(Unmeasured, Options(toCanonij \o AreaWords(AskedArea), CnpwgNames))
  BY DEF AskedInv, TocnpwgOptions
<1>2. Plain(AskedArea.width) /\ Plain(AskedArea.height)
  BY AreaPlain DEF AskedArea
<1>3. /\ area'.width = AskedArea.width /\ area'.height = AskedArea.height
      /\ area'.is_rotate => asked.choices["Duplex"] = "DuplexNoTumble"
  BY <1>1, <1>2, MeasuredAsAsked DEF AskedInv, TocnpwgOptions
<1> QED BY <1>3 DEF AskedInv, TocnpwgOptions, vars, AskedArea, Places

LEMMA AskedTocanonij == AskedInv /\ TocanonijOptions => AskedInv'
<1> SUFFICES ASSUME AskedInv, TocanonijOptions PROVE AskedInv'
  OBVIOUS
<1> DEFINE last == Handled([settings |-> Unread, uuid |-> NoValue],
                           Options(toCanonij, CanonijNames))
<1>1. Settings' = last.settings /\ uuid' = last.uuid
  BY DEF AskedInv, TocanonijOptions
<1>2. last.settings \in Readable(asked.choices) /\ (asked.uuid # NoValue => last.uuid = asked.uuid)
  BY ReadAsAsked DEF AskedInv, TocanonijOptions
<1>3. Settings' \in Readable(asked.choices) /\ (asked.uuid # NoValue => uuid' = asked.uuid)
  BY <1>1, <1>2
<1> QED BY <1>3 DEF AskedInv, TocanonijOptions, UuidAsked, AskedArea, Places, Fail

\* ... the ways out, and the filter itself ...
LEMMA AskedRest ==
  AskedInv /\ (NotStarted \/ NoPaperSize \/ Running \/ UNCHANGED commandVars) => AskedInv'
<1> SUFFICES ASSUME AskedInv, NotStarted \/ NoPaperSize \/ Running \/ UNCHANGED commandVars
             PROVE  AskedInv'
  OBVIOUS
<1>1. CASE NotStarted \/ NoPaperSize
  BY <1>1 DEF NotStarted, NoPaperSize, Fail, AskedInv, AskedArea, Places
<1>2. CASE Running /\ at = "run"
  BY <1>2 DEF Running, settings, AskedInv, AskedArea, UuidAsked, Places
<1>3. CASE Running /\ at = "over"
  <2>1. pc = "exit"
    BY <1>3 DEF AskedInv
  <2>2. UNCHANGED vars
    BY <1>3, <2>1
      DEF Running, Next, Filter, Working, StartJob, Started, SetConfiguration, ReadHeader,
          SetPageConfiguration, SendData, PageDone, ReadData, ReadNothing, WriteData, BufferDone,
          EndJob, PrepareFails, ReadFails, WriteInterrupted, InputEnds, ReaderLeaves, Terminated
  <2> QED BY <1>3, <2>2 DEF Running, settings, vars, AskedInv, AskedArea, Places
<1>4. CASE UNCHANGED commandVars
  BY <1>4 DEF commandVars, settings, vars, AskedInv, AskedArea, UuidAsked, Places
<1> QED BY <1>1, <1>2, <1>3, <1>4 DEF Running

\* ... and so at every moment.
LEMMA AskedNext == AskedInv /\ [CommandNext]_commandVars => AskedInv'
BY AskedSettings, AskedPaperArea, AskedCommand, AskedTocnpwg, AskedTocanonij, AskedRest
  DEF CommandNext, Starting

LEMMA AskedInvariance == CommandSpec => []AskedInv
BY AskedInit, AskedNext, PTL DEF CommandSpec

\* Settings that are all there are those of the job.
LEMMA ReadableIsAsked ==
  ASSUME NEW choices, NEW s \in Readable(choices), CheckSettings(s)
  PROVE  s = [papersize       |-> MapTbl[choices["PageSize"]],
              borderlessprint |-> IsBorderless(choices["PageSize"]),
              mediatype       |-> MapTbl[choices["MediaType"]],
              colormode       |-> MapTbl[choices["CNGrayscale"]],
              duplexprint     |-> MapTbl[choices["Duplex"]]]
<1>1. /\ s.papersize = ConvertStrToID(choices["PageSize"]) /\ s.papersize # Unset
      /\ s.mediatype = ConvertStrToID(choices["MediaType"]) /\ s.mediatype # Unset
      /\ s.borderlessprint = IsBorderless(choices["PageSize"])
      /\ s.colormode = ConvertStrToID(choices["CNGrayscale"]) /\ s.colormode # Unset
      /\ s.duplexprint = ConvertStrToID(choices["Duplex"]) /\ s.duplexprint # Unset
  BY DEF CheckSettings, Readable
<1>2. \A str : ConvertStrToID(str) # Unset => ConvertStrToID(str) = MapTbl[str]
  BY DEF ConvertStrToID
<1>3. s = [papersize |-> s.papersize, mediatype |-> s.mediatype,
           borderlessprint |-> s.borderlessprint, colormode |-> s.colormode,
           duplexprint |-> s.duplexprint]
  BY DEF Readable
<1> QED BY <1>1, <1>2, <1>3

\* tocanonij: whatever the printer description calls its keys and in whatever
\* order it has them, the printer is only sent anything with the settings and
\* under the UUID of the job.
THEOREM OpensAsAsked == CommandSpec => []JobOpensAsAsked
<1>1. AskedInv => JobOpensAsAsked
  BY ReadableIsAsked DEF AskedInv, JobOpensAsAsked, UuidAsked
<1> QED BY <1>1, AskedInvariance, PTL

\* tocnpwg and tocanonij: the page tocnpwg makes has the area of the paper the
\* printer is set to, and is turned only when it prints on both sides.
THEOREM FiltersAgreed == CommandSpec => []FiltersAgree
<1>1. AskedInv => FiltersAgree
  <2> SUFFICES ASSUME AskedInv, page > 0 PROVE FiltersAgree
    BY DEF FiltersAgree
  <2>1. at = "run"
    BY DEF AskedInv
  <2>2. Settings.papersize = MapTbl[asked.choices["PageSize"]]
        /\ Settings.duplexprint = MapTbl[asked.choices["Duplex"]]
    BY <2>1, ReadableIsAsked DEF AskedInv
  <2>3. [width |-> area.width, height |-> area.height] = AskedArea
    BY <2>1, AreaPlain DEF AskedInv, AskedArea
  <2>4. ASSUME area.is_rotate PROVE Settings.duplexprint = "DUPLEX_ON"
    <3>1. asked.choices["Duplex"] = "DuplexNoTumble"
      BY <2>1, <2>4 DEF AskedInv
    <3>2. Settings \in Readable(asked.choices) /\ Settings.duplexprint # Unset
      BY <2>1 DEF AskedInv, CheckSettings, Readable
    <3>3. "DuplexNoTumble" \in DOMAIN MapTbl
      BY <3>1, <3>2 DEF Readable, ConvertStrToID
    <3> QED BY <2>2, <3>1, <3>3, DuplexAssumption
  <2> QED BY <2>2, <2>3, <2>4 DEF FiltersAgree, AskedArea
<1> QED BY <1>1, AskedInvariance, PTL

=============================================================================

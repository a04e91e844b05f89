# cnijfilter2, verified

TLA+ modules, TLC runs and TLAPS proofs for the Canon IJ printer driver for
CUPS (`src/`).  The driver is a set of small C programs that CUPS starts for
every print job; the part with state, retries, signals and a device at the
other end is the backend, and that is where this project starts.

## 1. The system

```
 CUPS --> rastertocanonij --fork--> tocnpwg | tocanonij        (filters)
     \--> cmdtocanonij2                                        (maintenance)
                     |  stdin
                     v
          cnijbe --fork/exec--> cnijlgmon3 --> USB | NET | NET2 --> printer
```

| Component | State | Operations | Talks to | Hard parts | Correct when |
|---|---|---|---|---|---|
| Print session, `lgmon3/src/cnijlgmon3.c` `main` | `interrupt_sign`, `isCanceled`, `isPrinting`, `copies`, `sign`, `flgSendStart`, the chunk in `write_buffer`, stdin, `err` | prepare, open loop, clear, wait for idle, start session, send loop with status polls, keep-alive, wait for the end, reset, close, SIGTERM handler | interface dispatch; the printer by status messages | signal at any point, partial writes, timeouts, retries, lost answers, other hosts, cancel at the panel | the printer gets the job once, in order and whole, or is told to drop it; "done" is only said of a whole job; the process ends |
| Message decoding, `CNIF_GetResponse` | none | one read, one result code | Canon libraries | codes that coincide | a result stands for what the printer said |
| Interface dispatch, `cnijcomif.c` | none | open, start, read, write, reset, cancel, close by `ifType` | the three interfaces | missing cases, timeouts counted as success | every path does the same for each interface |
| USB, `cnijifusb.c` | device handle, claimed interface, end points | open, close, reset, read, write, discover | libusb | claiming against other processes, sticky results, endless read timeouts | every claim is released, kernel driver is given back |
| NET, `cnijifnet.c` | library handle, session | open, start, close, reset, read, write | libcnnet | unwinding of a failed open | nothing is held after a failure |
| NET2, `cnijifnet2.c` | `port9100Writer`, `chmpWriter`, `ipAddr` | open, start, send in pieces, status, cancel, dummy byte, close | libcnbpcnclapi and its relatives | partial progress across timeouts, handles on error paths | reported progress is real progress; handles do not pile up |
| Message table, `keytext.c`, `cnijutil.c` | linked list | load, look up, free | file system | none (sequential) | look-up returns what was loaded |
| Backend, `cnijbe2/src/cnijbe.c` | `pid`, signal dispositions | check arguments, fork, exec, wait, forward SIGTERM | cnijlgmon3 | signal before, between and after fork, exec and wait | it outlives its child and forwards the cancel |
| Raster driver, `rastertocanonij/src/` | settings lists, command line, child pid, pipe | read the printer description and the options, make the command line, start the filters, copy | child filters | SIGTERM, EINTR, short writes; words that pass through a shell | all output is passed on and the child is reaped; both filters work on the job that was asked for |
| PWG filter, `tocnpwg/src/main.c` | line buffers, Bresenham state | scale, compress, rotate, page loop | CUPS raster | boundaries of run lengths, last lines, results nobody looks at | what is decoded is the page; pages stay in step |
| Print command filter, `tocanonij/src/main.c` | settings, page state | read options, start commands, pages, end commands | CUPS raster | truncated input | commands nest |
| Maintenance filter, `cmdtocanonij2/filter/` | buffers | read a line, look up, write | printer through the backend | EINTR, failed writes | each command is written whole |
| Install scripts, packaging, PPDs, option tables, binary libraries | | | | | not modelled: outside the printing path, data, or without source |

PROJECT.json lists the components with their status, and under "hazards" what
in this code is hard to test, at its line, with the properties aimed at it.

## 2. The modules and the code

Definitions keep the names of the functions and variables they stand for, and
`PROJECT.json` ("map") gives each its lines.  A definition `X_Slip` is `X` with
a plausible mistake in it.  Nothing uses it: it is there to be put in the place
of `X`, which must make the property named in section 5 fail.

**Lgmon3Codes, WriteResults, LgmonSession** (`lgmon3/src/cnijlgmon3.c` `main`,
`CNIF_GetResponse`, `CNIF_SigCatch`; `cnijcomif.c`; the outcomes of the three
interfaces).  `pc` is the place in `main()`: `prepare`, the loops `open`,
`clear`, `idle` (another host prints), `start`, the send loop `copy` / `chunk` /
`poll` / `write`, the waits for the end `keep`, `finish` (NET2) and `ready` (USB,
NET), and the labels `reset` (onErr) and `close`.  The other variables are
`main()`'s.  Print data is its position: `received` is what the printer read,
in order, 0 the dummy byte of `CNIF_KeepSession`.  SIGTERM (`SigCatch`) may come
between any two steps.  The printer is external: it starts, stops, finishes or
drops our job, prints for another host, is silent for a while, queues answers.
A status query reads one message (`Replies`), as the code decodes it: a code
that coincides with another is the same number here (`Lgmon3Codes`).

**PrintJob, LgmonRefinement, LgmonInvariant, LgmonClaims, MCLgmonSession.**
`PrintJob` is the abstract promise: units are taken in order, none after an
abort, "done" only with all taken.  `LgmonRefinement` maps the session to it,
`LgmonInvariant` holds the inductive invariant, `LgmonClaims` what a comment
says, refuted.

**InterfaceCalls, NetDevice, Net2Device, Net2Send, Interfaces, MCInterfaces**
(`cnijcomif.c`, `cnijifnet.c`, `cnijifnet2.c`).  What the outcomes of
`LgmonSession` stand for on the two networks.  `InterfaceCalls` is one call of
`main()` into an interface: which (`call`), where in it (`at`), what it returned
(`err`).  `NetDevice` carries it out for NET, one step per library call, with
the library, the handle and the session that `Network_Open` must unwind.
`Net2Device` does so for NET2: the search by SNMP, the table of printers of
which only the front is of this search, the two writer handles with their use,
`ipAddr`, and the queries with their retries.  A handle is a number; `live` has
those that are open, so that one that was overwritten is seen.  `Net2Send`
is the loop of `CNIF_Network2_SendData` with `ret`, `cnt_timeout` and
`*writtenSize`.  Its result must be one that `LgmonSession` assumes of a NET2
write (`Net2Outcomes` in `WriteResults`): the two modules meet there.
`Interfaces` composes them under `ifType`: opens until one succeeds, then any
calls in any order, then the close.

**UsbInterface, MCUsbInterface** (`cnijifusb.c`).  Several processes walk over
the same devices; each call of libusb is a step.  `claimed` is
`g_claimed_interface` up to `g_usblp_attached`; `bound` is the kernel's view of
every interface.  A claim that answers busy is tried again at once, so a process
at `claim` simply has no step while somebody else is bound.

**Backend** (`cnijbe2/src/cnijbe.c`).  `at` is where the parent is, `childAt` its
child, from the fork to the reaped zombie, `termPending` and `childTermPending`
are signals under way to each, and `fd0` and `stdinFile` what the descriptor 0
and the stream stdin are.  A handler runs some time after the signal was sent.

**FilterDriver** (`rastertocanonij/src/main.c`). The copy loop, the pipe with
its ends, the child from fork over `setpgid` to exec, the handler without
SA_RESTART. It implements `PrintJob` too, with what was written to the pipe for
what was taken.

**JobStream, CommandFilter** (`tocanonij/src/main.c`, `OutputSetTime`).
`JobStream` is the grammar of what a printer is sent: opening commands, a
configuration, per page two commands and just the data they announce, an end
command.  `CommandFilter` is the code: `wire` is the last thing written, reads
and writes cut the data anywhere, `cut` says that the input ended, `broken` that
nobody reads.

**FilterCommand, MCFilterCommand** (`rastertocanonij/src/` `canonopt.c`,
`getsettings.c`, `paramlist.c` and `MakeExecCommand`; the options of `tocnpwg`
and `tocanonij`).  What is in front of `CommandFilter`: the rows of the printer
description, which the two tables name by their lines, make two lists of
settings (`p_list`, `p_list2`), these make the words of two command lines
(`toCnpwg`, `toCanonij`), and `getopt_long()` makes options of the words again.
A word is one value, but what the shell and `getopt_long()` do is kept: an empty
value is no word, an option takes the word behind it whatever that is, the
unique beginning of a name stands for the name (the description says `--media`,
the filter `mediatype`).  Then the steps are those of `CommandFilter`; `pc =
"exit"` stands as well for a tocanonij that was never started.

**PwgLine, PwgRaster** (`tocnpwg/src/main.c`).  `PwgLine` has what is done to a
line: the division with rest that spreads positions (`Cursors`, of pixels in
`h_extend` and, step by step, of rows), the packets of `cups_raster_write`, the
repeat counts of `pwgRasterWritePixels`, and, as reference, a reader of the
format (`Decoded`) and the rounded division (`Nearest`).  `PwgRaster` is `main()`
and `CreatePWGPageData`: `pc` goes through the margins, the rows (`data`, and
`read` while lines are missing), the rereading of a turned page, and the two
places where a page is put out.  `outras` is the raster with the row held back
and the rows in its file.  A pixel is one value, for its bytes are always copied
together; `given` remembers the lines, for the properties.  That a page which
CommandFilter reads has the size it was announced with holds because the size is
that of the file.

**MaintenanceJob, MaintenanceFilter, MCMaintenanceFilter**
(`cmdtocanonij2/filter/`).  `MaintenanceJob` says what a command file should
come to: a start, the command the file names, an end, each piece whole, or a
failure.  `MaintenanceFilter` is the code: `read_line` with its buffer that is
refilled, the look-up in the printer description, where the first name that the
line begins with counts, the pieces that `write_buffer` writes with a count that has no
sign.  Interrupted, short and failed reads and writes are `faults`.

**...Proofs** modules hold the theorems of section 7, `InductionLemmas` the
lemmas about numbers and recursive functions that two of them need.

## 3. The runs

| Run | Bounds | What it shows |
|---|---|---|
| `session` | 3 units, 2 copies, buffer 2, 1 late USB timeout, 1 dummy byte, 1 silence | the printer gets the job in order and without a gap; leaving through OK means a whole job, not aborted, and on NET2 one the printer is rid of; a job broken off on USB or NET is aborted there; nothing is sent after an abort or outside a session; the inductive invariant holds |
| `session_live` | 3 units, 1 copy, no late USB timeout, else the same | `ImplementsPrintJob`; a SIGTERM ends the process, and so does a session that was started, on every interface, except for a NET2 job that is over before a query has named it (`OverUnseen`) |
| `interfaces` | 2 faults, 3 handles, 2 printers in the table and 3 answers to a search, 3 reads and 2 writes per query, answers of 2 units, sends of up to 3 in pieces of 2 | a failed open on NET leaves nothing; what is used on NET2 is the handle of the last open, and as many are lost as calls failed that lose one; the address is one that the printer had in an answer; what a send reports was taken; calls return |
| `usb` | 2 jobs and a discovery on 2 printers, 4 settings, 1 failure | what is held is written down, the driver always comes back, a job keeps its interface, searches end |
| `backend` | 3 SIGTERMs | the backend outlives its child; a SIGTERM ends both |
| `filter_driver` | 4 units, buffer 3, pipe 2, 2 SIGTERMs | the raster is passed on front to back and success means whole; no filter is left behind but by a SIGTERM; the job ends |
| `command_filter` | 7 jobs on one printer description; 2 pages of up to 3 units, buffer 2 | the settings of the job arrive, each under its own name, and both filters have the same; the stream is well formed; the filter ends |
| `maintenance` | 11 command files, 3 descriptions, buffer of 4 characters, pieces of up to 2 units, `SizeMax` 7, 2 faults | the command of the file is written piece by piece, and a piece is left whole unless its first write failed; the filter ends |
| `pwg_raster` | 2 pages of 1 or 3 by 1 or 3 pixels of 2 values, sheets of 2 or 5 or as the page, packets of 2 pixels, rows repeated twice | a finished page, read back, is the picture scaled and with its margins; it has read its own lines and no others; it has given all its rows; the last page says that it is the last |
| `claim_finished`, `claim_file`, `claim_rotate` | small | each refutes one statement of a comment or message, see section 8 |

*Why the bounds are enough.*  Every buffer is smaller than the data, so that
there are full, partial and last pieces; data that ends exactly with a buffer
(an input of 2 with a buffer of 2) and no data at all are initial states.  Two
copies are the least that shows the loop over copies.  One late timeout, one
silence, one libusb failure put the event at every point of the run; a second
one meets the states the first leaves behind, which the theorems cover for any
number.  Two interfaces, a device with two alternate settings of one interface
and one with a FAX interface make a search pass by what it has claimed; three
processes are two that compete for a device and one that comes between.
A line of 5 pixels has packets at and beyond their limit of 2, pairs behind
single pixels and single pixels at the end; 5 equal rows pass the limit of the
repeat count twice; 3 lines on 2 rows and on 5 scale down and up, 1 line on 5
rows and 3 columns on 2 leave margins, odd and even.
Two faults are one that ends an open and one in the open, query or cancel after
it, which is where a handle that was lost is taken for one in use; three handles
are one more than that loses, and later ones are behind the bound.  A table of
two with three answers overflows, and two answers after three leave an old one
behind the new; our printer changes its address between two searches.  A send of
3 has a full and a cut piece.
The seven jobs differ in what the way through the shell can turn wrong: with a
UUID and without, turned by 180 degrees (the one value both filters read) and on
both sides without turning, borderless, a size without area, a choice the filter
does not know, and no choice at all for the sides, where tocanonij gives up, and
for the paper size, where rastertocanonij does.  The description has its rows out of order, a size
twice, a row of each kind that is left out, and one behind the last line end.
The command files end in the header, in a name, in a buffer and on its last
place; one name begins with another.
Two SIGTERMs are one that finds a handler busy or a child half made, and one
after it.  The session ends in `exit`, where it stays: no run excludes deadlock.

## 4. Fairness

*Session.*  `main()` is not stopped for ever, and a silent printer answers again
(WF).  An open, a write of the rest of a buffer and a status answer that are
tried for ever succeed at last (SF): the code retries them without a limit, so
without this nothing ends; each attempt may fail any number of times.  The
printer goes on with its job or drops it and other hosts finish (WF; SF for
finishing, since it may stop and resume in between).  SIGTERM has no fairness.

*Backend.*  Both processes run, signals that were sent are delivered, and an
interrupted `cnijlgmon3` ends: that is `CancelEndsSession`, which leaves out
only a NET2 job that is over unseen (section 8).

*FilterDriver, UsbInterface, CommandFilter, FilterCommand, MaintenanceFilter,
Interfaces.*  Processes run (WF on their steps; in CommandFilter and
MaintenanceFilter on the steps that work, so that no error is counted on; in
FilterCommand the programs in front run too; in Interfaces on the steps inside a
call, so that `CallsReturn` does not count on `main()`).  The filter in front
delivers, the filters behind read or end.
In UsbInterface a job that has its printer ends, which is `SessionEnds`.
Nothing is assumed about a busy interface: a process that could claim it must be
able to continuously, or it waits.

## 5. What the properties are sensitive to

| Property | Mistake that breaks it |
|---|---|
| `IInv` | a short read without `feof()` is taken for the end |
| `InOrder` | every retry starts at the head of `write_buffer` |
| `NoGap` | USB reports the size asked for |
| `OKMeansAllTaken` | a NET2 timeout reports the size asked for |
| `OKMeansJobOver` | a printer that is cancelling counts as done |
| `SeenMeansStarted` | any answer counts as one about our job |
| `OKMeansNotAborted` | a job cancelled while waiting leaves through OK |
| `HalfJobAborted` | `CNIF_Reset` forgets NET |
| `NoDataAfterAbort` | the break after a cancel leaves only the `if` |
| `DataInSession` | a positive library code starts the transfer |
| `ImplementsPrintJob` (session) | NET does not report a busy printer's share |
| `CancelEndsSession` | the idle loop does not look at `interrupt_sign` |
| `SessionEnds` | the idle printer is no end of a NET2 job |
| `NetUnwound` | a printer that does not answer is left connected |
| `HandlesInUseAreLive` | `chmpWriter` keeps the handle that was closed |
| `HandlesAccountedFor` | a handle that takes no settings is not closed |
| `AddressIsOfPrinter` | the address is copied behind the check of the name |
| `ReportsWhatWasTaken` | progress by the whole piece |
| `CallsReturn` | the last try starts the count of tries again |
| `HeldIsRecorded` | an interface without driver is not listed |
| `DriverGivenBack` | the driver is not attached |
| `KeepsItsInterface` | busy counts as claimed |
| `SearchesEnd` | the close does not release |
| `BackendOutlivesChild` | an interrupted wait is given up |
| `CancelEndsBackend` | the test in the handler is the wrong way round |
| `ImplementsPrintJob` (driver) | `p_data` does not advance |
| `SuccessMeansDone` | one write per read |
| `NoFilterLeft` | a read error leaves `main()` at once |
| `JobEnds` | the child keeps the write end of its own pipe |
| `JobOpensAsAsked` | the job ID counts although there is a UUID |
| `FiltersAgree` | the second list is left out of the options of tocnpwg |
| `ImplementsJobStream` | `pCurrent` is one behind |
| `FilterEnds` (command) | the end of the input at a header is taken for an interruption |
| `PieceLeftWhole` | the count of a failed write is the size of the piece |
| `ImplementsMaintenanceJob` | the look-up goes on past the first name |
| `FilterEnds` (maintenance) | the end of the file does not end the loop |
| `PageIsWhole` | repeat counts of pixels off by one |
| `PageInStep` | the divisor is dst_h |
| `NoRowHeldBack` | the margin at the bottom is that at the top |
| `LastPageSaysSo` | the last page is put out like the others |

## 6. Assumptions of the models

- A NET2 piece that fails with a code other than a timeout has taken nothing,
  and one that succeeds has taken at least one unit: the library is binary.
- On USB a transfer may time out although everything was taken (`late`).  Then
  the data is sent twice, in the code as in the model; `InOrder` and the
  refinement exclude this case, `NoGap` does not.
- A process that dies of SIGKILL leaves its USB interface to the kernel; no
  such end is modelled.
- The number of a USB interface is its position in the configuration, as the
  code has it, and at first every interface has its kernel driver.
- SIGPIPE is ignored in the filters: rastertocanonij sets it so and exec keeps
  it.  Headers of pages are written and read at once, being shorter than a pipe.
- The destination sizes are the rounded quotients: no error of the floating-point
  product changes them.  The pixels have whole bytes.  Memory for a line of a
  margin is there, and a turned page whose temporary file cannot be written
  fails at a line, not at a margin.
- The number of a reaped child is not given to another process.
- In the interfaces, reading behind a full table of printers finds nothing, and
  the answer of a printer fits its buffer.  Buffers and libraries that are not
  given back are left out.  Before the device URI is read, `ifType` is
  uninitialised: any interface, in the model.
- The values of options hold no blanks and nothing a shell would act on, the
  command line fits its buffer, the path of the programs can be read, and a row
  of the printer description that gives an area has all its words (`atol()` is
  called on each).
- `KeyAssumption`, `ValueAssumption` and `DuplexAssumption` of FilterCommand say
  what the words on the command line are.  In each file of `src/ppd` the keys are
  the four rows PageSize `--papersize`, MediaType `--media`, CNGrayscale
  `--grayscale` and Duplex `--duplex`, and each begins the name of one option,
  that of its choice.  The options that rastertocanonij writes itself are names
  of the tables, and begin no other.  No path, number, choice, job number or UUID
  begins with `--`, so `getopt_long()` takes none for an option.
  `duplexnotumble` is printed on both sides (`cncl_paramtbl.h`, line 107).  TLC
  evaluates all of them in `command_filter`.

## 7. What is proved

For every value of the constants, from the named assumptions in the modules
(sizes are natural numbers, buffers are not empty):

- **LgmonSessionProofs.**  `IInv` is inductive.  Types, `InOrder` and the like
  are not, by themselves: that the next unit is the right one needs
  `Len(received) = fpos - readed_data` in the send loop (`WireInv`), that
  "all taken" at OK needs that the input is at its end wherever the wait starts
  (`StdinInv`), and that a broken job was aborted needs where `via`, `dev` and
  `ifType` can be (`ControlInv`, `AbortInv`).  From it: `TypeCorrect`,
  `DataInOrder`, `NothingSkipped`, `WholeJobTaken`, `JobSeenThrough`, `JobNotAborted`,
  `SeenIsStarted`, `BrokenJobAborted`; the action properties `QuietAfterAbort`
  and `SentInSession`; and, with `MaxLate = 0`, `Refinement`: the session
  implements `PrintJob`.
- **InterfacesProofs.**  `InterfacesTyped`; `OpenUnwinds` for NET, where the
  place in `Network_Open` says what is held; for NET2 `NoStaleHandle`,
  `HandlesCounted` (each open handle is in use, or was counted when it was
  lost), `AddressFound`, and `EveryCallReports`, which needs that `taken` is the
  first `*writtenSize` units and what `ret` can be at each count of timeouts.
  Of a lone send the same is said by `SendTyped` and `SendReports`.
- **UsbInterfaceProofs.**  `NothingLeftClaimed`, `DriverComesBack`,
  `JobKeepsInterface`, `UsbTyped` for any processes, printers and failures.  The
  invariant says of each process (`Local`) where it stands in the list of
  settings and that its own slots and its list agree; a lemma (`OneProcess`)
  reduces the step of one process to that process, given that it leaves alone
  what the others have (`Others`) and keeps what it owes the kernel (`Keeps`).
- **ProcessProofs.**  The two programs of a job that fork another (their
  modules share no name).  Of rastertocanonij `SuccessIsWhole`, `DriverTyped`, `FilterWaitedFor`,
  and `DriverRefinement`: what was passed on plus what is in the buffer is what
  was read (`CopyInv`).  Of cnijbe `OutlivesChild` and `BackendTyped`: where the
  parent is determines whether there is a child to wait for (`ChildInv`).
- **CommandFilterProofs.**  `StreamRefinement` and `FilterTyped`: as long as the
  reader is there and nothing was lost, `wire` is determined by where the filter
  stands (`Standing`).  `CommandRefinement` carries it to `FilterCommand`, whose
  steps are steps of the filter or leave it where it starts (`StageInv`).
  `OpensAsAsked` and `FiltersAgreed` are about the words.  The reader may begin
  anywhere, for an option without a value shifts all that follows.  But a word
  that means an option is always the key of an entry (`KeyOfOption`), so that the
  word behind it is the value of that entry (`OptionValue`): nothing is read that
  was not written.  The other way round, an option whose key no other option
  takes for its value is found (`OptionTaken`); the UUID is, being first, and so
  are the width and the height, since the word in front of them means nothing
  (`LastMeaningless`).  That a setting is there at all is what `CheckSettings`
  tests.  `AskedInv` says at each place which of the lists, the words and the
  results hold what the job has; it was checked by TLC on the instance of
  `command_filter` before it was proved.
- **MaintenanceFilterProofs.**  `WholeOrNegative` and `MaintenanceRefinement`:
  the filter implements `MaintenanceJob` for any files, descriptions, buffer and
  faults.  The invariant says what was read of the file at each place
  (`Reading`), which piece is at hand and that those before it are written
  (`Standing`), and what the count in `write_buffer` can be (`Counting`): what it
  counts or the largest size.  `FilterTyped` is its first part.
- **PwgRasterProofs.**  Two invariants, one on the other.  `IInv`
  (`PwgInvariance`) counts: from it `LinesInStep`, `RowsAllGiven` and
  `LastPageIsLast`.  The argument of the first is that of the line algorithm: at
  row y, `prev_pos * (dst_h - 1) + rest = y * (in_h - 1)` with the rest less than
  half a divisor (`At`, kept by `Adjusted` and `NextPosition`), so that the last
  row can only be made of the last line (`LastPosition`).  For the second, the
  scaled page is never higher than the sheet (`RoundedFits`, `SizesFit`), so that
  the three loops count `remaining` down to 0.
  `PInv` (`PictureInvariance`) is about the contents: what a reader makes of the
  file and of the row held back (`Put`) is the first `Made` rows of the picture, or,
  where a page is turned, the rows set aside are the first, and those put out are
  the last ones in reverse.  `PageReadsBack` is then that the decoded file of a
  finished page is the picture.  `PageIsWhole` is far from inductive: it needs
  where the cursor is (`Lines`, from `IInv`), how far the loops have come
  (`Counted`), and that the row held back has a count that fits its byte (`Held`).
  Three theorems about lines carry it: `ScaledLine` (the quotient, rest and
  adjustment of `h_extend` are at the rounded quotients), `LineReadsBack`
  (packets, decoded, are the line, by induction from its end; the reader takes a
  packet only when it is all there, `Whole`) and `LineWritten` (a line taken is
  one more row to read back, whatever the repeat counts before it).
- **InductionLemmas.**  The library's induction theorems take an operator, but
  that a set of numbers has a least one follows from the strict subset order
  being well-founded (`Least`), and induction over a set of numbers from that
  (`Induction`).  A recursive function is a `CHOOSE`, so that its equation holds
  only once some function is known to satisfy it: `Steps` and `Jumps` give one,
  for recursion by one and for recursion that skips what it has taken.

Only model-checked: everything about termination (`CancelEndsSession`,
`SessionEnds`, `CallsReturn`, `SearchesEnd`, `CancelEndsBackend`, `JobEnds`, both
`FilterEnds`), since liveness under fairness is out of the prover's reach; and
the refutations.  Every invariant, action property and refinement that a passing
run checks is a theorem.

## 8. Where the code and its words differ

Shown by runs, with the lines quoted in PROJECT.json ("findings"):

- `claim_finished`: a NET2 job that is over before a status query names it is
  waited for without end.
- `claim_file`: a file named on the command line of the backend is opened as a
  stream that `execl` drops; `cnijlgmon3` reads descriptor 0.
- `claim_rotate`: a page that is turned by 180 degrees loses rows when it has a
  margin above or below, and the rows held back with them.

In the models, and without a run of their own: the second of two copies sends
nothing, since `sign` stays 0; `cnijlgmon3` ends a printed job with the last
status result, which the backend reports as an error; a job-start answer left in
the queue has the number of the idle status and ends the wait; a child of the
backend whose `execl` fails ends with 0, a "normal exit"; a raster that ends
inside a page leaves tocanonij reading and writing 0 bytes for ever (the
exception in `FilterEnds`); an interrupted write there loses the rest of the
buffer, and a failed write of the end command is not noticed (the two exceptions
in `ImplementsJobStream`); a child of rastertocanonij whose `execv` fails
signals itself without end (`spinning`); rastertocanonij itself, when a SIGTERM
interrupts its `waitpid`, returns with its filters running; a USB claim loop
spins for ever when the kernel driver is back before its next attempt (`Stuck`);
a page scaled to one row divides by 0 (`crash`); in tocnpwg no result of a read
of pixels or a write of rows is ever taken for an error, so that a page cut short
repeats its last line and a full disk loses rows, with success; a USB printer whose serial number
cannot be read may be taken for the wanted one (`SerialUnread`).

On NET2, `cnijlgmon3` that gets a SIGTERM before a query has named the job
announces "reset and close printer" but closes without telling the printer
(lines 552 and 564).  A SIGTERM keeps every write error in the send loop, so that
`CancelEndsSession` counts on a write that succeeds at last; `isCanceled` cannot
be set during an open, so that a SIGTERM is not seen there.  A failed open and a
query or cancel whose `dlopen` fails leave a handle open for good; an empty name
first in the table of printers ends the search with success and without an
address; a query may read for ever after a timeout that leaves no room in the
answer (`timedOut`, the exception in `CallsReturn`).

In the filters, a job without a UUID goes to the printer under the UUID
"--jobid", and the job ID that tocanonij would take instead is lost, since an
empty value is no word; a paper size that is not in the printer description
counts as found with an area of 0 by 0; the last line of the description is not
read when no line end is behind it.  In cmdtocanonij2, `read_line` spins after a
read that failed or was interrupted; `write_buffer` takes the rest of a piece for
written when its first write fails, and repeats a unit when a later one does
(`spoiled`, the exception in `ImplementsMaintenanceJob`); the result of
`SetJobConfiguration` is not looked at, a capability that could not be read counts
as read and the first protocol is used, and `main()` answers 0 whatever happened.

## 9. The plan

Modelled, in the order of their weight: the print session with its interfaces'
outcomes, the interfaces, the backend, the raster driver with the settings it
hands on, the print command filter, the PWG filter, the maintenance filter.
What would come next:

1. `Pipeline`: rastertocanonij's child as the two filters, `PwgRaster` and
   `CommandFilter`, with the backend behind them, so that a SIGTERM or a broken
   pipe anywhere brings the whole chain down.  The modules of the parts are
   written to be composed: each has its input that ends and its reader that leaves.
2. Pure operators for `keytext.c`: sequential, and what the session does with a
   message is its code, so this comes last.

Not modelled: discovery and its wording, which only print; the Canon libraries,
which are binary; the printer descriptions, of which the reading is modelled and
one of each kind of row is given; margins in tocnpwg for which no memory is left;
device IDs, which are reduced to what their parsing can come to; install scripts
and packaging.

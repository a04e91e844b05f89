---------------------------- MODULE FilterDriver ----------------------------
(***************************************************************************)
(* rastertocanonij: main() reads its options, forks a shell that runs the  *)
(* real filters, passes the raster from its own stdin on to them through a *)
(* pipe, and waits.  SIGTERM is caught on the way and forwarded to the     *)
(* process group of the child.  The handler is installed without           *)
(* SA_RESTART: a blocked read, write or waitpid returns EINTR -- unless    *)
(* the handler ran just before the call.                                   *)
(*                                                                         *)
(* The raster is abstracted to positions 1 .. job, which the filter before *)
(* this one delivers bit by bit.                                           *)
(***************************************************************************)
EXTENDS Integers, Sequences

CONSTANTS
  MaxJob,    \* bound: the longest raster, in units
  BufSize,   \* DATA_BUF_SIZE in units
  PipeSize,  \* what the pipe to the child holds
  MaxTerms   \* bound: the SIGTERMs CUPS sends

ASSUME DriverAssumption ==
  /\ MaxJob \in Nat
  /\ BufSize \in Nat \ {0}
  /\ PipeSize \in Nat \ {0}
  /\ MaxTerms \in Nat

VARIABLES
  job, arrived,        \* the raster, and how much of it has come so far
  pc, result,          \* main(): where it is, what it will return
  g_filter_pid,        \* -1 until exec_filter() has returned
  g_signal_received,
  rpos,                \* units read from stdin
  p_data, read_bytes,  \* the rest of the buffer: units p_data + 1 ...
  passed,              \* what was written to the pipe, in order
  writers, readers,    \* who has an end of the pipe open
  child, got,          \* the child, and how much of passed it has read
  pending, terms,      \* a SIGTERM on its way to us; how many were sent
  childPending         \* ... and one on its way to the child

input    == <<job, arrived>>
copying  == <<rpos, p_data, read_bytes, passed>>
pipe     == <<writers, readers>>
filter   == <<child, got>>
signals  == <<pending, terms, childPending, g_signal_received>>
vars     == <<input, pc, result, g_filter_pid, copying, pipe, filter, signals>>

Gone == {"none", "ended", "reaped"}

TypeOK ==
  /\ job \in 0 .. MaxJob /\ arrived \in 0 .. job
  /\ pc \in {"options", "prepare", "fork", "forked", "top", "read", "write",
             "rest", "close", "wait", "exit"}
  /\ result \in {-1, 0}
  /\ g_filter_pid \in {-1, 1}
  /\ g_signal_received \in {0, 1}
  /\ rpos \in 0 .. arrived
  /\ p_data \in 0 .. rpos
  /\ read_bytes \in 0 .. BufSize
  /\ passed \in Seq(1 .. job)
  /\ got \in 0 .. Len(passed)
  /\ writers \subseteq {"parent", "child"} /\ readers \subseteq {"parent", "child"}
  /\ child \in Gone \cup {"forked", "grouped", "running", "astray", "spinning"}
  /\ pending \in {0, 1} /\ childPending \in {0, 1}
  /\ terms \in 0 .. MaxTerms

Init ==
  /\ job \in 0 .. MaxJob /\ arrived = 0
  /\ pc = "options" /\ result = -1
  /\ g_filter_pid = -1 /\ g_signal_received = 0
  /\ rpos = 0 /\ p_data = 0 /\ read_bytes = 0
  /\ passed = << >> /\ got = 0
  /\ writers = {} /\ readers = {}
  /\ child = "none"
  /\ pending = 0 /\ terms = 0 /\ childPending = 0

Smaller(a, b) == IF a < b THEN a ELSE b

-----------------------------------------------------------------------------
(***************************************************************************)
(* main(), up to the fork                                                  *)
(***************************************************************************)
\* Illegal arguments, a custom page size and an early SIGTERM end it here.
Options ==
  /\ pc = "options"
  /\ \/ pc' = "exit"
     \/ g_signal_received = 0 /\ pc' = "prepare"
  /\ UNCHANGED <<input, result, g_filter_pid, copying, pipe, filter, signals>>

\* Settings, PPD, command line: any of them may fail.
Prepare ==
  /\ pc = "prepare"
  /\ pc' \in {"fork", "exit"}
  /\ UNCHANGED <<input, result, g_filter_pid, copying, pipe, filter, signals>>

\* pipe() and fork(); both processes hold both ends.
Fork ==
  /\ pc = "fork"
  /\ \/ pc' = "exit" /\ UNCHANGED <<pipe, child>>
     \/ /\ pc' = "forked" /\ child' = "forked"
        /\ writers' = {"parent", "child"} /\ readers' = {"parent", "child"}
  /\ UNCHANGED <<input, result, g_filter_pid, copying, got, signals>>

StorePid ==
  /\ pc = "forked"
  /\ readers' = readers \ {"parent"}
  /\ g_filter_pid' = 1 /\ pc' = "top"
  /\ UNCHANGED <<input, result, copying, writers, filter, signals>>

-----------------------------------------------------------------------------
(***************************************************************************)
(* The copy loop                                                           *)
(***************************************************************************)
Top ==
  /\ pc = "top"
  /\ IF g_signal_received = 1
     THEN pc' = "close" /\ result' = 0
     ELSE pc' = "read" /\ UNCHANGED result
  /\ UNCHANGED <<input, g_filter_pid, copying, pipe, filter, signals>>

ReadData_Slip ==   \* an error leaves main() at once
  /\ pc = "read"
  /\ pc' = "exit"
  /\ UNCHANGED <<input, result, g_filter_pid, copying, pipe, filter, signals>>

\* What has arrived, at most a buffer of it; the end; or an error.
ReadData ==
  /\ pc = "read"
  /\ \/ \E k \in 1 .. Smaller(BufSize, arrived - rpos) :
          /\ rpos' = rpos + k /\ p_data' = rpos /\ read_bytes' = k
          /\ pc' = "write" /\ UNCHANGED result
     \/ /\ arrived = job /\ rpos = job
        /\ pc' = "close" /\ result' = 0
        /\ UNCHANGED <<rpos, p_data, read_bytes>>
     \/ /\ pc' = "close"
        /\ UNCHANGED <<result, rpos, p_data, read_bytes>>
  /\ UNCHANGED <<input, g_filter_pid, passed, pipe, filter, signals>>

Space == PipeSize - (Len(passed) - got)

WriteSome_Slip(k) ==   \* p_data stays at the head of the buffer
  /\ passed' = passed \o [i \in 1 .. k |-> p_data + i]
  /\ read_bytes' = read_bytes - k
  /\ UNCHANGED p_data

WriteSome(k) ==
  /\ passed' = passed \o [i \in 1 .. k |-> p_data + i]
  /\ read_bytes' = read_bytes - k
  /\ p_data' = p_data + k

\* write() takes what fits; without a reader it fails, SIGPIPE being ignored.
WriteData ==
  /\ pc = "write"
  /\ \/ /\ readers # {}
        /\ \E k \in 1 .. Smaller(read_bytes, Space) : WriteSome(k)
        /\ pc' = "rest"
     \/ /\ readers = {}
        /\ pc' = "close"
        /\ UNCHANGED <<passed, p_data, read_bytes>>
  /\ UNCHANGED <<input, result, g_filter_pid, rpos, pipe, filter, signals>>

Rest_Slip ==   \* one write per read
  /\ pc = "rest"
  /\ pc' = "top"
  /\ UNCHANGED <<input, result, g_filter_pid, copying, pipe, filter, signals>>

\* while (!g_signal_received && read_bytes > 0)
Rest ==
  /\ pc = "rest"
  /\ pc' = IF g_signal_received = 0 /\ read_bytes > 0 THEN "write" ELSE "top"
  /\ UNCHANGED <<input, result, g_filter_pid, copying, pipe, filter, signals>>

ClosePipe ==
  /\ pc = "close"
  /\ writers' = writers \ {"parent"}
  /\ pc' = "wait"
  /\ UNCHANGED <<input, result, g_filter_pid, copying, readers, filter, signals>>

WaitPid ==
  /\ pc = "wait" /\ child = "ended"
  /\ child' = "reaped"
  /\ pc' = "exit"
  /\ UNCHANGED <<input, result, g_filter_pid, copying, pipe, got, signals>>

-----------------------------------------------------------------------------
(***************************************************************************)
(* The child                                                               *)
(***************************************************************************)
SetPgid ==
  /\ child = "forked"
  /\ child' = "grouped"
  /\ UNCHANGED <<input, pc, result, g_filter_pid, copying, pipe, got, signals>>

ExecFilter_Slip ==   \* the child keeps fds[1]
  /\ child = "grouped"
  /\ child' \in {"running", "astray"}
  /\ UNCHANGED <<input, pc, result, g_filter_pid, copying, pipe, got, signals>>

\* The child keeps the read end only.  When execv() fails it returns from
\* exec_filter() into the copy loop of main(), with g_filter_pid 0.
ExecFilter ==
  /\ child = "grouped"
  /\ child' \in {"running", "astray"}
  /\ writers' = writers \ {"child"}
  /\ UNCHANGED <<input, pc, result, g_filter_pid, copying, readers, got, signals>>

FilterReads ==
  /\ child = "running" /\ got < Len(passed)
  /\ got' = got + 1
  /\ UNCHANGED <<input, pc, result, g_filter_pid, copying, pipe, child, signals>>

Ends(c) ==
  /\ child = c
  /\ child' = "ended"
  /\ readers' = readers \ {"child"}
  /\ UNCHANGED <<input, pc, result, g_filter_pid, copying, writers, got, signals>>

AtEOF == got = Len(passed) /\ writers = {}

FilterDone == AtEOF /\ Ends("running")

\* The filter gives up on its own.
FilterFails == Ends("running")

\* The copy loop in the child finds fds[1] closed with its first data, and
\* ends at the end of its input.
AstrayEnds == (got < Len(passed) \/ AtEOF) /\ Ends("astray")

-----------------------------------------------------------------------------
(***************************************************************************)
(* Signals and the rest of the world                                       *)
(***************************************************************************)
Cancel ==
  /\ pc # "exit" /\ terms < MaxTerms
  /\ pending' = 1 /\ terms' = terms + 1
  /\ UNCHANGED <<input, pc, result, g_filter_pid, copying, pipe, filter,
                 childPending, g_signal_received>>

\* The call main() is blocked in returns EINTR: the loops look at their
\* conditions again, and waitpid() is not repeated.
Interrupted ==
  \/ pc = "read" /\ rpos = arrived /\ arrived < job /\ pc' = "top"
  \/ pc = "write" /\ readers # {} /\ Space = 0 /\ pc' = "rest"
  \/ pc = "wait" /\ child # "ended" /\ pc' = "exit"

\* kill(-g_filter_pid): before setpgid() there is no such group.
Forwarded == g_filter_pid # -1 /\ child \notin Gone \cup {"forked"}

SigtermHandler ==
  /\ pending = 1 /\ pc # "exit"
  /\ pending' = 0
  /\ g_signal_received' = 1
  /\ childPending' = IF Forwarded THEN 1 ELSE childPending
  /\ Interrupted \/ UNCHANGED pc
  /\ UNCHANGED <<input, result, g_filter_pid, copying, pipe, filter, terms>>

\* Before execv() the handler of the parent is still there and does nothing
\* that lasts.  In a child that failed to execute, g_filter_pid is 0: its
\* handler signals its own group, itself included, without end.
TermAtFilter ==
  /\ childPending = 1
  /\ childPending' = 0
  /\ \/ /\ child = "running"
        /\ child' = "ended" /\ readers' = readers \ {"child"}
     \/ /\ child = "astray"
        /\ child' = "spinning" /\ UNCHANGED readers
     \/ /\ child \notin {"running", "astray"}
        /\ UNCHANGED <<child, readers>>
  /\ UNCHANGED <<input, pc, result, g_filter_pid, copying, writers, got, pending,
                 terms, g_signal_received>>

\* The filter before us delivers.
Arrive ==
  /\ arrived < job
  /\ arrived' = arrived + 1
  /\ UNCHANGED <<job, pc, result, g_filter_pid, copying, pipe, filter, signals>>

-----------------------------------------------------------------------------
Main == \/ Options \/ Prepare \/ Fork \/ StorePid \/ Top \/ ReadData \/ WriteData
        \/ Rest \/ ClosePipe \/ WaitPid

Filter == SetPgid \/ ExecFilter \/ FilterReads \/ FilterDone \/ AstrayEnds

Over == (pc = "exit" /\ child \in Gone) \/ child = "spinning"

Terminated == Over /\ UNCHANGED vars

Next == \/ Main \/ Filter \/ FilterFails
        \/ Cancel \/ SigtermHandler \/ TermAtFilter \/ Arrive \/ Terminated

Spec == Init /\ [][Next]_vars

(***************************************************************************)
(* Fairness: both processes run, the filters before and behind move on,    *)
(* and signals are delivered.                                              *)
(***************************************************************************)
FairSpec ==
  /\ Spec
  /\ WF_vars(Main)
  /\ WF_vars(Filter)
  /\ WF_vars(SigtermHandler)
  /\ WF_vars(TermAtFilter)
  /\ WF_vars(Arrive)

-----------------------------------------------------------------------------
\* A raster passed on without an interruption is whole and waited for: when
\* main() returns 0 and no SIGTERM came, everything that arrived is in the pipe
\* and the child is gone.
SuccessMeansDone ==
  pc = "exit" /\ result = 0 /\ g_signal_received = 0
    => Len(passed) = job /\ child = "reaped"

\* A filter is left behind by main() only when a SIGTERM came, and then the pipe
\* is closed, so that the filter finds the end of its input: no other way out
\* passes waitpid() by, those with an error included (main, exec_filter).
NoFilterLeft ==
  pc = "exit" /\ child \notin {"none", "reaped"} =>
    g_signal_received = 1 /\ "parent" \notin writers

\* The job ends, whatever fails and whenever SIGTERMs come, and no filter is
\* left -- but for the child whose execv() failed and that a SIGTERM then sends
\* into signalling itself.
JobEnds == <>[]Over

\* Whatever arrives is passed on front to back, nothing twice and nothing left
\* out, and success is only reported of all of it: the driver implements PrintJob
\* (an interrupted job is one that failed, though main() returns 0 for it).
PJ == INSTANCE PrintJob WITH
        total   <- job,
        taken   <- passed,
        aborted <- FALSE,
        outcome <- IF pc # "exit" THEN "open"
                   ELSE IF result = 0 /\ g_signal_received = 0 THEN "done"
                   ELSE "failed"

ImplementsPrintJob == PJ!Spec

=============================================================================

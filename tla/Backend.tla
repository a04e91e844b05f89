------------------------------ MODULE Backend ------------------------------
(***************************************************************************)
(* cnijbe, the CUPS backend: main() arms its SIGTERM handler, looks at its *)
(* arguments, forks, and waits for the child, which becomes cnijlgmon3.    *)
(* CUPS cancels a job by a SIGTERM to the backend, at any time; the        *)
(* handler passes it on to the process whose number is in pid.  Signals    *)
(* are delivered some time after they are sent, on both sides.             *)
(*                                                                         *)
(* cnijlgmon3 is the process of module LgmonSession; here it is known by   *)
(* its signal disposition and by its end.                                  *)
(***************************************************************************)
EXTENDS Integers

CONSTANT MaxCancels   \* bound: the SIGTERMs CUPS sends to one backend

ASSUME BackendAssumption == MaxCancels \in Nat

Child == 1          \* the number fork() returns to the parent

VARIABLES
  argc, opens,      \* the command line, and whether argv[6] can be opened
  at,               \* the point of main() reached by the parent
  exit,             \* how the parent ended
  pid,              \* the variable: -1 until fork() has returned to the parent
  stdinFile,        \* what the stream stdin reads: what CUPS sends, or argv[6]
  fd0,              \* what descriptor 0 of the parent reads
  termPending,      \* a SIGTERM for the parent is under way
  cancels,          \* SIGTERMs sent so far
  childAt,          \* what the child is
  childFd0,         \* its descriptor 0
  childTermPending, \* a SIGTERM for the child is under way
  interrupt_sign,   \* cnijlgmon3 has seen one
  status            \* how the child ended

command == <<argc, opens>>
parent  == <<at, exit, pid, stdinFile, fd0>>
process == <<childAt, childFd0, interrupt_sign, status>>
backendVars == <<command, parent, termPending, cancels, process, childTermPending>>

BackendTypeOK ==
  /\ argc \in {1, 2, 6, 7} /\ opens \in BOOLEAN
  /\ at \in {"start", "arguments", "fork", "forked", "close", "wait", "report",
             "exit"}
  /\ exit \in {"none", "0", "1", "signal"}
  /\ pid \in {-1, Child}
  /\ stdinFile \in {"spool", "argv[6]"}
  /\ fd0 \in {"spool", "closed"}
  /\ termPending \in {0, 1} /\ cancels \in 0 .. MaxCancels
  /\ childAt \in {"none", "forked", "executed", "handling", "zombie", "reaped"}
  /\ childFd0 \in {"spool", "closed"}
  /\ childTermPending \in {0, 1}
  /\ interrupt_sign \in {0, 1}
  /\ status \in {"none", "0", "error", "signal"}

BackendInit ==
  /\ argc \in {1, 2, 6, 7} /\ opens \in BOOLEAN
  /\ at = "start" /\ exit = "none" /\ pid = -1
  /\ stdinFile = "spool" /\ fd0 = "spool"
  /\ termPending = 0 /\ cancels = 0
  /\ childAt = "none" /\ childFd0 = "closed" /\ childTermPending = 0
  /\ interrupt_sign = 0 /\ status = "none"

-----------------------------------------------------------------------------
(***************************************************************************)
(* The parent                                                              *)
(***************************************************************************)
Exit(code) == at' = "exit" /\ exit' = code

CNIF_SetSignal ==
  /\ at = "start"
  /\ at' = "arguments"
  /\ UNCHANGED <<command, exit, pid, stdinFile, fd0, termPending, cancels, process,
                 childTermPending>>

\* argc is 1 for discovery, 6 for a job on stdin and 7 for one in a file.  The
\* file becomes the stream stdin; descriptor 0 stays as it was.
Arguments ==
  /\ at = "arguments"
  /\ \/ argc = 2 /\ Exit("1") /\ UNCHANGED stdinFile
     \/ argc \in {6, 7} /\ Exit("1") /\ UNCHANGED stdinFile   \* not a "port"
     \/ argc = 7 /\ ~opens /\ Exit("1") /\ UNCHANGED stdinFile
     \/ argc = 7 /\ opens /\ stdinFile' = "argv[6]" /\ at' = "fork" /\ UNCHANGED exit
     \/ argc \in {1, 6} /\ at' = "fork" /\ UNCHANGED <<stdinFile, exit>>
  /\ UNCHANGED <<command, pid, fd0, termPending, cancels, process, childTermPending>>

\* The child is there before the parent has stored its number.
ForkChild ==
  /\ at = "fork"
  /\ \/ /\ Exit("1") /\ UNCHANGED <<childAt, childFd0>>
     \/ /\ at' = "forked" /\ UNCHANGED exit
        /\ childAt' = "forked" /\ childFd0' = fd0
  /\ UNCHANGED <<command, pid, stdinFile, fd0, termPending, cancels, interrupt_sign,
                 status, childTermPending>>

StoreChildPid ==
  /\ at = "forked"
  /\ pid' = Child /\ at' = "close"
  /\ UNCHANGED <<command, exit, stdinFile, fd0, termPending, cancels, process,
                 childTermPending>>

CloseStdin ==
  /\ at = "close"
  /\ fd0' = "closed" /\ at' = "wait"
  /\ UNCHANGED <<command, exit, pid, stdinFile, termPending, cancels, process,
                 childTermPending>>

\* waitpid() goes on after a signal: signal() sets SA_RESTART.
WaitForChild_Slip ==   \* it does not
  /\ at = "wait"
  /\ \/ childAt = "zombie" /\ childAt' = "reaped"
     \/ cancels > 0 /\ termPending = 0 /\ UNCHANGED childAt
  /\ at' = "report"
  /\ UNCHANGED <<command, exit, pid, stdinFile, fd0, termPending, cancels, childFd0,
                 interrupt_sign, status, childTermPending>>

WaitForChild ==
  /\ at = "wait" /\ childAt = "zombie"
  /\ childAt' = "reaped"
  /\ at' = "report"
  /\ UNCHANGED <<command, exit, pid, stdinFile, fd0, termPending, cancels, childFd0,
                 interrupt_sign, status, childTermPending>>

\* The status is decoded and dropped: main() returns 0.
Report ==
  /\ at = "report"
  /\ Exit("0")
  /\ UNCHANGED <<command, pid, stdinFile, fd0, termPending, cancels, process,
                 childTermPending>>

-----------------------------------------------------------------------------
(***************************************************************************)
(* The child                                                               *)
(***************************************************************************)
\* When execl() fails the child runs on to the return at the end of main().
Exec ==
  /\ childAt = "forked"
  /\ \/ childAt' = "executed" /\ UNCHANGED <<status, childFd0>>
     \/ childAt' = "zombie" /\ status' = "0" /\ childFd0' = "closed"
  /\ UNCHANGED <<command, parent, termPending, cancels, interrupt_sign, childTermPending>>

\* cnijlgmon3 installs CNIF_SigCatch.
InstallHandler ==
  /\ childAt = "executed"
  /\ childAt' = "handling"
  /\ UNCHANGED <<command, parent, termPending, cancels, childFd0, interrupt_sign, status,
                 childTermPending>>

\* ... and ends: with its job, or of a SIGTERM.
ChildEnds ==
  /\ childAt \in {"executed", "handling"}
  /\ childAt' = "zombie" /\ childFd0' = "closed"
  /\ status' \in {"0", "error"}
  /\ UNCHANGED <<command, parent, termPending, cancels, interrupt_sign, childTermPending>>

-----------------------------------------------------------------------------
(***************************************************************************)
(* Signals                                                                 *)
(***************************************************************************)
\* CUPS cancels the job.
CancelBackend ==
  /\ at # "exit" /\ cancels < MaxCancels
  /\ termPending' = 1 /\ cancels' = cancels + 1
  /\ UNCHANGED <<command, parent, process, childTermPending>>

\* Before CNIF_SetSignal a SIGTERM ends the process.
DieOfTerm ==
  /\ termPending = 1 /\ at = "start"
  /\ termPending' = 0 /\ Exit("signal")
  /\ UNCHANGED <<command, pid, stdinFile, fd0, cancels, process, childTermPending>>

CNIF_SigCatch_Slip ==   \* the test the other way round: kill() in the child
  /\ termPending = 1 /\ at \notin {"start", "exit"}
  /\ termPending' = 0
  /\ IF pid = 0 THEN childTermPending' = 1 ELSE UNCHANGED childTermPending
  /\ UNCHANGED <<command, parent, cancels, process>>

\* kill() reaches a zombie without effect; once the child is reaped its
\* number is nobody's or another process's.
CNIF_SigCatch ==
  /\ termPending = 1 /\ at \notin {"start", "exit"}
  /\ termPending' = 0
  /\ IF pid > 0 /\ childAt \notin {"zombie", "reaped"}
     THEN childTermPending' = 1 ELSE UNCHANGED childTermPending
  /\ UNCHANGED <<command, parent, cancels, process>>

\* The forked child still has the handler of cnijbe, with a pid that is not
\* above 0: the signal is lost.  execl() restores the default action.
TermAtChild ==
  /\ childTermPending = 1
  /\ childTermPending' = 0
  /\ \/ /\ childAt \in {"forked", "zombie", "reaped"}
        /\ UNCHANGED process
     \/ /\ childAt = "executed"
        /\ childAt' = "zombie" /\ status' = "signal" /\ childFd0' = "closed"
        /\ UNCHANGED interrupt_sign
     \/ /\ childAt = "handling"
        /\ interrupt_sign' = 1
        /\ UNCHANGED <<childAt, status, childFd0>>
  /\ UNCHANGED <<command, parent, termPending, cancels>>

-----------------------------------------------------------------------------
Parent == \/ CNIF_SetSignal \/ Arguments \/ ForkChild \/ StoreChildPid \/ CloseStdin
          \/ WaitForChild \/ Report

Signal == CancelBackend \/ DieOfTerm \/ CNIF_SigCatch \/ TermAtChild

BackendOver == at = "exit" /\ childAt \in {"none", "reaped"} /\ UNCHANGED backendVars

BackendNext == Parent \/ Exec \/ InstallHandler \/ ChildEnds \/ Signal \/ BackendOver

BackendSpec == BackendInit /\ [][BackendNext]_backendVars

-----------------------------------------------------------------------------
\* The backend is never gone while cnijlgmon3 still runs, whenever a SIGTERM
\* arrives: CUPS takes the end of the backend for the end of the job.
BackendOutlivesChild == at = "exit" => childAt \in {"none", "reaped"}

(***************************************************************************)
(* Liveness: both processes run, signals are delivered, and cnijlgmon3     *)
(* ends once it was interrupted (CancelEndsSession of LgmonSession).       *)
(***************************************************************************)
FairBackendSpec ==
  /\ BackendSpec
  /\ WF_backendVars(Parent)
  /\ WF_backendVars(Exec \/ InstallHandler)
  /\ WF_backendVars(CNIF_SigCatch \/ DieOfTerm)
  /\ WF_backendVars(TermAtChild)
  /\ WF_backendVars(interrupt_sign = 1 /\ ChildEnds)

\* A cancel that is under way when the parent knows the number of its child and
\* the child has become cnijlgmon3 ends both, wherever the two are by then: it
\* is not swallowed by a handler that does not pass it on or by a wait that ends
\* without the child.
CancelEndsBackend ==
  termPending = 1 /\ pid = Child /\ childAt \in {"executed", "handling"}
    ~> at = "exit" /\ childAt = "reaped"

(***************************************************************************)
(* What comments and messages say, refuted by a run each                   *)
(***************************************************************************)
\* cnijbe.c:128: "If we have 7 arguments, print the file named on the
\* command-line."  The file is on another descriptor than the one cnijlgmon3
\* reads.
PrintsNamedFile == argc = 7 /\ childAt = "handling" => childFd0 = "argv[6]"

=============================================================================

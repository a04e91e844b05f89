---------------------------- MODULE ProcessProofs ----------------------------
(***************************************************************************)
(* CUPS starts two programs for a job that fork one themselves and wait    *)
(* for it: rastertocanonij and cnijbe.  CUPS may send SIGTERM to both.     *)
(*                                                                         *)
(* 1. The safety of FilterDriver for rasters, buffers and pipes of any     *)
(*    size and any number of SIGTERMs, and its implementation of PrintJob. *)
(* 2. The safety of Backend for any number of SIGTERMs.                    *)
(***************************************************************************)
EXTENDS FilterDriver, Backend, TLAPS

(***************************************************************************)
(* 1. What is passed on is the raster up to p_data, the buffer holds the   *)
(* stretch from there to rpos, and it is empty whenever more is read.      *)
(***************************************************************************)
CopyInv ==
  /\ passed = PJ!Prefix(p_data)
  /\ p_data + read_bytes = rpos
  /\ pc \in {"options", "prepare", "fork", "forked", "read"} => read_bytes = 0
  /\ pc = "top" /\ g_signal_received = 0 => read_bytes = 0

\* Success is for a raster that is through, or was interrupted.
ResultInv ==
  /\ result = 0 => pc \in {"close", "wait", "exit"}
  /\ result = 0 /\ g_signal_received = 0 => p_data = job
  /\ pc = "exit" /\ result = 0 /\ g_signal_received = 0 => child = "reaped"

DriverInv == TypeOK /\ CopyInv /\ ResultInv

USE DriverAssumption
USE DEF DriverAssumption, vars, input, copying, pipe, filter, signals, Gone

-----------------------------------------------------------------------------
\* Appending the next k units to a prefix of the raster gives a longer prefix.
LEMMA PrefixGrows ==
  ASSUME NEW n \in Nat, NEW k \in Nat
  PROVE  /\ PJ!Prefix(n) \o [i \in 1 .. k |-> n + i] = PJ!Prefix(n + k)
         /\ PJ!Prefix(n) \in Seq(1 .. n) /\ Len(PJ!Prefix(n)) = n
  BY DEF PJ!Prefix

\* The two ways of main() and of a signal that touch the data.
LEMMA DataStep ==
  ASSUME DriverInv, [Next]_vars
  PROVE  /\ job' = job
         /\ passed' = PJ!Prefix(p_data') /\ p_data' \in p_data .. rpos'
         /\ p_data' + read_bytes' = rpos'
         /\ passed' \in Seq(1 .. job) /\ Len(passed') = p_data'
         /\ read_bytes' \in 0 .. BufSize /\ rpos' \in 0 .. arrived'
         /\ arrived' \in arrived .. job
         /\ got' \in got .. Len(passed')
<1> USE DEF DriverInv, TypeOK, CopyInv
<1>1. /\ job \in Nat /\ p_data \in Nat /\ read_bytes \in Nat /\ rpos \in Nat
      /\ Len(passed) = p_data
  BY PrefixGrows
<1>2. ASSUME UNCHANGED <<job, copying>>, arrived' \in arrived .. job,
             got' \in got .. Len(passed)
      PROVE  /\ passed' = PJ!Prefix(p_data') /\ p_data' \in p_data .. rpos'
             /\ p_data' + read_bytes' = rpos'
             /\ passed' \in Seq(1 .. job) /\ Len(passed') = p_data'
             /\ read_bytes' \in 0 .. BufSize /\ rpos' \in 0 .. arrived'
             /\ got' \in got .. Len(passed')
  BY <1>1, <1>2
<1>3. CASE ReadData
  BY <1>1, <1>3 DEF ReadData, Smaller
<1>4. CASE WriteData
  <2>1. CASE readers = {} BY <1>1, <1>4, <2>1 DEF WriteData
  <2>2. CASE readers # {}
    <3>1. PICK k \in 1 .. Smaller(read_bytes, Space) : WriteSome(k)
      BY <1>4, <2>2 DEF WriteData
    <3>2. k \in 1 .. read_bytes
      BY <1>1, <3>1 DEF Smaller, Space
    <3>3. passed' = PJ!Prefix(p_data + k) /\ Len(passed') = p_data + k
          /\ passed' \in Seq(1 .. p_data + k)
      <4>1. k \in Nat /\ p_data + k \in Nat
        BY <1>1, <3>2
      <4>2. passed' = PJ!Prefix(p_data) \o [i \in 1 .. k |-> p_data + i]
        BY <3>1 DEF WriteSome
      <4>3. PJ!Prefix(p_data) \o [i \in 1 .. k |-> p_data + i] = PJ!Prefix(p_data + k)
        BY <1>1, <4>1, PrefixGrows
      <4>4. PJ!Prefix(p_data + k) \in Seq(1 .. p_data + k)
            /\ Len(PJ!Prefix(p_data + k)) = p_data + k
        BY <4>1, PrefixGrows
      <4> QED BY <4>2, <4>3, <4>4
    <3>4. UNCHANGED <<job, arrived, rpos, got>>
      BY <1>4 DEF WriteData
    <3>5. p_data' = p_data + k /\ read_bytes' = read_bytes - k
      BY <3>1 DEF WriteSome
    <3>6. p_data + k <= job
      BY <1>1, <3>2
    <3>7. passed' \in Seq(1 .. job)
      BY <3>3, <3>6, <1>1, <3>2
    <3> QED BY <1>1, <3>2, <3>3, <3>4, <3>5, <3>6, <3>7
  <2> QED BY <2>1, <2>2
<1>5. CASE FilterReads BY <1>1, <1>2, <1>5 DEF FilterReads
<1>6. CASE Arrive BY <1>1, <1>2, <1>6 DEF Arrive
<1>7. CASE UNCHANGED vars BY <1>1, <1>2, <1>7
<1>8. CASE Main /\ ~ReadData /\ ~WriteData
  <2>1. UNCHANGED <<job, arrived, copying, got>>
    BY <1>8 DEF Main, Options, Prepare, Fork, StorePid, Top, Rest, ClosePipe, WaitPid
  <2> QED BY <1>1, <1>2, <2>1
<1>9. CASE SetPgid \/ ExecFilter \/ FilterDone \/ AstrayEnds \/ FilterFails
  <2>1. UNCHANGED <<job, arrived, copying, got>>
    BY <1>9 DEF SetPgid, ExecFilter, FilterDone, AstrayEnds, FilterFails, Ends
  <2> QED BY <1>1, <1>2, <2>1
<1>10. CASE Cancel \/ SigtermHandler \/ TermAtFilter
  <2>1. UNCHANGED <<job, arrived, copying, got>>
    BY <1>10 DEF Cancel, SigtermHandler, TermAtFilter
  <2> QED BY <1>1, <1>2, <2>1
<1> QED
  BY <1>3, <1>4, <1>5, <1>6, <1>7, <1>8, <1>9, <1>10
  DEF Next, Main, Filter, Terminated

\* The control and the processes stay in their types.
LEMMA TypeStep ==
  ASSUME DriverInv, [Next]_vars
  PROVE  TypeOK'
<1> DEFINE ControlOK ==
      /\ pc \in {"options", "prepare", "fork", "forked", "top", "read", "write",
                 "rest", "close", "wait", "exit"}
      /\ result \in {-1, 0}
      /\ g_filter_pid \in {-1, 1}
      /\ g_signal_received \in {0, 1}
      /\ writers \subseteq {"parent", "child"}
      /\ readers \subseteq {"parent", "child"}
      /\ child \in Gone \cup {"forked", "grouped", "running", "astray", "spinning"}
      /\ pending \in {0, 1} /\ childPending \in {0, 1}
      /\ terms \in 0 .. MaxTerms
<1>1. ControlOK BY DEF DriverInv, TypeOK
<1>2. ControlOK'
  <2>1. CASE Main
    <3>1. CASE Options \/ Prepare BY <1>1, <3>1 DEF Options, Prepare
    <3>2. CASE Fork BY <1>1, <3>2 DEF Fork
    <3>3. CASE StorePid BY <1>1, <3>3 DEF StorePid
    <3>4. CASE Top \/ Rest BY <1>1, <3>4 DEF Top, Rest
    <3>5. CASE ReadData BY <1>1, <3>5 DEF ReadData
    <3>6. CASE WriteData BY <1>1, <3>6 DEF WriteData
    <3>7. CASE ClosePipe BY <1>1, <3>7 DEF ClosePipe
    <3>8. CASE WaitPid BY <1>1, <3>8 DEF WaitPid
    <3> QED BY <2>1, <3>1, <3>2, <3>3, <3>4, <3>5, <3>6, <3>7, <3>8 DEF Main
  <2>2. CASE SetPgid \/ FilterReads BY <1>1, <2>2 DEF SetPgid, FilterReads
  <2>3. CASE ExecFilter BY <1>1, <2>3 DEF ExecFilter
  <2>4. CASE FilterDone \/ AstrayEnds \/ FilterFails
    <3>1. CASE FilterDone BY <1>1, <3>1 DEF FilterDone, Ends
    <3>2. CASE AstrayEnds BY <1>1, <3>2 DEF AstrayEnds, Ends
    <3>3. CASE FilterFails BY <1>1, <3>3 DEF FilterFails, Ends
    <3> QED BY <2>4, <3>1, <3>2, <3>3
  <2>5. CASE Cancel BY <1>1, <2>5 DEF Cancel
  <2>6. CASE SigtermHandler BY <1>1, <2>6 DEF SigtermHandler, Interrupted
  <2>7. CASE TermAtFilter BY <1>1, <2>7 DEF TermAtFilter
  <2>8. CASE Arrive BY <1>1, <2>8 DEF Arrive
  <2>9. CASE UNCHANGED vars BY <1>1, <2>9
  <2> QED
    BY <2>1, <2>2, <2>3, <2>4, <2>5, <2>6, <2>7, <2>8, <2>9
    DEF Next, Filter, Terminated
<1>3. /\ job' \in 0 .. MaxJob /\ arrived' \in 0 .. job'
      /\ rpos' \in 0 .. arrived' /\ p_data' \in 0 .. rpos'
      /\ read_bytes' \in 0 .. BufSize
      /\ passed' \in Seq(1 .. job') /\ got' \in 0 .. Len(passed')
  <2>1. job \in 0 .. MaxJob /\ arrived \in 0 .. job /\ got \in Nat /\ p_data \in Nat
    BY DEF DriverInv, TypeOK
  <2> QED BY <2>1, DataStep
<1> QED BY <1>2, <1>3 DEF TypeOK

\* The rest of the invariant: when the buffer is empty, and what success means.
LEMMA ControlStep ==
  ASSUME DriverInv, [Next]_vars
  PROVE  CopyInv' /\ ResultInv'
<1> USE DEF DriverInv, ResultInv
<1>1. passed' = PJ!Prefix(p_data') /\ p_data' + read_bytes' = rpos' /\ job' = job
  BY DataStep
<1> DEFINE Buffered ==
      /\ pc \in {"options", "prepare", "fork", "forked", "read"} => read_bytes = 0
      /\ pc = "top" /\ g_signal_received = 0 => read_bytes = 0
      /\ ResultInv
<1>2. /\ p_data \in Nat /\ read_bytes \in Nat /\ rpos \in Nat /\ job \in Nat
      /\ rpos <= arrived /\ arrived <= job /\ p_data + read_bytes = rpos
      /\ Buffered
  BY DEF TypeOK, CopyInv
<1>3. g_signal_received \in {0, 1} BY DEF TypeOK
<1>4. Buffered'
  <2>1. CASE Options \/ Prepare BY <1>2, <2>1 DEF Options, Prepare
  <2>2. CASE Fork BY <1>2, <2>2 DEF Fork
  <2>3. CASE StorePid BY <1>2, <2>3 DEF StorePid
  <2>4. CASE Top BY <1>2, <1>3, <2>4 DEF Top
  <2>5. CASE ReadData BY <1>2, <2>5 DEF ReadData, Smaller
  <2>6. CASE WriteData BY <1>2, <2>6 DEF WriteData
  <2>7. CASE Rest BY <1>2, <1>3, <2>7 DEF Rest
  <2>8. CASE ClosePipe BY <1>2, <2>8 DEF ClosePipe
  <2>9. CASE WaitPid BY <1>2, <2>9 DEF WaitPid
  <2>10. CASE SetPgid \/ FilterReads \/ ExecFilter
    BY <1>2, <2>10 DEF SetPgid, FilterReads, ExecFilter
  <2>11. CASE FilterDone \/ AstrayEnds \/ FilterFails
    BY <1>2, <2>11 DEF FilterDone, AstrayEnds, FilterFails, Ends
  <2>12. CASE Cancel BY <1>2, <2>12 DEF Cancel
  <2>13. CASE SigtermHandler BY <1>2, <2>13 DEF SigtermHandler, Interrupted
  <2>14. CASE TermAtFilter BY <1>2, <2>14 DEF TermAtFilter
  <2>15. CASE Arrive BY <1>2, <2>15 DEF Arrive
  <2>16. CASE UNCHANGED vars BY <1>2, <2>16
  <2> QED
    BY <2>1, <2>2, <2>3, <2>4, <2>5, <2>6, <2>7, <2>8, <2>9, <2>10, <2>11,
       <2>12, <2>13, <2>14, <2>15, <2>16
    DEF Next, Main, Filter, Terminated
<1> QED BY <1>1, <1>4 DEF CopyInv

-----------------------------------------------------------------------------
\* The invariant holds from the start and is kept.
THEOREM DriverInvariance == Spec => []DriverInv
<1>1. Init => DriverInv
  BY PrefixGrows DEF Init, DriverInv, TypeOK, CopyInv, ResultInv, PJ!Prefix
<1>2. DriverInv /\ [Next]_vars => DriverInv'
  BY TypeStep, ControlStep DEF DriverInv
<1> QED BY <1>1, <1>2, PTL DEF Spec

\* The counts of the copy loop never leave the buffer, nor the raster its end.
THEOREM DriverTyped == Spec => []TypeOK
  BY DriverInvariance, PTL DEF DriverInv

\* An uninterrupted run of main() that returns 0 has passed on all of the raster
\* and has waited for the filter.
THEOREM SuccessIsWhole == Spec => []SuccessMeansDone
<1>1. DriverInv => SuccessMeansDone
  <2> SUFFICES ASSUME DriverInv PROVE SuccessMeansDone OBVIOUS
  <2>1. p_data \in Nat /\ Len(passed) = p_data
    BY PrefixGrows DEF DriverInv, TypeOK, CopyInv
  <2> QED BY <2>1 DEF DriverInv, ResultInv, SuccessMeansDone
<1> QED BY <1>1, DriverInvariance, PTL

(***************************************************************************)
(* There is no child before the fork, main() waits with its end of the     *)
(* pipe closed, and it returns without its filter only for a SIGTERM.      *)
(***************************************************************************)
LeftInv ==
  /\ pc \in {"options", "prepare", "fork"} => child = "none"
  /\ pc = "wait" => "parent" \notin writers
  /\ NoFilterLeft

LEMMA LeftStep ==
  ASSUME LeftInv, [Next]_vars
  PROVE  LeftInv'
<1> USE DEF LeftInv, NoFilterLeft
<1>1. CASE Options \/ Prepare BY <1>1 DEF Options, Prepare
<1>2. CASE Fork BY <1>2 DEF Fork
<1>3. CASE StorePid BY <1>3 DEF StorePid
<1>4. CASE Top BY <1>4 DEF Top
<1>5. CASE ReadData BY <1>5 DEF ReadData
<1>6. CASE WriteData BY <1>6 DEF WriteData
<1>7. CASE Rest BY <1>7 DEF Rest
<1>8. CASE ClosePipe BY <1>8 DEF ClosePipe
<1>9. CASE WaitPid BY <1>9 DEF WaitPid
<1>10. CASE SetPgid \/ FilterReads BY <1>10 DEF SetPgid, FilterReads
<1>11. CASE ExecFilter BY <1>11 DEF ExecFilter
<1>12. CASE FilterDone \/ AstrayEnds \/ FilterFails
  BY <1>12 DEF FilterDone, AstrayEnds, FilterFails, Ends
<1>13. CASE Cancel \/ Arrive BY <1>13 DEF Cancel, Arrive
<1>14. CASE SigtermHandler
  <2>1. CASE UNCHANGED pc BY <1>14, <2>1 DEF SigtermHandler
  <2>2. CASE Interrupted BY <1>14, <2>2 DEF SigtermHandler, Interrupted
  <2> QED BY <1>14, <2>1, <2>2 DEF SigtermHandler
<1>15. CASE TermAtFilter BY <1>15 DEF TermAtFilter
<1>16. CASE UNCHANGED vars BY <1>16
<1> QED
  BY <1>1, <1>2, <1>3, <1>4, <1>5, <1>6, <1>7, <1>8, <1>9, <1>10, <1>11, <1>12,
     <1>13, <1>14, <1>15, <1>16
  DEF Next, Main, Filter, Terminated

\* Every way out of main() but an interrupted waitpid() has waited for the filter,
\* and behind that one the filter finds the end of its input.
THEOREM FilterWaitedFor == Spec => []NoFilterLeft
<1>1. Init => LeftInv
  BY DEF Init, LeftInv, NoFilterLeft
<1>2. LeftInv /\ [Next]_vars => LeftInv'
  BY LeftStep
<1>3. LeftInv => NoFilterLeft
  BY DEF LeftInv
<1> QED BY <1>1, <1>2, <1>3, PTL DEF Spec

\* Every step of the driver passes some more of the raster on, ends the job or
\* changes nothing that the next filter sees.
LEMMA DriverSteps ==
  ASSUME DriverInv, DriverInv', [Next]_vars
  PROVE  [PJ!Next]_(PJ!vars)
<1>1. /\ job' = job /\ passed = PJ!Prefix(p_data) /\ passed' = PJ!Prefix(p_data')
      /\ Len(passed) = p_data /\ p_data' \in p_data .. job /\ job \in Nat
  <2>1. /\ p_data \in Nat /\ job \in Nat /\ arrived \in Nat
        /\ passed = PJ!Prefix(p_data)
    BY DEF DriverInv, TypeOK, CopyInv
  <2>2. Len(passed) = p_data
    BY <2>1, PrefixGrows
  <2>3. /\ job' = job /\ passed' = PJ!Prefix(p_data')
        /\ p_data' \in p_data .. rpos' /\ rpos' \in 0 .. arrived'
        /\ arrived' \in arrived .. job
    BY DataStep
  <2> QED BY <2>1, <2>2, <2>3
<1>2. CASE pc = "exit"
  <2>1. UNCHANGED <<job, passed, pc, result, g_signal_received>>
    BY <1>2 DEF Next, Main, Options, Prepare, Fork, StorePid, Top, ReadData,
       WriteData, Rest, ClosePipe, WaitPid, Filter, SetPgid, ExecFilter,
       FilterReads, FilterDone, AstrayEnds, FilterFails, Ends, Cancel,
       SigtermHandler, TermAtFilter, Arrive, Terminated
  <2> QED BY <2>1 DEF PJ!vars
<1>3. CASE pc # "exit" /\ pc' # "exit"
  <2>1. PJ!Pass BY <1>1, <1>3 DEF PJ!Pass
  <2> QED BY <2>1 DEF PJ!Next
<1>4. CASE pc # "exit" /\ pc' = "exit"
  <2>1. UNCHANGED <<job, passed, p_data>>
    BY <1>4 DEF Next, Main, Options, Prepare, Fork, StorePid, Top, ReadData,
       WriteData, Rest, ClosePipe, WaitPid, Filter, SetPgid, ExecFilter,
       FilterReads, FilterDone, AstrayEnds, FilterFails, Ends, Cancel,
       SigtermHandler, TermAtFilter, Arrive, Terminated
  <2>2. CASE result' = 0 /\ g_signal_received' = 0
    <3>1. p_data = job BY <2>1, <2>2 DEF DriverInv, ResultInv
    <3>2. PJ!Done BY <1>1, <1>4, <2>1, <2>2, <3>1 DEF PJ!Done
    <3> QED BY <3>2 DEF PJ!Next
  <2>3. CASE ~(result' = 0 /\ g_signal_received' = 0)
    <3>1. PJ!Fail BY <1>4, <2>1, <2>3 DEF PJ!Fail
    <3> QED BY <3>1 DEF PJ!Next
  <2> QED BY <2>2, <2>3
<1> QED BY <1>2, <1>3, <1>4

\* rastertocanonij is a step of the print path as PrintJob promises it.
THEOREM DriverRefinement == Spec => ImplementsPrintJob
<1>1. Init => PJ!Init
  BY DEF Init, PJ!Init, PJ!Prefix
<1>2. DriverInv /\ DriverInv' /\ [Next]_vars => [PJ!Next]_(PJ!vars)
  BY DriverSteps
<1> QED BY <1>1, <1>2, DriverInvariance, PTL DEF Spec, ImplementsPrintJob, PJ!Spec

-----------------------------------------------------------------------------
(***************************************************************************)
(* 2. cnijbe.                                                              *)
(***************************************************************************)
\* The child exists from fork() on, and is reaped by waitpid() only.
ChildInv ==
  /\ at \in {"start", "arguments", "fork"} => childAt = "none"
  /\ at \in {"forked", "close", "wait"} => childAt \notin {"none", "reaped"}
  /\ at = "report" => childAt = "reaped"
  /\ BackendOutlivesChild

USE BackendAssumption
USE DEF BackendAssumption, backendVars, command, parent, process, Exit, Child

\* Every step keeps the types and the relation between the two processes.
LEMMA BackendStep ==
  ASSUME BackendTypeOK, ChildInv, [BackendNext]_backendVars
  PROVE  BackendTypeOK' /\ ChildInv'
<1> USE DEF BackendTypeOK, ChildInv, BackendOutlivesChild
<1>1. CASE CNIF_SetSignal   BY <1>1 DEF CNIF_SetSignal
<1>2. CASE Arguments        BY <1>2 DEF Arguments
<1>3. CASE ForkChild        BY <1>3 DEF ForkChild
<1>4. CASE StoreChildPid    BY <1>4 DEF StoreChildPid
<1>5. CASE CloseStdin       BY <1>5 DEF CloseStdin
<1>6. CASE WaitForChild     BY <1>6 DEF WaitForChild
<1>7. CASE Report           BY <1>7 DEF Report
<1>8. CASE Exec             BY <1>8 DEF Exec
<1>9. CASE InstallHandler   BY <1>9 DEF InstallHandler
<1>10. CASE ChildEnds       BY <1>10 DEF ChildEnds
<1>11. CASE CancelBackend   BY <1>11 DEF CancelBackend
<1>12. CASE DieOfTerm       BY <1>12 DEF DieOfTerm
<1>13. CASE CNIF_SigCatch   BY <1>13 DEF CNIF_SigCatch
<1>14. CASE TermAtChild     BY <1>14 DEF TermAtChild
<1>15. CASE UNCHANGED backendVars BY <1>15
<1> QED
  BY <1>1, <1>2, <1>3, <1>4, <1>5, <1>6, <1>7, <1>8, <1>9, <1>10, <1>11,
     <1>12, <1>13, <1>14, <1>15
  DEF BackendNext, Parent, Signal, BackendOver

\* So they hold in all states.
LEMMA BackendInvariance == BackendSpec => [](BackendTypeOK /\ ChildInv)
<1>1. BackendInit => BackendTypeOK /\ ChildInv
  BY DEF BackendInit, BackendTypeOK, ChildInv, BackendOutlivesChild
<1>2. BackendTypeOK /\ ChildInv /\ [BackendNext]_backendVars => BackendTypeOK' /\ ChildInv'
  BY BackendStep
<1> QED BY <1>1, <1>2, PTL DEF BackendSpec

\* The backend is in a legal state: its pid is -1 or the number of its child.
THEOREM BackendTyped == BackendSpec => []BackendTypeOK
BY BackendInvariance, PTL

\* The backend is never gone while its child runs, whenever and however often
\* CUPS cancels.
THEOREM OutlivesChild == BackendSpec => []BackendOutlivesChild
<1>1. ChildInv => BackendOutlivesChild BY DEF ChildInv
<1> QED BY <1>1, BackendInvariance, PTL

=============================================================================

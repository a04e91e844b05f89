--------------------------- MODULE MaintenanceJob ---------------------------
(***************************************************************************)
(* What a maintenance job is promised to be.  The command file names a     *)
(* command in its second line, the printer description says what it stands *)
(* for, and the printer is sent the pieces of one job in their order, each *)
(* whole.  A job is done only with its last piece, and given up only when  *)
(* something went wrong or the file names no command.                      *)
(***************************************************************************)
EXTENDS Integers, Sequences

CONSTANTS
  Header,   \* what the first line begins with
  Returns,  \* the characters that end a line
  LineCap   \* a longer line counts as several

VARIABLES
  file,     \* the characters of the command file
  ppd,      \* the commands of the printer: names, and the sizes of their data
  device,   \* the printer's protocol, and whether it wants the date
  chosen,   \* the command that is performed, 0 if none yet
  wire,     \* what was sent last: units 1 to n of a piece of so many
  trouble,  \* something went wrong
  outcome   \* "open", "done", "failed"; "spoiled" stands for no promise

Line(a, b) == SubSeq(file, a + 1, b)

\* The characters behind a, up to b, are a line.
IsLine(a, b) ==
  /\ a < b /\ b <= Len(file) /\ b - a <= LineCap
  /\ \A i \in a + 1 .. b - 1 : file[i] \notin Returns
  /\ file[b] \in Returns \/ b = Len(file) \/ b - a = LineCap

Begins(s, t) == Len(s) <= Len(t) /\ \A i \in 1 .. Len(s) : s[i] = t[i]

\* The first command whose name the line begins with.
Names(line, i) ==
  /\ Begins(ppd[i].name, line)
  /\ \A j \in 1 .. i - 1 : ~Begins(ppd[j].name, line)

\* The file names command i: its first line is the header, or a part of it.
Command(i) ==
  \E a, b \in 1 .. Len(file) :
    /\ IsLine(0, a) /\ Begins(Line(0, a - 1), Header)
    /\ IsLine(a, b) /\ Names(Line(a, b), i)

\* The pieces: 1 opens the job, 2 sets the date, 3 opens the data, 4 sets the
\* time, 5 to 7 are the command between its brackets, 8 ends the job.
Last == 8

Absent(p) ==
  \/ p = 2 /\ device # [prot |-> 2, date |-> TRUE]
  \/ p = 4
  \/ p = 6 /\ ppd[chosen].size = 0

Follows(q, p) ==
  /\ q < p /\ p <= Last /\ ~Absent(p)
  /\ \A r \in q + 1 .. p - 1 : Absent(r)

Init ==
  /\ chosen = 0
  /\ wire = [piece |-> 0, n |-> 0, of |-> 0]
  /\ trouble = FALSE /\ outcome = "open"

Choose ==
  /\ chosen = 0
  /\ chosen' \in {i \in 1 .. Len(ppd) : Command(i)}
  /\ UNCHANGED <<wire, trouble, outcome>>

SendMore ==
  /\ \E n \in wire.n + 1 .. wire.of : wire' = [wire EXCEPT !.n = n]
  /\ UNCHANGED <<chosen, trouble, outcome>>

SendNext ==
  /\ chosen # 0 /\ wire.n = wire.of
  /\ wire' \in [piece : 1 .. Last, n : Nat, of : Nat]
  /\ Follows(wire.piece, wire'.piece)
  /\ wire'.n \in 1 .. wire'.of
  /\ wire'.piece = 6 => wire'.of = ppd[chosen].size
  /\ UNCHANGED <<chosen, trouble, outcome>>

Done ==
  /\ wire.piece = Last /\ wire.n = wire.of
  /\ outcome' = "done"
  /\ UNCHANGED <<chosen, wire, trouble>>

GiveUp ==
  /\ trouble' \/ \A i \in 1 .. Len(ppd) : ~Command(i)
  /\ outcome' = "failed"
  /\ UNCHANGED <<chosen, wire>>

Trouble ==
  /\ trouble' = TRUE
  /\ outcome' \in {"open", "spoiled"}
  /\ UNCHANGED <<chosen, wire>>

Next ==
  \/ outcome = "open" /\ (Choose \/ SendMore \/ SendNext \/ Done \/ GiveUp \/ Trouble)
  \/ outcome = "spoiled" /\ outcome' = "spoiled"

given == <<file, ppd, device>>
vars  == <<given, chosen, wire, trouble, outcome>>

Spec == Init /\ [][Next /\ UNCHANGED given]_vars

=============================================================================

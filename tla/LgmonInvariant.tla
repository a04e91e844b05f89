--------------------------- MODULE LgmonInvariant ---------------------------
(***************************************************************************)
(* The inductive invariant behind the safety properties of LgmonSession.   *)
(***************************************************************************)
EXTENDS LgmonRefinement

Starting == {"prepare", "open", "clear", "idle", "start"}
Sending  == {"copy", "chunk", "poll", "write"}
Waiting  == {"keep", "finish", "ready"}

\* Where the process can be, and what it holds there.
ControlInv ==
  /\ pc \in Starting \cup Sending \cup Waiting => via = "none"
  /\ pc = "prepare" => ~isPrinting
  /\ pc = "reset" => via = "onErr"
  /\ aborts # {} => via = "onErr"
  /\ pc \in (Starting \ {"prepare"}) \cup Sending \cup Waiting => ifType \in IfTypes
  /\ pc \in Sending \cup Waiting => dev = "session"
  /\ pc \in {"keep", "finish"} => ifType = "NET2"
  /\ pc = "ready" => ifType # "NET2"

\* How far stdin has been read.
StdinInv ==
  /\ readed_data <= fpos
  /\ fstate = "eof" => fpos = job
  /\ sign = 0 => fstate = "eof"
  /\ pc = "prepare" => fpos = 0 /\ fstate = "ok"
  /\ pc \in Starting => sign = 1 /\ copies > 0 /\ fpos = readed_data
  /\ pc \in {"copy", "chunk"} /\ sign = 0 => readed_data = 0
  /\ pc = "copy" /\ sign = 1 => copies > 0
  /\ pc \in Waiting => readed_data = 0 /\ fpos = job

\* The last unit taken is never behind the position of the buffer.
Reached ==
  IF received = << >> THEN fpos = readed_data
  ELSE received[Len(received)] >= fpos - readed_data

\* How far the printer has read.
WireInv ==
  /\ pc \in Starting => received = << >>
  /\ pc \in Sending => Reached
  /\ pc \in Sending /\ late = 0 => Len(received) = fpos - readed_data
  /\ pc \in Waiting /\ late = 0 => Len(received) >= job
  /\ (pc \in Waiting \/ via = "OK") /\ job > 0 => AllTaken
  /\ received # << >> => ifType \in IfTypes
  /\ received # << >> /\ pc # "exit" => dev = "session"

\* What the printer was told on the way out.
AbortInv ==
  pc \in {"close", "exit"} /\ via = "onErr" /\ received # << >> /\ ifType # "NET2"
    => aborts # {}

IInv ==
  /\ TypeOK
  /\ ControlInv
  /\ StdinInv
  /\ WireInv
  /\ AbortInv
  /\ InOrder
  /\ NoGap
  /\ SeenMeansStarted
  /\ OKMeansJobOver

=============================================================================

---------------------------- MODULE UsbInterface ----------------------------
(***************************************************************************)
(* CNIF_USB_Open, CNIF_USB_Discover, CNIF_USB_OneDeviceClose and           *)
(* CNIF_USB_Close, run by several processes at once: print jobs that look  *)
(* for their printer by its serial number, and CUPS looking for devices.   *)
(* Each walks over the same list of devices, takes the kernel's printer    *)
(* driver off every printer interface it passes, claims the interface, and *)
(* gives all of it back before it goes on to the next device.              *)
(*                                                                         *)
(* The kernel lets one party be bound to an interface: the driver usblp,   *)
(* or one process.  The interface number is taken for its position in the  *)
(* list of interfaces, as the USB standard has it and as the code does.    *)
(***************************************************************************)
EXTENDS Integers, Sequences

CONSTANTS
  Procs,      \* the processes
  Wanted,     \* the device a process prints on; 0: it lists the devices
  Ifaces,     \* interface numbers
  Settings,   \* of each Canon device: its settings of the printer class, in
              \* the order of the search: interface, alternate number, and
              \* whether the device ID says FAX
  MaxErrors   \* bound: the failures of libusb or of a device

NumDev == Len(Settings)
Devices == 1 .. NumDev
Slots == Devices \X Ifaces

ASSUME UsbAssumption ==
  /\ Settings \in Seq(Seq([number : Ifaces, alternate : Nat, fax : BOOLEAN]))
  /\ Wanted \in [Procs -> 0 .. Len(Settings)]
  /\ MaxErrors \in Nat
  /\ {"usblp", "none"} \cap Procs = {}

VARIABLES
  pc,         \* where a process is
  i,          \* its position in the device list
  k,          \* ... and among the settings of the device
  g_dh,       \* the open device, 0 for NULL
  scope,      \* what is being closed: "one" device, or "all"
  claimed,    \* g_claimed_interface, the first g_usblp_attached of them
  failed,     \* err < 0
  bound,      \* the kernel: who is bound to an interface
  errors      \* failures so far

vars == <<pc, i, k, g_dh, scope, claimed, failed, bound, errors>>

Searching == {"setting", "detach", "claim", "identify"}
Closing   == {"release", "attach"}

SettingsOf(d) == IF d = 0 THEN 0 ELSE Len(Settings[d])

TypeOK ==
  /\ pc \in [Procs -> {"start", "device", "open", "done"}
                        \cup Searching \cup Closing]
  /\ scope \in [Procs -> {"one", "all"}]
  /\ i \in [Procs -> 1 .. NumDev + 1]
  /\ g_dh \in [Procs -> 0 .. NumDev]
  /\ k \in [Procs -> Nat \ {0}]
  /\ claimed \in [Procs -> Seq(Ifaces)]
  /\ \A p \in Procs : Len(claimed[p]) <= SettingsOf(g_dh[p])   \* and these fit
  /\ failed \in [Procs -> BOOLEAN]
  /\ bound \in [Slots -> Procs \cup {"usblp", "none"}]
  /\ errors \in 0 .. MaxErrors

Init ==
  /\ pc = [p \in Procs |-> "start"]
  /\ i = [p \in Procs |-> 1] /\ k = [p \in Procs |-> 1]
  /\ g_dh = [p \in Procs |-> 0]
  /\ scope = [p \in Procs |-> "all"]
  /\ claimed = [p \in Procs |-> << >>]
  /\ failed = [p \in Procs |-> FALSE]
  /\ bound = [s \in Slots |-> "usblp"]
  /\ errors = 0

-----------------------------------------------------------------------------
Discovers(p) == Wanted[p] = 0
Setting(p)   == Settings[g_dh[p]][k[p]]
Slot(p)      == <<g_dh[p], Setting(p).number>>

Goto(p, place) == pc' = [pc EXCEPT ![p] = place]

\* The call of one of the two closing functions.
StartClosing(p, what) == Goto(p, "release") /\ scope' = [scope EXCEPT ![p] = what]

\* goto onErr with err < 0: everything is closed.
Fail(p) ==
  /\ failed' = [failed EXCEPT ![p] = TRUE]
  /\ StartClosing(p, "all")

\* libusb or the device fails.
LibusbFails(p) ==
  /\ pc[p] \in {"start", "device", "detach", "claim", "identify"}
  /\ errors < MaxErrors /\ errors' = errors + 1
  /\ Fail(p)
  /\ UNCHANGED <<i, k, g_dh, claimed, bound>>

GetDeviceList(p) ==
  /\ pc[p] = "start"
  /\ i' = [i EXCEPT ![p] = 1]
  /\ failed' = [failed EXCEPT ![p] = FALSE]
  /\ Goto(p, "device")
  /\ UNCHANGED <<k, g_dh, scope, claimed, bound, errors>>

OpenDevice(p) ==
  /\ pc[p] = "device" /\ i[p] <= NumDev
  /\ g_dh' = [g_dh EXCEPT ![p] = i[p]]
  /\ k' = [k EXCEPT ![p] = 1]
  /\ Goto(p, "setting")
  /\ UNCHANGED <<i, scope, claimed, failed, bound, errors>>

\* An open that has found nothing fails; a discovery is through.
EndOfList(p) ==
  /\ pc[p] = "device" /\ i[p] > NumDev
  /\ failed' = [failed EXCEPT ![p] = ~Discovers(p)]
  /\ StartClosing(p, "all")
  /\ UNCHANGED <<i, k, g_dh, claimed, bound, errors>>

\* A discovery looks at alternate setting 0 only.
Skipped(p) == Discovers(p) /\ Setting(p).alternate # 0

SkipSetting(p) ==
  /\ pc[p] = "setting" /\ k[p] <= Len(Settings[g_dh[p]])
  /\ Skipped(p)
  /\ k' = [k EXCEPT ![p] = @ + 1]
  /\ UNCHANGED <<pc, i, g_dh, scope, claimed, failed, bound, errors>>

EndOfSettings(p) ==
  /\ pc[p] = "setting" /\ k[p] > Len(Settings[g_dh[p]])
  /\ StartClosing(p, "one")
  /\ UNCHANGED <<i, k, g_dh, claimed, failed, bound, errors>>

TakeSetting_Slip(p) ==   \* what had no driver is not written down
  /\ pc[p] = "setting" /\ k[p] <= Len(Settings[g_dh[p]])
  /\ ~Skipped(p)
  /\ IF bound[Slot(p)] = "usblp"
     THEN /\ claimed' = [claimed EXCEPT ![p] = Append(@, Setting(p).number)]
          /\ Goto(p, "detach")
     ELSE Goto(p, "claim") /\ UNCHANGED claimed
  /\ UNCHANGED <<i, k, g_dh, scope, failed, bound, errors>>

\* The interface is written down before anything is done to it, and the driver
\* is looked for once.
TakeSetting(p) ==
  /\ pc[p] = "setting" /\ k[p] <= Len(Settings[g_dh[p]])
  /\ ~Skipped(p)
  /\ claimed' = [claimed EXCEPT ![p] = Append(@, Setting(p).number)]
  /\ Goto(p, IF bound[Slot(p)] = "usblp" THEN "detach" ELSE "claim")
  /\ UNCHANGED <<i, k, g_dh, scope, failed, bound, errors>>

\* Another process may have been faster.
DetachDriver(p) ==
  /\ pc[p] = "detach"
  /\ IF bound[Slot(p)] = "usblp"
     THEN /\ bound' = [bound EXCEPT ![Slot(p)] = "none"]
          /\ Goto(p, "claim") /\ UNCHANGED <<scope, failed>>
     ELSE Fail(p) /\ UNCHANGED bound
  /\ UNCHANGED <<i, k, g_dh, claimed, errors>>

ClaimInterface_Slip(p) ==   \* a busy interface counts as claimed
  /\ pc[p] = "claim"
  /\ bound' = [bound EXCEPT ![Slot(p)] = IF @ = "none" THEN p ELSE @]
  /\ Goto(p, "identify")
  /\ UNCHANGED <<i, k, g_dh, scope, claimed, failed, errors>>

\* LIBUSB_ERROR_BUSY is tried again without end, so it is no step.
ClaimInterface(p) ==
  /\ pc[p] = "claim"
  /\ bound[Slot(p)] \in {"none", p}
  /\ bound' = [bound EXCEPT ![Slot(p)] = p]
  /\ Goto(p, "identify")
  /\ UNCHANGED <<i, k, g_dh, scope, claimed, failed, errors>>

\* A FAX interface and another printer are passed by, claimed as they are.
IsOurs(p) == ~Setting(p).fax /\ g_dh[p] = Wanted[p]

Identify(p) ==
  /\ pc[p] = "identify"
  /\ IF IsOurs(p)
     THEN Goto(p, "open") /\ UNCHANGED k
     ELSE Goto(p, "setting") /\ k' = [k EXCEPT ![p] = @ + 1]
  /\ UNCHANGED <<i, g_dh, scope, claimed, failed, bound, errors>>

\* A serial number that cannot be read compares as it happens: with nothing when
\* its length is 0, with what is on the stack when the length is negative.
SerialUnread(p) ==
  /\ pc[p] = "identify" /\ ~Discovers(p) /\ ~Setting(p).fax
  /\ errors < MaxErrors /\ errors' = errors + 1
  /\ \/ Goto(p, "open") /\ UNCHANGED k
     \/ Goto(p, "setting") /\ k' = [k EXCEPT ![p] = @ + 1]
  /\ UNCHANGED <<i, g_dh, scope, claimed, failed, bound>>

\* The job is over.
UseEnds(p) ==
  /\ pc[p] = "open"
  /\ StartClosing(p, "all")
  /\ UNCHANGED <<i, k, g_dh, claimed, failed, bound, errors>>

-----------------------------------------------------------------------------
(***************************************************************************)
(* CNIF_USB_OneDeviceClose ("one") and CNIF_USB_Close ("all")              *)
(***************************************************************************)
First(p) == <<g_dh[p], Head(claimed[p])>>

\* An interface that is not claimed is an error, which is ignored.
Release(p) ==
  /\ pc[p] = "release" /\ claimed[p] # << >>
  /\ bound' = [bound EXCEPT ![First(p)] = IF @ = p THEN "none" ELSE @]
  /\ Goto(p, "attach")
  /\ UNCHANGED <<i, k, g_dh, scope, claimed, failed, errors>>

Attach_Slip(p) ==   \* the driver is not attached again
  /\ pc[p] = "attach"
  /\ claimed' = [claimed EXCEPT ![p] = Tail(@)]
  /\ Goto(p, "release")
  /\ UNCHANGED <<i, k, g_dh, scope, failed, bound, errors>>

\* ... and so is one that somebody is bound to by now.
Attach(p) ==
  /\ pc[p] = "attach"
  /\ bound' = [bound EXCEPT ![First(p)] = IF @ = "none" THEN "usblp" ELSE @]
  /\ claimed' = [claimed EXCEPT ![p] = Tail(@)]
  /\ Goto(p, "release")
  /\ UNCHANGED <<i, k, g_dh, scope, failed, errors>>

OneDeviceClose(p) ==
  /\ pc[p] = "release" /\ scope[p] = "one" /\ claimed[p] = << >>
  /\ g_dh' = [g_dh EXCEPT ![p] = 0]
  /\ i' = [i EXCEPT ![p] = @ + 1]
  /\ Goto(p, "device")
  /\ UNCHANGED <<k, scope, claimed, failed, bound, errors>>

Close_Slip(p) ==   \* the interfaces are not released
  /\ pc[p] = "release" /\ scope[p] = "all"
  /\ g_dh' = [g_dh EXCEPT ![p] = 0]
  /\ claimed' = [claimed EXCEPT ![p] = << >>]
  /\ Goto(p, IF failed[p] /\ ~Discovers(p) THEN "start" ELSE "done")
  /\ UNCHANGED <<i, k, scope, failed, bound, errors>>

\* main() opens again 30 seconds after an open that failed.
Close(p) ==
  /\ pc[p] = "release" /\ scope[p] = "all" /\ claimed[p] = << >>
  /\ g_dh' = [g_dh EXCEPT ![p] = 0]
  /\ Goto(p, IF failed[p] /\ ~Discovers(p) THEN "start" ELSE "done")
  /\ UNCHANGED <<i, k, scope, claimed, failed, bound, errors>>

-----------------------------------------------------------------------------
Step(p) ==
  \/ GetDeviceList(p) \/ OpenDevice(p) \/ EndOfList(p)
  \/ SkipSetting(p) \/ EndOfSettings(p) \/ TakeSetting(p)
  \/ DetachDriver(p) \/ ClaimInterface(p) \/ Identify(p) \/ UseEnds(p)
  \/ Release(p) \/ Attach(p) \/ OneDeviceClose(p) \/ Close(p)

\* In the loop around libusb_claim_interface(): the interface is busy.
Waits(p) == pc[p] = "claim" /\ bound[Slot(p)] \notin {"none", p}

\* ... and for good, when the driver is back that was not bound when the search
\* looked for it.
Stuck(p) == Waits(p) /\ bound[Slot(p)] = "usblp"

Still == \A p \in Procs : pc[p] = "done" \/ Waits(p)

AllOver == Still /\ ((\E p \in Procs : Waits(p)) => \E p \in Procs : Stuck(p))

Terminated == Still /\ UNCHANGED vars

Next == (\E p \in Procs : Step(p) \/ LibusbFails(p) \/ SerialUnread(p)) \/ Terminated

Spec == Init /\ [][Next]_vars

\* Every process runs, and a job that has its printer ends (SessionEnds and
\* CancelEndsSession of LgmonSession).
FairSpec == Spec /\ \A p \in Procs : WF_vars(Step(p))

-----------------------------------------------------------------------------
Written(d, list) == {<<d, list[j]>> : j \in DOMAIN list}

Recorded(p) == Written(g_dh[p], claimed[p])

\* What a process holds is written down, on the device it has open, so that
\* either close gives it back; a process that does not search or print holds
\* nothing at all.
HeldIsRecorded ==
  /\ \A s \in Slots : bound[s] \in Procs => s \in Recorded(bound[s])
  /\ \A p \in Procs : pc[p] \in {"start", "device", "done"} => Recorded(p) = {}

\* The kernel gets its driver back: an interface without one is always in the
\* list of a process that has still to attach it, however searches cross each
\* other and wherever they fail.
DriverGivenBack ==
  \A s \in Slots : bound[s] = "none" => \E p \in Procs : s \in Recorded(p)

\* A job keeps its interface from the claim to its own close: a search by
\* another process, or its end, does not take it away.
KeepsItsInterface ==
  \A p \in Procs : pc[p] = "open" =>
    bound[Slot(p)] = p /\ ~Setting(p).fax

\* Searches that claim interfaces in passing never wait for each other in a
\* circle: all come to their end, unless one of them is stuck behind the driver.
SearchesEnd == <>[]AllOver

=============================================================================

------------------------- MODULE UsbInterfaceProofs -------------------------
(***************************************************************************)
(* Whatever the number of processes, of printers and of settings: what is  *)
(* claimed is written down and given back, and the kernel gets its driver  *)
(* back.                                                                   *)
(*                                                                         *)
(* The inductive invariant says of each process what its list and its      *)
(* claims are at each place (Local), and of each interface without a       *)
(* driver who is to attach it (DriverGivenBack).  A step of one process    *)
(* leaves Local of the others alone, because it neither takes nor gives    *)
(* them an interface (Others).                                             *)
(***************************************************************************)
EXTENDS UsbInterface, TLAPS

Holding == {"detach", "claim", "identify", "open"}

Typed(q) ==
  /\ pc[q] \in {"start", "device", "open", "done"} \cup Searching \cup Closing
  /\ scope[q] \in {"one", "all"}
  /\ i[q] \in 1 .. NumDev + 1
  /\ g_dh[q] \in 0 .. NumDev
  /\ k[q] \in Nat \ {0}
  /\ claimed[q] \in Seq(Ifaces)
  /\ failed[q] \in BOOLEAN
  /\ Len(claimed[q]) <= SettingsOf(g_dh[q])

Place(q) ==
  /\ pc[q] \in {"start", "device", "done"} => claimed[q] = << >> /\ g_dh[q] = 0
  /\ pc[q] \in Searching \cup {"open"} => g_dh[q] \in Devices /\ i[q] = g_dh[q]
  /\ pc[q] \in Closing /\ scope[q] = "one" => i[q] <= NumDev
  /\ pc[q] = "setting" => Len(claimed[q]) < k[q]
  /\ pc[q] \in Holding => /\ k[q] \in DOMAIN Settings[g_dh[q]]
                          /\ Len(claimed[q]) <= k[q]
                          /\ Slot(q) \in Recorded(q)

Claims(q) ==
  /\ \A s \in Slots : bound[s] = q => s \in Recorded(q)
  /\ pc[q] \in {"identify", "open"} => bound[Slot(q)] = q
  /\ pc[q] = "open" => ~Setting(q).fax
  /\ pc[q] = "attach" => claimed[q] # << >> /\ bound[First(q)] # q

Local(q) == Typed(q) /\ Place(q) /\ Claims(q)

Shape ==
  /\ pc = [q \in Procs |-> pc[q]] /\ i = [q \in Procs |-> i[q]]
  /\ k = [q \in Procs |-> k[q]] /\ g_dh = [q \in Procs |-> g_dh[q]]
  /\ scope = [q \in Procs |-> scope[q]]
  /\ claimed = [q \in Procs |-> claimed[q]]
  /\ failed = [q \in Procs |-> failed[q]]
  /\ bound \in [Slots -> Procs \cup {"usblp", "none"}]
  /\ errors \in 0 .. MaxErrors

UsbInv == Shape /\ (\A q \in Procs : Local(q)) /\ DriverGivenBack

\* What a step of p leaves alone.
Same(q) ==
  /\ pc'[q] = pc[q] /\ i'[q] = i[q] /\ k'[q] = k[q] /\ g_dh'[q] = g_dh[q]
  /\ scope'[q] = scope[q] /\ claimed'[q] = claimed[q] /\ failed'[q] = failed[q]
  /\ \A s \in Slots : (bound'[s] = q) <=> (bound[s] = q)

Others(p) == \A q \in Procs \ {p} : Same(q)

\* What p took the driver from is in its list.
Keeps(p) == \A s \in Slots :
              bound'[s] = "none" /\ (bound[s] # "none" \/ s \in Recorded(p))
                => s \in Recorded(p)'

-----------------------------------------------------------------------------
\* Appending to the list of a close adds one entry to what is written down.
LEMMA WrittenAppend ==
  ASSUME NEW S, NEW l \in Seq(S), NEW x \in S, NEW d
  PROVE  /\ Append(l, x) \in Seq(S) /\ Len(Append(l, x)) = Len(l) + 1
         /\ Written(d, Append(l, x)) = Written(d, l) \cup {<<d, x>>}
<1> DEFINE m == Append(l, x)
<1>1. /\ m \in Seq(S) /\ Len(m) = Len(l) + 1 /\ Len(l) \in Nat
      /\ DOMAIN m = 1 .. Len(l) + 1 /\ DOMAIN l = 1 .. Len(l)
      /\ m[Len(l) + 1] = x /\ \A j \in 1 .. Len(l) : m[j] = l[j]
  OBVIOUS
<1>2. DOMAIN m = DOMAIN l \cup {Len(l) + 1}
  BY <1>1
<1> HIDE DEF m
<1>3. Written(d, m) = Written(d, l) \cup {<<d, x>>}
  BY <1>1, <1>2 DEF Written
<1> QED
  BY <1>1, <1>3 DEF m

\* Its head is one entry, its tail the others.
LEMMA WrittenTail ==
  ASSUME NEW S, NEW l \in Seq(S), l # << >>, NEW d
  PROVE  /\ Head(l) \in S /\ Tail(l) \in Seq(S) /\ Len(Tail(l)) <= Len(l)
         /\ <<d, Head(l)>> \in Written(d, l)
         /\ Written(d, l) \subseteq Written(d, Tail(l)) \cup {<<d, Head(l)>>}
<1>1. /\ Len(l) \in Nat \ {0} /\ DOMAIN l = 1 .. Len(l)
      /\ Head(l) = l[1] /\ Head(l) \in S /\ Tail(l) \in Seq(S)
      /\ Len(Tail(l)) = Len(l) - 1
      /\ DOMAIN Tail(l) = 1 .. Len(l) - 1
      /\ \A j \in 1 .. Len(l) - 1 : Tail(l)[j] = l[j + 1]
  OBVIOUS
<1>2. 1 \in DOMAIN l
  BY <1>1
<1>3. <<d, Head(l)>> \in Written(d, l)
  BY <1>1, <1>2 DEF Written
<1>4. ASSUME NEW j \in DOMAIN l, j # 1
      PROVE  <<d, l[j]>> \in Written(d, Tail(l))
  <2>1. j - 1 \in DOMAIN Tail(l) /\ Tail(l)[j - 1] = l[j]
    BY <1>1, <1>4
  <2> QED
    BY <2>1 DEF Written
<1>5. Written(d, l) \subseteq Written(d, Tail(l)) \cup {<<d, Head(l)>>}
  BY <1>1, <1>4 DEF Written
<1> QED
  BY <1>1, <1>3, <1>5

\* An empty list has nothing written down.
LEMMA WrittenEmpty == ASSUME NEW d PROVE Written(d, << >>) = {}
  BY DEF Written

LEMMA ElementOf ==
  ASSUME NEW S, NEW l \in Seq(S), NEW n \in DOMAIN l
  PROVE  l[n] \in S /\ n \in 1 .. Len(l) /\ Len(l) \in Nat
  OBVIOUS

\* The settings of a device are records.
LEMMA SettingTyped ==
  ASSUME NEW d \in Devices, NEW n \in DOMAIN Settings[d]
  PROVE  /\ Settings[d][n].number \in Ifaces /\ Settings[d][n].fax \in BOOLEAN
         /\ n \in 1 .. Len(Settings[d]) /\ Len(Settings[d]) \in Nat
<1> DEFINE R == [number : Ifaces, alternate : Nat, fax : BOOLEAN]
<1>1. Settings \in Seq(Seq(R))
  BY UsbAssumption
<1>2. d \in DOMAIN Settings
  BY <1>1 DEF Devices, NumDev
<1>3. Settings[d] \in Seq(R)
  BY <1>1, <1>2, ElementOf
<1> HIDE DEF R
<1>4. Settings[d][n] \in R /\ n \in 1 .. Len(Settings[d]) /\ Len(Settings[d]) \in Nat
  BY <1>3, ElementOf
<1> QED
  BY <1>4 DEF R

\* What a process is about to claim or to give back is an interface.
LEMMA InSlots ==
  ASSUME NEW q \in Procs, Local(q)
  PROVE  /\ pc[q] \in Holding => Slot(q) \in Slots
         /\ claimed[q] # << >> => First(q) \in Slots /\ g_dh[q] \in Devices
<1>1. ASSUME claimed[q] # << >>
      PROVE  First(q) \in Slots /\ g_dh[q] \in Devices
  <2>1. claimed[q] \in Seq(Ifaces) /\ Len(claimed[q]) > 0
    BY <1>1 DEF Local, Typed
  <2>2. g_dh[q] # 0
    BY <2>1 DEF Local, Typed, SettingsOf
  <2>3. g_dh[q] \in Devices
    BY <2>2, UsbAssumption DEF Local, Typed, Devices, NumDev
  <2>4. Head(claimed[q]) \in Ifaces
    BY <2>1
  <2>5. First(q) \in Slots
    BY <2>3, <2>4 DEF First, Slots
  <2> QED
    BY <2>3, <2>5
<1>2. ASSUME pc[q] \in Holding
      PROVE  Slot(q) \in Slots
  <2>1. g_dh[q] \in Devices /\ k[q] \in DOMAIN Settings[g_dh[q]]
    BY <1>2 DEF Local, Place, Holding, Searching
  <2> QED
    BY <2>1, SettingTyped DEF Slot, Setting, Slots
<1> QED
  BY <1>1, <1>2

\* What is the same for q as before the step keeps its part of the invariant.
LEMMA SameIsLocal ==
  ASSUME NEW q \in Procs, Local(q), Same(q)
  PROVE  Local(q)' /\ Recorded(q)' = Recorded(q)
<1> USE DEF Same
<1>1. Recorded(q)' = Recorded(q)
  BY DEF Recorded, Written
<1>2. Typed(q)'
  BY DEF Local, Typed
<1>3. Slot(q)' = Slot(q) /\ Setting(q)' = Setting(q) /\ First(q)' = First(q)
  BY DEF Slot, Setting, First
<1>4. Place(q)'
  BY <1>1, <1>3 DEF Local, Place
<1>5. Claims(q)'
  <2>1. \A s \in Slots : bound'[s] = q => s \in Recorded(q)'
    BY <1>1 DEF Local, Claims
  <2>2. pc'[q] \in {"identify", "open"} => bound'[Slot(q)'] = q
    BY <1>3, InSlots DEF Local, Claims, Holding
  <2>3. pc'[q] = "open" => ~Setting(q)'.fax
    BY <1>3 DEF Local, Claims
  <2>4. pc'[q] = "attach" => claimed'[q] # << >> /\ bound'[First(q)'] # q
    BY <1>3, InSlots DEF Local, Claims
  <2> QED
    BY <2>1, <2>2, <2>3, <2>4 DEF Claims
<1> QED
  BY <1>1, <1>2, <1>4, <1>5 DEF Local

\* So does a step of p as a whole, when it keeps the parts of p.
LEMMA OneProcess ==
  ASSUME NEW p \in Procs, UsbInv, Others(p), Local(p)', Keeps(p), Shape'
  PROVE  UsbInv'
<1>1. ASSUME NEW q \in Procs PROVE Local(q)'
  <2>1. CASE q = p
    BY <2>1
  <2>2. CASE q # p
    BY <2>2, SameIsLocal DEF UsbInv, Others
  <2> QED
    BY <2>1, <2>2
<1>2. ASSUME NEW s \in Slots, bound'[s] = "none"
      PROVE  \E q \in Procs : s \in Recorded(q)'
  <2>1. CASE bound[s] # "none" \/ s \in Recorded(p)
    BY <1>2, <2>1 DEF Keeps
  <2>2. CASE bound[s] = "none" /\ s \notin Recorded(p)
    <3>1. PICK q \in Procs : s \in Recorded(q)
      BY <2>2 DEF UsbInv, DriverGivenBack
    <3>2. q # p
      BY <2>2, <3>1
    <3> QED
      BY <3>1, <3>2, SameIsLocal DEF UsbInv, Others
  <2> QED
    BY <2>1, <2>2
<1> QED
  BY <1>1, <1>2 DEF UsbInv, DriverGivenBack

LEMMA DeviceTyped ==
  ASSUME NEW d \in Devices
  PROVE  Len(Settings[d]) \in Nat /\ DOMAIN Settings[d] = 1 .. Len(Settings[d])
<1> DEFINE R == [number : Ifaces, alternate : Nat, fax : BOOLEAN]
<1>1. Settings \in Seq(Seq(R)) /\ d \in DOMAIN Settings
  BY UsbAssumption DEF Devices, NumDev
<1>2. Settings[d] \in Seq(R)
  BY <1>1, ElementOf
<1> HIDE DEF R
<1> QED
  BY <1>2

-----------------------------------------------------------------------------
LEMMA InitUsb == Init => UsbInv
<1> SUFFICES ASSUME Init PROVE UsbInv
  OBVIOUS
<1> USE DEF Init
<1>1. Shape
  BY UsbAssumption DEF Shape
<1>2. NumDev \in Nat
  BY UsbAssumption DEF NumDev
<1>3. ASSUME NEW q \in Procs PROVE Local(q)
  <2>1. Typed(q)
    BY <1>2 DEF Typed, SettingsOf
  <2>2. Place(q)
    BY DEF Place, Searching, Closing, Holding
  <2>3. Claims(q)
    BY UsbAssumption DEF Claims
  <2> QED
    BY <2>1, <2>2, <2>3 DEF Local
<1>4. DriverGivenBack
  BY DEF DriverGivenBack
<1> QED
  BY <1>1, <1>3, <1>4 DEF UsbInv

\* Steps that touch neither a list nor an interface: it is enough to look at
\* where p stands.
LEMMA QuietStep ==
  ASSUME NEW p \in Procs, UsbInv, Shape',
         UNCHANGED <<bound, claimed>>,
         \A q \in Procs \ {p} :
           /\ pc'[q] = pc[q] /\ i'[q] = i[q] /\ k'[q] = k[q] /\ g_dh'[q] = g_dh[q]
           /\ scope'[q] = scope[q] /\ failed'[q] = failed[q],
         g_dh'[p] = g_dh[p] \/ claimed[p] = << >>,
         Typed(p)', Place(p)',
         pc'[p] # "attach",
         pc'[p] \in {"identify", "open"} => /\ bound[Slot(p)'] = p
                                            /\ pc'[p] = "open" => ~Setting(p)'.fax
  PROVE  UsbInv'
<1>1. Recorded(p)' = Recorded(p)
  BY DEF Recorded, Written
<1>2. Keeps(p)
  BY <1>1 DEF Keeps
<1>3. Others(p)
  BY DEF Others, Same
<1>4. Claims(p)'
  BY <1>1 DEF Claims, UsbInv, Local
<1> QED
  BY <1>2, <1>3, <1>4, OneProcess DEF Local

LEMMA NumDevNat == NumDev \in Nat /\ DOMAIN Settings = Devices
  BY UsbAssumption DEF NumDev, Devices

LEMMA GetDeviceListStep ==
  ASSUME NEW p \in Procs, UsbInv, GetDeviceList(p)
  PROVE  UsbInv'
<1> USE NumDevNat DEF Goto, GetDeviceList
<1>1. Shape /\ Local(p) /\ Shape'
  BY DEF UsbInv, Shape
<1>2. Typed(p)'
  BY <1>1, SettingTyped DEF Shape, Local, Typed
<1>3. Place(p)'
  BY <1>1 DEF Local, Place, Searching, Closing, Holding
<1> QED
  BY <1>1, <1>2, <1>3, QuietStep DEF Shape

LEMMA OpenDeviceStep ==
  ASSUME NEW p \in Procs, UsbInv, OpenDevice(p)
  PROVE  UsbInv'
<1> USE NumDevNat DEF Goto, OpenDevice
<1>1. Shape /\ Local(p) /\ Shape'
  BY DEF UsbInv, Shape
<1>2. Typed(p)'
  BY <1>1, SettingTyped DEF Local, Typed, Place, Searching, SettingsOf
<1>3. Place(p)'
  <2>1. claimed[p] = << >> /\ Len(claimed[p]) = 0
    BY <1>1 DEF Local, Place
  <2>2. i[p] \in Devices
    BY <1>1 DEF Local, Typed, Devices
  <2>3. /\ pc'[p] = "setting" /\ g_dh'[p] = i[p] /\ k'[p] = 1 /\ i'[p] = i[p]
        /\ claimed'[p] = claimed[p]
    BY <1>1 DEF Shape
  <2> QED
    BY <2>1, <2>2, <2>3 DEF Place, Holding
<1> QED
  BY <1>1, <1>2, <1>3, QuietStep DEF Local, Place, Claims, Searching

LEMMA EndOfListStep ==
  ASSUME NEW p \in Procs, UsbInv, EndOfList(p)
  PROVE  UsbInv'
<1> USE NumDevNat DEF Goto, StartClosing, EndOfList
<1>1. Shape /\ Local(p) /\ Shape'
  BY DEF UsbInv, Shape
<1>2. Typed(p)'
  BY <1>1, SettingTyped DEF Shape, Local, Typed, Closing
<1>3. Place(p)'
  BY <1>1 DEF Shape, Place, Searching, Holding
<1> QED
  BY <1>1, <1>2, <1>3, QuietStep DEF Place

LEMMA SkipSettingStep ==
  ASSUME NEW p \in Procs, UsbInv, SkipSetting(p)
  PROVE  UsbInv'
<1> USE NumDevNat DEF SkipSetting
<1>1. Shape /\ Local(p) /\ Shape'
  BY DEF UsbInv, Shape
<1>2. Typed(p)'
  BY <1>1, SettingTyped DEF Local, Typed
<1>3. Place(p)'
  BY <1>1 DEF Local, Typed, Place, Holding
<1> QED
  BY <1>1, <1>2, <1>3, QuietStep DEF Shape

LEMMA EndOfSettingsStep ==
  ASSUME NEW p \in Procs, UsbInv, EndOfSettings(p)
  PROVE  UsbInv'
<1> USE NumDevNat DEF Goto, StartClosing, EndOfSettings
<1>1. Shape /\ Local(p) /\ Shape'
  BY DEF UsbInv, Shape
<1>2. Typed(p)'
  BY <1>1, SettingTyped DEF Local, Typed, Closing
<1>3. Place(p)'
  BY <1>1 DEF Local, Typed, Place, Closing, Holding
<1> QED
  BY <1>1, <1>2, <1>3, QuietStep DEF Place

LEMMA IdentifyStep ==
  ASSUME NEW p \in Procs, UsbInv, Identify(p)
  PROVE  UsbInv'
<1> USE NumDevNat DEF Goto, Identify
<1>1. Shape /\ Local(p) /\ Shape'
  BY DEF UsbInv, Shape
<1>2. Typed(p)'
  BY <1>1, SettingTyped DEF Shape, Local, Typed, Searching
<1>3. Place(p)'
  BY <1>1 DEF Shape, Local, Typed, Place, Closing, Holding, Slot, Setting, Recorded
<1> QED
  BY <1>1, <1>2, <1>3, QuietStep DEF Shape, Local, Claims, Slot, Setting, IsOurs

LEMMA UseEndsStep ==
  ASSUME NEW p \in Procs, UsbInv, UseEnds(p)
  PROVE  UsbInv'
<1> USE NumDevNat DEF Goto, StartClosing, UseEnds
<1>1. Shape /\ Local(p) /\ Shape'
  BY DEF UsbInv, Shape
<1>2. Typed(p)'
  BY <1>1, SettingTyped DEF Local, Typed, Closing
<1>3. Place(p)'
  BY <1>1 DEF Local, Typed, Place, Holding, Slot, Setting, Recorded
<1> QED
  BY <1>1, <1>2, <1>3, QuietStep DEF Local, Claims, Slot, Setting

LEMMA OneDeviceCloseStep ==
  ASSUME NEW p \in Procs, UsbInv, OneDeviceClose(p)
  PROVE  UsbInv'
<1> USE NumDevNat DEF Goto, OneDeviceClose
<1>1. Shape /\ Local(p) /\ Shape'
  BY DEF UsbInv, Shape
<1>2. Typed(p)'
  BY <1>1, SettingTyped DEF Shape, Local, Typed, Place, SettingsOf
<1>3. Place(p)'
  BY <1>1 DEF Shape, Place, Searching, Closing, Holding
<1> QED
  BY <1>1, <1>2, <1>3, QuietStep DEF Shape

LEMMA CloseStep ==
  ASSUME NEW p \in Procs, UsbInv, Close(p)
  PROVE  UsbInv'
<1> USE NumDevNat DEF Goto, Close
<1>1. Shape /\ Local(p) /\ Shape'
  BY DEF UsbInv, Shape
<1>2. Typed(p)'
  BY <1>1, SettingTyped DEF Shape, Local, Typed, SettingsOf
<1>3. Place(p)'
  BY <1>1 DEF Shape, Place, Searching, Holding
<1> QED
  BY <1>1, <1>2, <1>3, QuietStep DEF Shape

LEMMA LibusbFailsStep ==
  ASSUME NEW p \in Procs, UsbInv, LibusbFails(p)
  PROVE  UsbInv'
<1> USE NumDevNat DEF Goto, StartClosing, Fail, LibusbFails
<1>0. errors' \in 0 .. MaxErrors
  BY UsbAssumption DEF UsbInv, Shape
<1>1. Shape /\ Local(p) /\ Shape'
  BY <1>0 DEF UsbInv, Shape
<1>2. Typed(p)'
  BY <1>1, SettingTyped DEF Shape, Local, Typed, Closing
<1>3. Place(p)'
  BY <1>1 DEF Shape, Place, Searching, Holding
<1> QED
  BY <1>1, <1>2, <1>3, QuietStep DEF Shape

LEMMA SerialUnreadStep ==
  ASSUME NEW p \in Procs, UsbInv, SerialUnread(p)
  PROVE  UsbInv'
<1> USE NumDevNat DEF Goto, SerialUnread
<1>1. Shape /\ Local(p) /\ Shape'
  BY UsbAssumption DEF UsbInv, Shape
<1>2. Typed(p)'
  BY <1>1, SettingTyped DEF Shape, Local, Typed, Searching
<1>3. Place(p)'
  BY <1>1 DEF Shape, Local, Typed, Place, Closing, Holding, Slot, Setting, Recorded, Written
<1> QED
  BY <1>1, <1>2, <1>3, QuietStep DEF Shape, Local, Claims, Slot, Setting

\* The list grows by the interface that p is about to take.
LEMMA TakeSettingStep ==
  ASSUME NEW p \in Procs, UsbInv, TakeSetting(p)
  PROVE  UsbInv'
<1> USE NumDevNat DEF Goto, TakeSetting
<1>1. Shape /\ Local(p) /\ Shape'
  BY DEF UsbInv, Shape
<1>2. g_dh[p] \in Devices /\ g_dh'[p] = g_dh[p] /\ k'[p] = k[p] /\ i[p] = g_dh[p]
      /\ k[p] \in Nat \ {0} /\ claimed[p] \in Seq(Ifaces) /\ Len(claimed[p]) < k[p]
  BY <1>1 DEF Local, Place, Typed, Searching, Shape
<1>3. k[p] \in DOMAIN Settings[g_dh[p]] /\ Setting(p).number \in Ifaces
  <2>1. DOMAIN Settings[g_dh[p]] = 1 .. Len(Settings[g_dh[p]])
        /\ Len(Settings[g_dh[p]]) \in Nat
    BY <1>2, DeviceTyped
  <2>2. k[p] \in DOMAIN Settings[g_dh[p]]
    BY <1>2, <2>1
  <2> QED
    BY <1>2, <2>2, SettingTyped DEF Setting
<1>4. claimed'[p] = Append(claimed[p], Setting(p).number)
  BY <1>1 DEF Shape
<1>5. /\ claimed'[p] \in Seq(Ifaces) /\ Len(claimed'[p]) = Len(claimed[p]) + 1
      /\ Recorded(p)' = Recorded(p) \cup {Slot(p)}
  BY <1>2, <1>3, <1>4, WrittenAppend DEF Recorded, Slot
<1>6. Slot(p)' = Slot(p)
  BY <1>2 DEF Slot, Setting
<1>7. pc'[p] \in {"detach", "claim"} /\ scope'[p] = scope[p]
  BY <1>1 DEF Shape
<1>8. Typed(p)'
  <2>1. Len(claimed'[p]) <= Len(Settings[g_dh[p]])
    BY <1>2, <1>3, <1>5, SettingTyped
  <2>2. SettingsOf(g_dh'[p]) = Len(Settings[g_dh[p]])
    BY <1>2 DEF SettingsOf, Devices
  <2> QED
    BY <1>1, <1>2, <1>5, <1>7, <2>1, <2>2 DEF Typed, Local, Searching
<1>9. Place(p)'
  <2>1. Len(claimed'[p]) <= k[p]
    BY <1>2, <1>5
  <2> QED
    BY <1>2, <1>3, <1>5, <1>6, <1>7, <2>1 DEF Place, Searching, Closing, Holding
<1>10. Claims(p)'
  BY <1>1, <1>5, <1>7 DEF Local, Claims
<1>11. Others(p)
  BY <1>1 DEF Others, Same, Shape
<1>12. Keeps(p)
  BY <1>5 DEF Keeps
<1> QED
  BY <1>1, <1>8, <1>9, <1>10, <1>11, <1>12, OneProcess DEF Local

\* What p takes the driver from is in its list.
LEMMA DetachDriverStep ==
  ASSUME NEW p \in Procs, UsbInv, DetachDriver(p)
  PROVE  UsbInv'
<1> USE NumDevNat DEF Goto, Fail, StartClosing, DetachDriver
<1>1. Shape /\ Local(p) /\ Slot(p) \in Slots /\ Slot(p) \in Recorded(p)
  BY InSlots DEF UsbInv, Holding, Local, Place
<1>2. Shape'
  BY <1>1 DEF Shape
<1>3. Recorded(p)' = Recorded(p) /\ Slot(p)' = Slot(p)
  BY DEF Recorded, Slot, Setting
<1>4. /\ i'[p] = i[p] /\ k'[p] = k[p] /\ g_dh'[p] = g_dh[p] /\ claimed'[p] = claimed[p]
      /\ pc'[p] \in {"claim", "release"}
      /\ \/ pc'[p] = "claim" /\ scope'[p] = scope[p] /\ failed'[p] = failed[p]
         \/ pc'[p] = "release" /\ scope'[p] = "all" /\ failed'[p] = TRUE
  BY <1>1 DEF Shape
<1>5. Typed(p)'
  BY <1>1, <1>4 DEF Local, Typed, Searching, Closing
<1>6. Place(p)'
  BY <1>1, <1>3, <1>4 DEF Local, Place, Searching, Closing, Holding
<1>7. \A q \in Procs, s \in Slots : (bound'[s] = q) <=> (bound[s] = q)
  BY <1>1, UsbAssumption DEF Shape
<1>8. Claims(p)'
  BY <1>1, <1>3, <1>4, <1>7 DEF Local, Claims
<1>9. Others(p)
  BY <1>1, <1>7 DEF Others, Same, Shape
<1>10. Keeps(p)
  BY <1>1, <1>3 DEF Keeps, Shape
<1> QED
  BY <1>1, <1>2, <1>5, <1>6, <1>8, <1>9, <1>10, OneProcess DEF Local

\* An interface is claimed from nobody.
LEMMA ClaimInterfaceStep ==
  ASSUME NEW p \in Procs, UsbInv, ClaimInterface(p)
  PROVE  UsbInv'
<1> USE NumDevNat DEF Goto, ClaimInterface
<1>1. Shape /\ Local(p) /\ Slot(p) \in Slots /\ Slot(p) \in Recorded(p)
  BY InSlots DEF UsbInv, Holding, Local, Place
<1>2. Shape'
  BY <1>1 DEF Shape
<1>3. Recorded(p)' = Recorded(p) /\ Slot(p)' = Slot(p)
  BY DEF Recorded, Slot, Setting
<1>4. /\ i'[p] = i[p] /\ k'[p] = k[p] /\ g_dh'[p] = g_dh[p] /\ claimed'[p] = claimed[p]
      /\ pc'[p] = "identify" /\ scope'[p] = scope[p] /\ failed'[p] = failed[p]
  BY <1>1 DEF Shape
<1>5. Typed(p)'
  BY <1>1, <1>4 DEF Local, Typed, Searching, Closing
<1>6. Place(p)'
  BY <1>1, <1>3, <1>4 DEF Local, Place, Searching, Closing, Holding
<1>7. /\ bound'[Slot(p)] = p
      /\ \A s \in Slots \ {Slot(p)} : bound'[s] = bound[s]
      /\ \A q \in Procs \ {p}, s \in Slots : (bound'[s] = q) <=> (bound[s] = q)
  BY <1>1, UsbAssumption DEF Shape
<1>8. Claims(p)'
  BY <1>1, <1>3, <1>4, <1>7 DEF Local, Claims
<1>9. Others(p)
  BY <1>1, <1>7 DEF Others, Same, Shape
<1>10. Keeps(p)
  BY <1>3, <1>7, UsbAssumption DEF Keeps
<1> QED
  BY <1>1, <1>2, <1>5, <1>6, <1>8, <1>9, <1>10, OneProcess DEF Local

\* What p releases is still in its list.
LEMMA ReleaseStep ==
  ASSUME NEW p \in Procs, UsbInv, Release(p)
  PROVE  UsbInv'
<1> USE NumDevNat DEF Goto, Release
<1>1. Shape /\ Local(p) /\ First(p) \in Slots /\ First(p) \in Recorded(p)
  BY InSlots, WrittenTail DEF UsbInv, Local, Typed, First, Recorded
<1>2. Shape'
  BY <1>1 DEF Shape
<1>3. Recorded(p)' = Recorded(p) /\ First(p)' = First(p)
  BY DEF Recorded, First
<1>4. /\ i'[p] = i[p] /\ k'[p] = k[p] /\ g_dh'[p] = g_dh[p] /\ claimed'[p] = claimed[p]
      /\ pc'[p] = "attach" /\ scope'[p] = scope[p] /\ failed'[p] = failed[p]
  BY <1>1 DEF Shape
<1>5. Typed(p)'
  BY <1>1, <1>4 DEF Local, Typed, Searching, Closing
<1>6. Place(p)'
  BY <1>1, <1>3, <1>4 DEF Local, Place, Searching, Closing, Holding
<1>7. /\ bound'[First(p)] # p
      /\ \A s \in Slots \ {First(p)} : bound'[s] = bound[s]
      /\ \A q \in Procs \ {p}, s \in Slots : (bound'[s] = q) <=> (bound[s] = q)
  BY <1>1, UsbAssumption DEF Shape
<1>8. Claims(p)'
  BY <1>1, <1>3, <1>4, <1>7 DEF Local, Claims
<1>9. Others(p)
  BY <1>1, <1>7 DEF Others, Same, Shape
<1>10. Keeps(p)
  BY <1>1, <1>3, <1>7 DEF Keeps
<1> QED
  BY <1>1, <1>2, <1>5, <1>6, <1>8, <1>9, <1>10, OneProcess DEF Local

\* What p leaves the list with has a driver, or somebody else has it.
LEMMA AttachStep ==
  ASSUME NEW p \in Procs, UsbInv, Attach(p)
  PROVE  UsbInv'
<1> USE NumDevNat DEF Goto, Attach
<1>1. Shape /\ Local(p) /\ claimed[p] # << >> /\ bound[First(p)] # p
      /\ First(p) \in Slots /\ g_dh[p] \in Devices
  BY InSlots DEF UsbInv, Local, Claims
<1>2. Shape'
  BY <1>1 DEF Shape
<1>3. /\ i'[p] = i[p] /\ k'[p] = k[p] /\ g_dh'[p] = g_dh[p]
      /\ claimed'[p] = Tail(claimed[p])
      /\ pc'[p] = "release" /\ scope'[p] = scope[p] /\ failed'[p] = failed[p]
  BY <1>1 DEF Shape
<1>4. /\ claimed'[p] \in Seq(Ifaces) /\ Len(claimed'[p]) <= Len(claimed[p])
      /\ Recorded(p) \subseteq Recorded(p)' \cup {First(p)}
  BY <1>1, <1>3, WrittenTail DEF Local, Typed, Recorded, First
<1>5. Typed(p)'
  <2>1. Len(claimed'[p]) <= SettingsOf(g_dh[p])
    <3>1. Len(claimed'[p]) \in Nat /\ Len(claimed[p]) \in Nat
      BY <1>1, <1>4 DEF Local, Typed
    <3>2. SettingsOf(g_dh[p]) \in Nat
      BY <1>1, DeviceTyped DEF SettingsOf
    <3> QED
      BY <1>1, <1>4, <3>1, <3>2 DEF Local, Typed
  <2> QED
    BY <1>1, <1>3, <1>4, <2>1 DEF Local, Typed, Searching, Closing
<1>6. Place(p)'
  BY <1>1, <1>3 DEF Local, Place, Searching, Closing, Holding
<1>7. /\ bound'[First(p)] # "none"
      /\ \A s \in Slots \ {First(p)} : bound'[s] = bound[s]
      /\ \A q \in Procs, s \in Slots : (bound'[s] = q) <=> (bound[s] = q)
  BY <1>1, UsbAssumption DEF Shape
<1>8. Claims(p)'
  BY <1>1, <1>3, <1>4, <1>7 DEF Local, Claims
<1>9. Others(p)
  BY <1>1, <1>7 DEF Others, Same, Shape
<1>10. Keeps(p)
  BY <1>4, <1>7 DEF Keeps
<1> QED
  BY <1>1, <1>2, <1>5, <1>6, <1>8, <1>9, <1>10, OneProcess DEF Local

LEMMA StutterUsb == ASSUME UsbInv, UNCHANGED vars PROVE UsbInv'
<1> USE DEF vars
<1>1. Shape'
  BY DEF UsbInv, Shape
<1>2. \A q \in Procs : Local(q)' /\ Recorded(q)' = Recorded(q)
  BY SameIsLocal DEF UsbInv, Same
<1>3. DriverGivenBack'
  BY <1>2 DEF UsbInv, DriverGivenBack
<1> QED
  BY <1>1, <1>2, <1>3 DEF UsbInv

-----------------------------------------------------------------------------
LEMMA InvTyped == UsbInv => TypeOK
<1> SUFFICES ASSUME UsbInv PROVE TypeOK
  OBVIOUS
<1>1. Shape /\ \A q \in Procs : Typed(q)
  BY DEF UsbInv, Local
<1> QED
  BY <1>1 DEF Shape, Typed, TypeOK

LEMMA UsbStep == UsbInv /\ [Next]_vars => UsbInv'
<1> SUFFICES ASSUME UsbInv, [Next]_vars PROVE UsbInv'
  OBVIOUS
<1>1. ASSUME NEW p \in Procs, Step(p) PROVE UsbInv'
  BY <1>1, GetDeviceListStep, OpenDeviceStep, EndOfListStep, SkipSettingStep,
     EndOfSettingsStep, TakeSettingStep, DetachDriverStep, ClaimInterfaceStep,
     IdentifyStep, UseEndsStep, ReleaseStep, AttachStep, OneDeviceCloseStep,
     CloseStep
  DEF Step
<1>2. CASE Terminated
  BY <1>2, StutterUsb DEF Terminated
<1>3. CASE UNCHANGED vars
  BY <1>3, StutterUsb
<1> QED
  BY <1>1, <1>2, <1>3, LibusbFailsStep, SerialUnreadStep DEF Next

\* The invariant holds in every state of every run, for any number of processes,
\* printers, settings and failures.
THEOREM UsbInvariance == Spec => []UsbInv
<1> QED
  BY InitUsb, UsbStep, PTL DEF Spec

\* The lists and positions of CNIF_USB_Open and CNIF_USB_Discover keep their
\* ranges; what g_claimed_interface holds is never more than the device has.
THEOREM UsbTyped == Spec => []TypeOK
<1> QED
  BY UsbInvariance, InvTyped, PTL

\* Each close finds in g_claimed_interface whatever its process has claimed.
THEOREM NothingLeftClaimed == Spec => []HeldIsRecorded
<1>1. UsbInv => HeldIsRecorded
  <2> SUFFICES ASSUME UsbInv PROVE HeldIsRecorded
    OBVIOUS
  <2>1. ASSUME NEW p \in Procs, pc[p] \in {"start", "device", "done"}
        PROVE  Recorded(p) = {}
    BY <2>1, WrittenEmpty DEF UsbInv, Local, Place, Recorded
  <2> QED
    BY <2>1 DEF UsbInv, Local, Claims, HeldIsRecorded
<1> QED
  BY <1>1, UsbInvariance, PTL

\* An interface without its kernel driver is in the list of a process that has
\* still to attach it again.
THEOREM DriverComesBack == Spec => []DriverGivenBack
<1>1. UsbInv => DriverGivenBack
  BY DEF UsbInv
<1> QED
  BY <1>1, UsbInvariance, PTL

\* No search by another process takes the interface of a job away.
THEOREM JobKeepsInterface == Spec => []KeepsItsInterface
<1>1. UsbInv => KeepsItsInterface
  BY DEF UsbInv, Local, Claims, KeepsItsInterface
<1> QED
  BY <1>1, UsbInvariance, PTL

=============================================================================

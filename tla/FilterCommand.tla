--------------------------- MODULE FilterCommand ---------------------------
(***************************************************************************)
(* How the settings of a job reach the filters.  rastertocanonij collects  *)
(* what the printer description has marked in a list, makes a command line *)
(* of it for a shell, and tocnpwg and tocanonij read it back, each with    *)
(* getopt_long() and its own table of options.  tocanonij then goes on as  *)
(* CommandFilter has it.                                                   *)
(*                                                                         *)
(* A word is one value; what the shell and getopt_long() make of words is  *)
(* modelled: an empty value leaves no word, an option takes the next word  *)
(* whatever it is, a unique beginning of a name stands for the name, and   *)
(* words that belong to no option are passed by.  pc = "exit" also stands  *)
(* for a tocanonij that was never started.                                 *)
(***************************************************************************)
EXTENDS CommandFilter

CONSTANTS
  Jobs,       \* jobs: choices marked in the printer description, and the UUID
  Ppd,        \* the printer description, as lines of words
  Beginnings, \* pairs: what options of the command line begin which names
  MapTbl,     \* papersizeTbl and the like: what a choice is for the printer
  Borderless  \* the paper sizes with ".bl" in their names

NoValue == ""
Unset   == "-1"

\* A word has a character.  A row of sizes has all its words: atol() is called on
\* each.
ASSUME PpdAssumption ==
  /\ Ppd \in Seq(Seq(STRING)) /\ Ppd # << >>
  /\ \A l \in DOMAIN Ppd :
       /\ \A w \in DOMAIN Ppd[l] : Ppd[l][w] # NoValue
       /\ Ppd[l] # << >> /\ Ppd[l][1] = "*%CNSizeToPrintArea" => Len(Ppd[l]) >= 4

VARIABLES
  asked,       \* the job
  at,          \* how far rastertocanonij and the start of the filters are
  p_list, p_list2,
  toCnpwg, toCanonij,   \* the words on the command line of each
  area,        \* what tocnpwg has read of its words
  Settings, uuid        \* ... and tocanonij

settings == <<asked, at, p_list, p_list2, toCnpwg, toCanonij, area, Settings, uuid>>

CommandInit ==
  /\ Init
  /\ asked \in Jobs /\ at = "settings"
  /\ p_list = << >> /\ p_list2 = << >> /\ toCnpwg = << >> /\ toCanonij = << >>
  /\ area = [width |-> "0", height |-> "0", is_rotate |-> FALSE]
  /\ Settings = [papersize |-> Unset, mediatype |-> Unset, borderlessprint |-> Unset,
                 colormode |-> Unset, duplexprint |-> Unset]
  /\ uuid = NoValue

-----------------------------------------------------------------------------
(***************************************************************************)
(* The tables in the printer description (canonopt.c).  read_line()        *)
(* answers the end of the file also for characters in front of it: the     *)
(* last line counts for nothing, so it had better be empty.  A table is the *)
(* numbers of its lines.                                                   *)
(***************************************************************************)
Rows(name) == {l \in 1 .. Len(Ppd) - 1 : Ppd[l] # << >> /\ Ppd[l][1] = name}

\* A row that lacks its second word is left out.
alloc_opt_key_table == {l \in Rows("*%CNPpdToOptKey") : Len(Ppd[l]) >= 3}

\* ... and so is one with a width or a height of 0.
alloc_size_to_print_area_table ==
  {l \in Rows("*%CNSizeToPrintArea") : Ppd[l][3] # "0" /\ Ppd[l][4] # "0"}

\* The first row of a size counts.  A size that is not in the table leaves 0
\* and 0, and that is no error.
AreaOf(size) ==
  LET rows  == {l \in alloc_size_to_print_area_table : Ppd[l][2] = size}
      first == CHOOSE l \in rows : \A k \in rows : l <= k
  IN IF rows = {} THEN [width |-> "0", height |-> "0"]
     ELSE [width |-> Ppd[first][3], height |-> Ppd[first][4]]

-----------------------------------------------------------------------------
(***************************************************************************)
(* rastertocanonij                                                         *)
(***************************************************************************)
\* param_list_add: in front, and only what is not in the list.
Add(list, key, value) ==
  IF \E e \in DOMAIN list : list[e].key = key
  THEN list ELSE <<[key |-> key, value |-> value]>> \o list

FilterPath == "/usr/lib/cups/filter/"

\* Row after row; a key without a marked choice is left out.
Settled(choices) ==
  LET List[l \in 0 .. Len(Ppd)] ==
        IF l = 0 THEN Add(<< >>, "--filterpath", FilterPath)
        ELSE IF l \in alloc_opt_key_table /\ Ppd[l][2] \in DOMAIN choices
        THEN Add(List[l - 1], Ppd[l][3], choices[Ppd[l][2]])
        ELSE List[l - 1]
  IN List[Len(Ppd)]

NotStarted ==   \* nobody to run the filters
  /\ at \in {"settings", "area", "command"}
  /\ at' = "over" /\ Fail
  /\ UNCHANGED <<job, page, readSize, readBytes, world, dropped, asked, p_list, p_list2,
                 toCnpwg, toCanonij, area, Settings, uuid>>

GetPrinterSettings ==
  /\ at = "settings" /\ at' = "area"
  /\ p_list' = Settled(asked.choices)
  /\ UNCHANGED <<vars, asked, p_list2, toCnpwg, toCanonij, area, Settings, uuid>>

Values(list, key) == {list[e].value : e \in {e \in DOMAIN list : list[e].key = key}}

NoPaperSize ==
  /\ at = "area" /\ Values(p_list, "--papersize") = {}
  /\ at' = "over" /\ Fail
  /\ UNCHANGED <<job, page, readSize, readBytes, world, dropped, asked, p_list, p_list2,
                 toCnpwg, toCanonij, area, Settings, uuid>>

GetPrinterableArea ==
  /\ at = "area" /\ at' = "command"
  /\ \E size \in Values(p_list, "--papersize") :
       p_list2' = Add(Add(<< >>, "--printable_width", AreaOf(size).width),
                      "--printable_height", AreaOf(size).height)
  /\ UNCHANGED <<vars, asked, p_list, toCnpwg, toCanonij, area, Settings, uuid>>

\* "<key> <value>" and so on, as the shell splits it.
Pair(entry) == IF entry.value = NoValue THEN <<entry.key>> ELSE <<entry.key, entry.value>>

Words(list) ==
  LET From[e \in 1 .. Len(list) + 1] ==
        IF e > Len(list) THEN << >> ELSE Pair(list[e]) \o From[e + 1]
  IN From[1]

OfCnpwg_Slip(list, list2) == Words(list)   \* the second list is left out

OfCnpwg(list, list2) == Words(list) \o Words(list2)

\* main() adds the job to the list, so that it comes first.
WithJob(list) == Add(Add(list, "--jobid", asked.jobID), "--uuid", asked.uuid)

MakeExecCommand ==
  /\ at = "command" /\ at' = "tocnpwg"
  /\ p_list' = WithJob(p_list)
  /\ toCnpwg' = OfCnpwg(p_list', p_list2)
  /\ toCanonij' = Words(p_list')
  /\ UNCHANGED <<vars, asked, p_list2, area, Settings, uuid>>

-----------------------------------------------------------------------------
(***************************************************************************)
(* getopt_long() with a table of names, each of which takes a value.       *)
(***************************************************************************)
Stands(word, name) == <<word, name>> \in Beginnings

Options(words, names) ==
  LET Meant(n) == {name \in names : Stands(words[n], name)}
      From[n \in 1 .. Len(words) + 1] ==
        IF n >= Len(words) THEN << >>   \* an option that is last lacks its value
        ELSE IF \E name \in names : Meant(n) = {name}
        THEN <<[name |-> CHOOSE name \in names : Meant(n) = {name},
                optarg |-> words[n + 1]]>> \o From[n + 2]
        ELSE From[n + 1]
  IN From[1]

CnpwgNames == {"version", "printable_width", "printable_height", "duplexprint"}

CanonijNames == {"version", "filterpath", "papersize", "mediatype", "grayscale",
                 "duplexprint", "jobid", "uuid"}

isRotate(option) == option = "DuplexNoTumble"

Measure(a, o) ==
  CASE o.name = "printable_width"  -> [a EXCEPT !.width = o.optarg]
    [] o.name = "printable_height" -> [a EXCEPT !.height = o.optarg]
    [] o.name = "duplexprint"      -> [a EXCEPT !.is_rotate = isRotate(o.optarg)]
    [] OTHER -> a

Measured(first, options) ==
  LET After[n \in 0 .. Len(options)] ==
        IF n = 0 THEN first ELSE Measure(After[n - 1], options[n])
  IN After[Len(options)]

TocnpwgOptions ==
  /\ at = "tocnpwg" /\ at' = "tocanonij"
  /\ area' = Measured(area, Options(toCnpwg, CnpwgNames))
  /\ UNCHANGED <<vars, asked, p_list, p_list2, toCnpwg, toCanonij, Settings, uuid>>

ConvertStrToID(str) == IF str \in DOMAIN MapTbl THEN MapTbl[str] ELSE Unset

IsBorderless(str) == IF str \in Borderless THEN "on" ELSE "off"

Set(s, o) ==
  CASE o.name = "papersize"   -> [s EXCEPT !.papersize = ConvertStrToID(o.optarg),
                                           !.borderlessprint = IsBorderless(o.optarg)]
    [] o.name = "mediatype"   -> [s EXCEPT !.mediatype = ConvertStrToID(o.optarg)]
    [] o.name = "grayscale"   -> [s EXCEPT !.colormode = ConvertStrToID(o.optarg)]
    [] o.name = "duplexprint" -> [s EXCEPT !.duplexprint = ConvertStrToID(o.optarg)]
    [] OTHER -> s

JobNumber_Slip(u, o) ==   \* the job ID always counts
  IF o.name \in {"uuid", "jobid"} THEN o.optarg ELSE u

JobNumber(u, o) ==
  IF o.name = "uuid" \/ (o.name = "jobid" /\ u = NoValue) THEN o.optarg ELSE u

Handle(h, o) == [settings |-> Set(h.settings, o), uuid |-> JobNumber(h.uuid, o)]

Handled(first, options) ==
  LET After[n \in 0 .. Len(options)] ==
        IF n = 0 THEN first ELSE Handle(After[n - 1], options[n])
  IN After[Len(options)]

CheckSettings(s) == \A f \in DOMAIN s : s[f] # Unset

TocanonijOptions ==
  /\ at = "tocanonij"
  /\ LET last == Handled([settings |-> Settings, uuid |-> uuid],
                         Options(toCanonij, CanonijNames))
     IN Settings' = last.settings /\ uuid' = last.uuid
  /\ IF CheckSettings(Settings')
     THEN at' = "run" /\ UNCHANGED <<pc, result, wire>>
     ELSE at' = "over" /\ Fail
  /\ UNCHANGED <<job, page, readSize, readBytes, world, dropped, asked, p_list, p_list2,
                 toCnpwg, toCanonij, area>>

-----------------------------------------------------------------------------
(***************************************************************************)
(* What the words are, as far as the filters' reading of them goes.        *)
(***************************************************************************)
Named(word) == \E name \in CnpwgNames \cup CanonijNames : Stands(word, name)

\* The option that a choice of the printer description is for.
Choice == [papersize |-> "PageSize", mediatype |-> "MediaType",
           grayscale |-> "CNGrayscale", duplexprint |-> "Duplex"]

\* An option that rastertocanonij writes itself has one name and no other begins
\* with it.  A key of the printer description belongs to its choice: in each of
\* src/ppd the four rows are PageSize --papersize, MediaType --media,
\* CNGrayscale --grayscale and Duplex --duplex.
ASSUME KeyAssumption ==
  /\ \A own \in {<<"--filterpath", "filterpath">>, <<"--papersize", "papersize">>,
                 <<"--jobid", "jobid">>, <<"--uuid", "uuid">>,
                 <<"--printable_width", "printable_width">>,
                 <<"--printable_height", "printable_height">>} :
       \A name \in CnpwgNames \cup CanonijNames : Stands(own[1], name) <=> name = own[2]
  /\ \A l \in alloc_opt_key_table, name \in CnpwgNames \cup CanonijNames :
       Stands(Ppd[l][3], name) => name \in DOMAIN Choice /\ Ppd[l][2] = Choice[name]

\* getopt_long() takes a word for an option when it begins with "--": no number,
\* path, choice, job or UUID does.  A choice has a name.
ASSUME ValueAssumption ==
  /\ ~Named("0") /\ ~Named(FilterPath)
  /\ \A l \in alloc_size_to_print_area_table : ~Named(Ppd[l][3]) /\ ~Named(Ppd[l][4])
  /\ \A j \in Jobs :
       /\ ~Named(j.jobID) /\ ~Named(j.uuid)
       /\ \A c \in DOMAIN j.choices : j.choices[c] # NoValue /\ ~Named(j.choices[c])

\* duplexprintTbl
ASSUME DuplexAssumption ==
  "DuplexNoTumble" \in DOMAIN MapTbl => MapTbl["DuplexNoTumble"] = "DUPLEX_ON"

-----------------------------------------------------------------------------
Starting == \/ GetPrinterSettings \/ GetPrinterableArea \/ NoPaperSize \/ MakeExecCommand
            \/ TocnpwgOptions \/ TocanonijOptions

commandVars == <<vars, settings>>

Running == at \in {"run", "over"} /\ Next /\ UNCHANGED settings

CommandNext == Starting \/ NotStarted \/ Running

CommandSpec == CommandInit /\ [][CommandNext]_commandVars

\* As in CommandFilter, and the programs in front run.
FairCommandSpec ==
  /\ CommandSpec
  /\ WF_commandVars(Starting)
  /\ WF_commandVars(at = "run" /\ Working /\ UNCHANGED settings)

-----------------------------------------------------------------------------
\* The printer is only sent anything with the settings the job has, each behind
\* its own name, and under the job's UUID, whatever keys and names the printer
\* description and the filters use for them.  (A job without a UUID goes under
\* "--jobid": its empty value is no word, see Words.)
JobOpensAsAsked ==
  wire # Sent("opening", 0, 0) =>
    /\ Settings = [papersize       |-> MapTbl[asked.choices["PageSize"]],
                   borderlessprint |-> IsBorderless(asked.choices["PageSize"]),
                   mediatype       |-> MapTbl[asked.choices["MediaType"]],
                   colormode       |-> MapTbl[asked.choices["CNGrayscale"]],
                   duplexprint     |-> MapTbl[asked.choices["Duplex"]]]
    /\ asked.uuid # NoValue => uuid = asked.uuid

\* The two filters work on the same job: a page of tocnpwg that tocanonij reads
\* has the area of the paper the printer is set to, and is turned only when the
\* printer is set to print on both sides.
FiltersAgree ==
  page > 0 =>
    /\ [width |-> area.width, height |-> area.height] = AreaOf(asked.choices["PageSize"])
    /\ Settings.papersize = MapTbl[asked.choices["PageSize"]]
    /\ area.is_rotate => Settings.duplexprint = "DUPLEX_ON"

=============================================================================

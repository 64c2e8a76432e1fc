------------------------------ MODULE Programs ------------------------------
(***************************************************************************)
(* The programs as clients of the library: mkfs, tunefs, resizefs, cpfs    *)
(* and fsck (progsreiserfs), and the demos ls, cat, lookup and traverse,   *)
(* from their command line to their exit code, with what they say on the   *)
(* way (Messages).  A call into the library is one step that succeeds or   *)
(* fails; what it does inside is the matter of the other modules.          *)
(*                                                                         *)
(* The programs differ in what they leave open when they give up, as their *)
(* labels do: Abandon names what is closed.                                *)
(***************************************************************************)
EXTENDS Messages, FiniteSets

CONSTANTS
  CommandLines,   \* [prog, options, rest]: options are pairs, rest arguments
  Devices,        \* the names that stat() finds; "host" is one of them
  Special,        \* those of them that are block devices
  Blocks,         \* length of each device, in the blocks it is opened with
  Before,         \* what is on "host": [dev, start, len, state, format, size, bs, unit]
  Recommended,    \* the format the running kernel is for
  HostStart, MaxHostLen, JournalMin, DefaultLen, MinSize

Bad == -1         \* a number that cannot be parsed
DefaultBlockSize == 4096
Changers == {"mkfs", "tunefs", "resizefs", "cpfs"}
Demos == {"ls", "cat", "lookup", "traverse"}

ASSUME CommandLinesAssumption ==
  \A c \in CommandLines :
    DOMAIN c = {"prog", "options", "rest"} /\ c.prog \in Changers \cup Demos \cup {"fsck"}
ASSUME DevicesAssumption == "host" \in Devices /\ "" \notin Devices
ASSUME BeforeAssumption ==
  \A f \in Before :
    DOMAIN f = {"dev", "start", "len", "state", "format", "size", "bs", "unit"}

VARIABLES
  cmd,      \* the command line
  opt,      \* what was parsed of it
  pc,
  open,     \* the roles of the opened devices: host, journal, new, dst
  handles,  \* the open filesystems: fs, copy
  lib,      \* the state of messages and gauge
  fsys,     \* the filesystem that the super block of the device "host" tells
            \* of, its journal's place and both block sizes: bs is the one it
            \* says, unit the one its journal was written with
  prompts,  \* questions asked in vain
  exit,     \* the exit code, -1 before
  hist      \* history: the filesystem before, the answer, what became of
            \* the work and its phases, the devices written, a failed sync

vars == <<cmd, opt, pc, open, handles, lib, fsys, prompts, exit, hist>>

Prog == cmd.prog

Options ==
  [journal |-> "", new |-> "", len |-> 0, start |-> 0, max |-> 0, blocksize |-> DefaultBlockSize,
   hash |-> "ok", uuid |-> "", format |-> Recommended, label |-> FALSE, quiet |-> FALSE,
   force |-> FALSE, nojournal |-> FALSE,
   host |-> "", dst |-> "", size |-> 0, begin |-> 0, relative |-> FALSE]

Init ==
  /\ cmd \in CommandLines /\ fsys \in Before
  /\ opt = Options /\ pc = "parse"
  /\ open = {} /\ handles = {} /\ lib = Silence /\ prompts = 0 /\ exit = -1
  /\ hist = [before |-> fsys, answer |-> "none", work |-> "none", wrote |-> {},
             phase |-> 0, unsynced |-> FALSE]

-----------------------------------------------------------------------------
(* Leaving.                                                                *)
Exit(code) == pc' = "exited" /\ exit' = code

(* reiserfs_fs_close answers nothing; when its sync fails it says so.      *)
Closing(m) == {m, Throw(m, "cancel")}

(* The way out through a label: what it names is closed, the rest is left. *)
Abandon(m, closed, code) ==
  /\ lib' \in IF handles \cap closed = {} THEN {m} ELSE Closing(m)
  /\ open' = open \ closed /\ handles' = handles \ closed
  /\ Exit(code)

Message(options) == Throw(lib, options)

-----------------------------------------------------------------------------
(* The command line.                                                       *)
Known ==
  CASE Prog = "mkfs" -> {"blocksize", "format", "hash", "journal", "len", "start", "max",
                         "uuid", "label", "quiet"}
    [] Prog = "tunefs" -> {"nojournal", "journal", "new", "len", "start", "max", "uuid",
                           "label", "quiet"}
    [] Prog = "resizefs" -> {"nojournal", "quiet", "force", "journal"}
    [] Prog = "cpfs" -> {"journal", "nojournal", "quiet"}
    [] Prog = "fsck" -> {"journal", "nojournal"}
    [] OTHER -> {}

(* progs_dev_check, progs_strtol, and the checks of the other options.     *)
DevCheck(name) == name \in Devices
Strtol(value) == value # Bad
Valid(name, value) ==
  /\ name \in {"journal", "new"} => DevCheck(value)
  /\ name \in {"len", "start", "max"} => Strtol(value)
  /\ name = "blocksize" => value # Bad
  /\ name \in {"hash", "uuid", "format"} => value # "bad"

(* mkfs_format warns of a format the running kernel is not for.            *)
FormatWarned(m, format) == IF format = Recommended THEN m ELSE Throw(m, "ignore")

Warned(m, name) == IF name \in Special THEN m ELSE Throw(m, "ignore")

(* One option.  resizefs takes a device that is not there for success.     *)
ParseOption ==
  /\ pc = "parse" /\ cmd.options # <<>>
  /\ LET name == Head(cmd.options)[1]
         value == Head(cmd.options)[2]
     IN  \/ /\ name \in {"usage", "version"}
            /\ Exit(0) /\ UNCHANGED <<cmd, opt, lib>>
         \/ /\ name \notin Known \cup {"usage", "version"}
            /\ Exit(254) /\ UNCHANGED <<cmd, opt, lib>>
         \/ /\ name \in Known /\ ~Valid(name, value)
            /\ lib' = Message("cancel")
            /\ Exit(IF Prog = "resizefs" THEN 0 ELSE 254)
            /\ UNCHANGED <<cmd, opt>>
         \/ /\ name \in Known /\ Valid(name, value)
            /\ opt' = [opt EXCEPT ![name] = value]
            /\ cmd' = [cmd EXCEPT !.options = Tail(@)]
            /\ lib' = IF name \in {"journal", "new"} THEN Warned(lib, value)
                      ELSE IF name = "format" THEN FormatWarned(lib, value)
                      ELSE lib
            /\ UNCHANGED <<pc, exit>>
  /\ UNCHANGED <<open, handles, fsys, prompts, hist>>

Rest == cmd.rest
Least == CASE Prog = "cpfs" -> 2 [] Prog \in {"ls", "cat"} -> 2
           [] Prog = "lookup" -> 3 [] OTHER -> 1
LastArg == Rest[Len(Rest)]

(* What stands before the last argument, the name of the program at worst. *)
ArgBefore ==
  IF Len(Rest) > 1 THEN Rest[Len(Rest) - 1] ELSE [dev |-> Prog, size |-> Bad, relative |-> FALSE]

(* Asked while messages are fetched: the warning stays until the next.     *)
Fetched(m, name) ==
  IF name \in Special \/ ~DevCheck(name) THEN m ELSE LeaveAll(Throw(FetchAll(m), "ignore"))

(* progs_digit_parse: a number and a unit, not a name.  The number of      *)
(* bytes is divided as an unsigned one of 64 bits, so what is negative     *)
(* comes out as more blocks than any device has.                           *)
Huge == 1000000
DigitCheck(arg) == arg.dev = "" /\ Strtol(arg.size)
Parsed(n) == IF n < 0 THEN Huge + n ELSE n

Arguments ==
  /\ pc = "parse" /\ cmd.options = <<>>
  /\ UNCHANGED <<cmd, open, handles, fsys, prompts, hist>>
  /\ \/ /\ Len(Rest) < Least
        /\ Exit(IF Prog \in Demos THEN 255 ELSE 254) /\ UNCHANGED <<opt, lib>>
     \/ /\ Len(Rest) >= Least /\ Prog \in {"tunefs", "fsck", "cpfs"} \cup Demos
        /\ opt' = [opt EXCEPT !.host = Rest[1].dev,
                              !.dst = IF Prog = "cpfs" THEN Rest[2].dev ELSE ""]
        /\ pc' = IF Prog \in Demos THEN "host" ELSE "devices"
        /\ UNCHANGED <<lib, exit>>
     \/ /\ Len(Rest) >= Least /\ Prog = "mkfs"
        /\ LET swapped == Len(Rest) > 1 /\ ~DevCheck(Rest[1].dev)
               size == IF swapped THEN Rest[1] ELSE LastArg
               asked == IF Len(Rest) > 1 THEN Fetched(lib, Rest[1].dev) ELSE lib
           IN  IF Len(Rest) > 1 /\ ~DigitCheck(size)
               THEN lib' = Throw(asked, "cancel") /\ Exit(254) /\ UNCHANGED opt
               ELSE /\ opt' = [opt EXCEPT !.host = IF swapped THEN Rest[2].dev ELSE Rest[1].dev,
                                          !.size = IF Len(Rest) > 1 THEN Parsed(size.size) ELSE 0]
                    /\ lib' = asked /\ pc' = "devices" /\ UNCHANGED exit
     \/ /\ Len(Rest) >= Least /\ Prog = "resizefs"
        /\ LET first == ArgBefore
           IN  \/ /\ ~DigitCheck(LastArg)
                  /\ Exit(254) /\ UNCHANGED <<opt, lib>>
               \/ /\ DigitCheck(LastArg) /\ ~DigitCheck(first) /\ ~DevCheck(first.dev)
                  /\ lib' = Message("cancel") /\ Exit(254) /\ UNCHANGED opt
               \/ /\ DigitCheck(LastArg) /\ (DigitCheck(first) \/ DevCheck(first.dev))
                  /\ opt' = [opt EXCEPT
                       !.host = IF ~DigitCheck(first) THEN first.dev
                                ELSE IF Len(Rest) > 2 THEN Rest[Len(Rest) - 2].dev ELSE Prog,
                       !.begin = IF DigitCheck(first) THEN Parsed(first.size) ELSE 0,
                       !.size = Parsed(LastArg.size), !.relative = LastArg.relative]
                  /\ lib' = IF DigitCheck(first) THEN lib ELSE Fetched(lib, first.dev)
                  /\ pc' = "devices" /\ UNCHANGED exit

(* The devices are looked at; a copy onto itself is refused.               *)
CheckDevices ==
  /\ pc = "devices"
  /\ LET checked == IF Prog = "cpfs" THEN <<opt.host, opt.dst>> ELSE <<opt.host>>
     IN  IF (Prog = "cpfs" /\ opt.host = opt.dst) \/ ~DevCheck(opt.host)
         THEN lib' = Message("cancel") /\ Exit(254)
         ELSE IF \E i \in DOMAIN checked : ~DevCheck(checked[i])
         THEN lib' = Throw(Warned(lib, opt.host), "cancel") /\ Exit(254)
         ELSE /\ lib' = IF Prog = "cpfs" THEN Warned(Warned(lib, opt.host), opt.dst)
                        ELSE Warned(lib, opt.host)
              /\ pc' = "host" /\ UNCHANGED exit
  /\ UNCHANGED <<cmd, opt, open, handles, fsys, prompts, hist>>

-----------------------------------------------------------------------------
(* Opening the devices.                                                    *)
OpenHost ==
  /\ pc = "host"
  /\ \/ /\ Abandon(Message("cancel"), {},
             IF Prog \in {"fsck", "ls", "cat", "traverse"} THEN 254 ELSE 255)
     \/ /\ open' = {"host"}
        /\ pc' = IF Prog = "lookup" THEN "numbers" ELSE IF Prog \in Demos THEN "fs" ELSE "journal"
        /\ UNCHANGED <<handles, lib, exit>>
  /\ UNCHANGED <<cmd, opt, fsys, prompts, hist>>

(* lookup takes a number it cannot parse for 0, and refuses equal ids.     *)
Numbers ==
  /\ pc = "numbers"
  /\ LET Id(arg) == IF Strtol(arg.size) THEN arg.size ELSE 0
     IN  IF Id(Rest[2]) = Id(Rest[3])
         THEN Abandon(Message("cancel"), {"host"}, 255)
         ELSE pc' = "fs" /\ UNCHANGED <<open, handles, lib, exit>>
  /\ UNCHANGED <<cmd, opt, fsys, prompts, hist>>

AfterJournal == CASE Prog = "mkfs" -> "sizes" [] Prog = "tunefs" -> "new" [] OTHER -> "fs"

(* A journal device that is the host stands for no device of its own.      *)
OpenJournal ==
  /\ pc = "journal"
  /\ \/ /\ opt.journal \in {"", opt.host}
        /\ ~(Prog = "cpfs" /\ opt.journal = opt.dst)
        /\ pc' = AfterJournal /\ UNCHANGED <<open, handles, lib, exit>>
     \/ /\ Prog = "cpfs" /\ opt.journal = opt.dst
        /\ Abandon(Message("cancel"), {}, 255)
     \/ /\ opt.journal \notin {"", opt.host} /\ ~(Prog = "cpfs" /\ opt.journal = opt.dst)
        /\ \/ /\ open' = open \cup {"journal"}
              /\ pc' = AfterJournal /\ UNCHANGED <<handles, lib, exit>>
           \/ IF Prog = "fsck" THEN Abandon(Message("cancel"), {}, 254)
              ELSE Abandon(Message("cancel"), {"host"}, 255)
  /\ UNCHANGED <<cmd, opt, fsys, prompts, hist>>

(* tunefs: a new device equal to the old one or to the host is none.  It   *)
(* is opened with the block size the host has before its filesystem is     *)
(* known, which nothing changes later.                                     *)
OpenNew ==
  /\ pc = "new"
  /\ \/ /\ opt.new \in {"", opt.journal, opt.host}
        /\ pc' = "fs" /\ UNCHANGED <<open, handles, lib, exit>>
     \/ /\ opt.new \notin {"", opt.journal, opt.host}
        /\ \/ /\ open' = open \cup {"new"}
              /\ pc' = "fs" /\ UNCHANGED <<handles, lib, exit>>
           \/ Abandon(Message("cancel"), {"journal", "host"}, 255)
  /\ UNCHANGED <<cmd, opt, fsys, prompts, hist>>

(* mkfs: what was asked for against the devices.                           *)
Sizes ==
  /\ pc = "sizes"
  /\ LET size == IF opt.size = 0 THEN Blocks[opt.host] ELSE opt.size
         apart == "journal" \in open
         start == IF apart THEN opt.start ELSE 0
         len == IF opt.len # 0 THEN opt.len
                ELSE IF apart THEN Blocks[opt.journal] - start - 1 ELSE DefaultLen
         warned == IF ~apart /\ opt.start > 0 THEN Message("ignore") ELSE lib
     IN  \/ /\ size > Blocks[opt.host]
            /\ Abandon(Message("cancel"), {"host"}, 255) /\ UNCHANGED opt
         \/ /\ size <= Blocks[opt.host]
            /\ \/ apart /\ start + len + 1 > Blocks[opt.journal]
               \/ (opt.label \/ opt.uuid # "") /\ opt.format = "3.5"
            /\ Abandon(Throw(warned, "cancel"), {"journal", "host"}, 255) /\ UNCHANGED opt
         \/ /\ size <= Blocks[opt.host]
            /\ ~(apart /\ start + len + 1 > Blocks[opt.journal])
            /\ ~((opt.label \/ opt.uuid # "") /\ opt.format = "3.5")
            /\ opt' = [opt EXCEPT !.size = size, !.start = start, !.len = len]
            /\ lib' = warned
            /\ pc' = "ask" /\ UNCHANGED <<open, handles, exit>>
  /\ UNCHANGED <<cmd, fsys, prompts, hist>>

-----------------------------------------------------------------------------
(* Opening the filesystem.  The demos pass the host for the journal and    *)
(* open without the bitmap.                                                *)
JournalPassed ==
  IF Prog \in Demos THEN "host"
  ELSE IF opt.nojournal THEN ""
  ELSE IF "journal" \in open THEN opt.journal ELSE "host"
Relocated == fsys.dev # "host"
Opens ==
  /\ opt.host = "host" /\ fsys.state # "none"
  /\ JournalPassed # "" => (JournalPassed # "host") = Relocated
  /\ Prog \in {"tunefs", "resizefs"} => fsys.state = "clean"

AfterFs ==
  CASE Prog \in {"tunefs", "resizefs"} -> "judge" [] Prog = "cpfs" -> "dst"
    [] Prog = "fsck" -> "work" [] Prog = "traverse" -> "gauge" [] OTHER -> "object"

OpenFs ==
  /\ pc = "fs"
  /\ \/ /\ Opens
        /\ handles' = {"fs"} /\ pc' = AfterFs /\ UNCHANGED <<open, lib, exit>>
     \/ Abandon(IF Prog = "fsck" THEN Message("cancel") ELSE Throw(Message("cancel"), "cancel"),
                IF Prog = "cpfs" THEN {"host"} ELSE {"journal", "host"}, 255)
  /\ UNCHANGED <<cmd, opt, fsys, prompts, hist>>

OldRelocated == opt.journal \notin {"", opt.host}
NewRelocated == opt.new \notin {"", opt.host}
NeedTuning == Relocated # NewRelocated \/ opt.max # 0 \/ opt.start # 0 \/ opt.len # 0

(* tunefs gives up without closing the filesystem.                         *)
JudgeTune ==
  /\ pc = "judge" /\ Prog = "tunefs"
  /\ IF OldRelocated # Relocated \/ (~NeedTuning /\ ~opt.label /\ opt.uuid = "")
     THEN Abandon(Message("cancel"), {"journal", "host"}, 255)
     ELSE pc' = "ask" /\ UNCHANGED <<open, handles, lib, exit>>
  /\ UNCHANGED <<cmd, opt, fsys, prompts, hist>>

JudgeResize ==
  /\ pc = "judge" /\ Prog = "resizefs"
  /\ LET asked == opt.size + (IF opt.relative THEN fsys.size ELSE 0)
         within == IF ~opt.force THEN asked
                   ELSE IF asked > Blocks[opt.host] THEN Blocks[opt.host]
                   ELSE IF asked < MinSize THEN MinSize ELSE asked
     IN  IF opt.begin < 0 \/ asked < 0 \/ within > Blocks[opt.host]
         THEN Abandon(Message("cancel"), {"fs", "journal", "host"}, 255) /\ UNCHANGED opt
         ELSE /\ opt' = [opt EXCEPT !.size = within, !.relative = FALSE]
              /\ pc' = "ask" /\ UNCHANGED <<open, handles, lib, exit>>
  /\ UNCHANGED <<cmd, fsys, prompts, hist>>

OpenDestination ==
  /\ pc = "dst"
  /\ \/ open' = open \cup {"dst"} /\ pc' = "ask" /\ UNCHANGED <<handles, lib, exit>>
     \/ Abandon(Message("cancel"), {"fs", "journal", "host"}, 255)
  /\ UNCHANGED <<cmd, opt, fsys, prompts, hist>>

-----------------------------------------------------------------------------
(* The question (progs_choose): three times at most.                       *)
WhenRefused ==
  CASE Prog = "mkfs" -> {"journal", "host"}
    [] Prog = "tunefs" -> {"journal", "host"}
    [] Prog = "resizefs" -> {"fs", "journal", "host"}
    [] OTHER -> {"dst", "fs", "journal", "host"}

(* Slip: the count of answers that are none of the letters starts over.    *)
AskedAnew == IF prompts = 2 THEN 0 ELSE prompts + 1

Asked == prompts + 1

(* Slip: to have given no answer is not taken for a no.                    *)
RefusesOnlyNo(answer) == answer = "n"

Refuses(answer) == answer \in {"n", "none"}

AfterAsk == IF Prog = "tunefs" THEN "prepare" ELSE "gauge"

Ask ==
  /\ pc = "ask"
  /\ \/ /\ opt.quiet \/ prompts = 3
        /\ LET answer == IF opt.quiet THEN "y" ELSE "none"
           IN  /\ hist' = [hist EXCEPT !.answer = answer]
               /\ IF Refuses(answer) THEN Abandon(lib, WhenRefused, 255)
                  ELSE pc' = AfterAsk /\ UNCHANGED <<open, handles, lib, exit>>
        /\ UNCHANGED prompts
     \/ /\ ~opt.quiet /\ prompts < 3
        /\ \E answer \in {"y", "n", "other"} :
             IF answer = "other"
             THEN prompts' = Asked /\ UNCHANGED <<hist, pc, open, handles, lib, exit>>
             ELSE /\ hist' = [hist EXCEPT !.answer = answer] /\ UNCHANGED prompts
                  /\ IF Refuses(answer) THEN Abandon(lib, WhenRefused, 255)
                     ELSE pc' = AfterAsk /\ UNCHANGED <<open, handles, lib, exit>>
  /\ UNCHANGED <<cmd, opt, fsys>>

-----------------------------------------------------------------------------
(* reiserfs_journal_max_len: a start past the end wraps around to a length *)
(* nothing exceeds.                                                        *)
MaxLen(dev, start) ==
  IF dev = "host" THEN MaxHostLen - start
  ELSE IF start < Blocks[dev] THEN Blocks[dev] - start - 1 ELSE Huge

(* reiserfs_journal_params_check.                                          *)
ParamsCheck(dev, start, len) ==
  /\ dev = "host" => start \in {0, HostStart}
  /\ len <= MaxLen(dev, start) /\ (len = 0 \/ len >= JournalMin)

(* The device the journal is to be on, and what tunefs asks for there.     *)
Target == IF "new" \in open THEN opt.new ELSE "host"

Prepare ==
  /\ pc = "prepare"
  /\ LET start == IF Target = "host" /\ opt.start = 0 THEN fsys.start ELSE opt.start
         len == IF opt.len # 0 THEN opt.len
                ELSE IF Target = "host" THEN DefaultLen ELSE MaxLen(Target, start)
         fits == IF Target = "host" /\ len > MaxLen("host", start)
                 THEN MaxLen("host", start) ELSE len
     IN  opt' = [opt EXCEPT !.start = start, !.len = fits]
  /\ pc' = IF NeedTuning THEN "gauge" ELSE "label"
  /\ UNCHANGED <<cmd, open, handles, lib, fsys, prompts, exit, hist>>

(* libreiserfs_gauge_create finds no memory, or none for the message about *)
(* that either, or the gauge is installed.  What is closed without it.     *)
Held ==
  CASE Prog = "mkfs" -> {"journal", "host"}
    [] Prog = "traverse" -> {"host"}
    [] OTHER -> {"fs", "new", "dst", "journal", "host"}

Down(m) == SetGauge(GaugeFree(m), FALSE)

GaugeUp(name, next, held) ==
  /\ \/ /\ lib' = SetGauge(GaugeCreate(lib, name), TRUE)
        /\ pc' = next /\ UNCHANGED <<open, handles, exit>>
     \/ \E m \in OutOfMemory(lib) : Abandon(m, held, 255)
     \/ pc' = "crashed" /\ UNCHANGED <<open, handles, lib, exit>>
  /\ UNCHANGED <<cmd, opt, fsys, prompts, hist>>

StartGauge ==
  /\ pc = "gauge"
  /\ GaugeUp(IF Prog = "traverse" THEN "traversing" ELSE "", "work", Held)

-----------------------------------------------------------------------------
(* The work.  A call of the library goes through its phases; it ends well, *)
(* or says why not in one of them, and the program says so again.          *)
Phases ==
  CASE Prog = "mkfs" -> <<"initializing skiped area", "initializing journal">>
    [] Prog = "tunefs" /\ Relocated /\ Target = "host"
         -> <<"relocating occupied area", "initializing journal">>
    [] Prog = "tunefs" -> <<"initializing journal">>
    [] Prog = "resizefs" /\ opt.begin # 0 -> <<"shrinking", "relocating metadata">>
    [] Prog = "resizefs" /\ opt.size < fsys.size -> <<"shrinking">>
    [] Prog = "cpfs"
         -> <<"initializing skiped area", "initializing journal", "copying">>
    [] OTHER -> <<>>

(* One more of them is through.                                            *)
Progress ==
  /\ hist.phase < Len(Phases)
  /\ \E m \in {PhaseStarts(lib, Phases[hist.phase + 1])} : lib' = PhaseEnds(m)
  /\ hist' = [hist EXCEPT !.phase = @ + 1]
  /\ UNCHANGED <<pc, open, handles, fsys, exit>>

Worked(result, wrote, new) ==
  /\ hist.phase = Len(Phases)
  /\ hist' = [hist EXCEPT !.work = "ok", !.wrote = wrote] /\ fsys' = result
  /\ lib' = Down(lib) /\ handles' = handles \cup new
  /\ pc' = CASE Prog = "tunefs" -> "label" [] Prog = "cpfs" -> "syncing" [] OTHER -> "close"
  /\ UNCHANGED <<open, exit>>

(* The states a failure, in a phase or after them, leaves the filesystem in.*)
Spoiled(states, wrote) ==
  /\ hist' = [hist EXCEPT !.work = "failed", !.wrote = wrote]
  /\ \E state \in states : fsys' = [fsys EXCEPT !.state = state]
  /\ \E m \in {IF hist.phase = Len(Phases) THEN lib
               ELSE PhaseStarts(lib, Phases[hist.phase + 1])} :
       \E told \in {Throw(m, "cancel")} :
         \E down \in {Down(Throw(told, "cancel"))} : Abandon(down, Held, 255)

Refused == hist.phase = 0 /\ Spoiled({fsys.state}, {})

(* reiserfs_fs_create.  The journal's length is looked at when the area    *)
(* before the super block is cleared.                                      *)
MayCreate ==
  IF "journal" \in open THEN ParamsCheck(opt.journal, opt.start, opt.len)
  ELSE ParamsCheck("host", HostStart, opt.len)

Create ==
  /\ Prog = "mkfs"
  /\ LET dev == IF "journal" \in open THEN opt.journal ELSE "host"
         wrote == {opt.host} \cup (IF "journal" \in open THEN {opt.journal} ELSE {})
         made == [dev |-> dev, start |-> IF dev = "host" THEN HostStart ELSE opt.start,
                  len |-> opt.len, state |-> "clean", format |-> opt.format, size |-> opt.size,
                  bs |-> opt.blocksize, unit |-> opt.blocksize]
         over == IF "host" \in wrote THEN {fsys.state, "ruined"} ELSE {fsys.state}
     IN  \/ (hist.phase = 0 \/ MayCreate) /\ Progress
         \/ /\ MayCreate
            /\ Worked(IF opt.host = "host" THEN made
                      ELSE IF "host" \in wrote THEN [fsys EXCEPT !.state = "ruined"]
                      ELSE fsys, wrote, {"fs"})
         \/ Spoiled(over, wrote)
         \/ Refused

(* The journal comes back to the host, with the filesystem's block size.   *)
TunedHome ==
  IF Relocated THEN [fsys EXCEPT !.dev = "host", !.start = HostStart, !.unit = fsys.bs] ELSE fsys

TunedAway ==
  [fsys EXCEPT !.dev = Target, !.start = opt.start, !.len = opt.len, !.unit = DefaultBlockSize]

(* Slip: a journal that is to have the boundaries it has is not moved.     *)
TunedSame ==
  IF Target = "host" THEN TunedHome
  ELSE IF opt.start = fsys.start /\ opt.len = fsys.len THEN fsys ELSE TunedAway

(* reiserfs_fs_journal_tune with the two switches.  A relocated journal    *)
(* with the boundaries it has stays where it is; any other is written in   *)
(* blocks of the size its new device was opened with.                      *)
Tuned ==
  IF Target = "host" THEN TunedHome
  ELSE IF Relocated /\ opt.start = fsys.start /\ opt.len = fsys.len THEN fsys ELSE TunedAway

MayTune ==
  /\ JournalPassed # ""
  /\ ParamsCheck(Target, opt.start, opt.len)
  /\ Target = "host" /\ ~Relocated => opt.start = fsys.start

Tune ==
  /\ Prog = "tunefs"
  /\ \/ /\ MayTune /\ (Target # "host" => opt.start + opt.len < Blocks[Target])
        /\ Progress \/ Worked(Tuned, {"host", Target}, {})
     \/ MayTune /\ Spoiled({"marked"}, {"host", Target})
     \/ Refused

(* Slip: the mark stays on.                                                *)
ResizedMarked == [fsys EXCEPT !.size = opt.size - opt.begin, !.state = "marked"]

(* reiserfs_fs_resize_dumb and _smart.  The second puts the super block    *)
(* that says "consistent" further on, where the filesystem is to begin:    *)
(* the one in its old place keeps the mark it got first.                   *)
Resized ==
  IF opt.begin = 0 THEN [fsys EXCEPT !.size = opt.size - opt.begin]
  ELSE [fsys EXCEPT !.state = "marked"]

Resize ==
  /\ Prog = "resizefs"
  /\ \/ /\ opt.size >= opt.begin /\ (opt.begin = 0 => opt.size # fsys.size)
        /\ Progress \/ Worked(Resized, {"host"}, {}) \/ Spoiled({"marked"}, {"host"})
     \/ Refused

(* reiserfs_fs_copy only reads where it copies from, which is consistent.  *)
Copy ==
  /\ Prog = "cpfs"
  /\ \/ /\ fsys.state = "clean"
        /\ Progress \/ Worked(fsys, {opt.dst}, {"copy"}) \/ Spoiled({fsys.state}, {opt.dst})
     \/ Refused

(* fsck says that it can do nothing yet.                                   *)
Fsck ==
  /\ Prog = "fsck"
  /\ lib' = Message("ignore") /\ pc' = "close"
  /\ UNCHANGED <<open, handles, fsys, exit, hist>>

(* traverse, whose gauge is finished as done whatever came of it.          *)
Traverse ==
  /\ Prog = "traverse"
  /\ \E work \in {"ok", "failed", "silent"} :
       /\ hist' = [hist EXCEPT !.work = work]
       /\ lib' = GaugeFinish(IF work = "failed" THEN Throw(GaugeTouch(lib), "cancel")
                             ELSE GaugeTouch(lib), TRUE)
  /\ pc' = "down"
  /\ UNCHANGED <<open, handles, fsys, exit>>

Work ==
  /\ pc = "work"
  /\ Create \/ Tune \/ Resize \/ Copy \/ Fsck \/ Traverse
  /\ UNCHANGED <<cmd, opt, prompts>>

(* ls: the directory is opened, sought and read.  A read that fails ends   *)
(* the listing like its end does.                                          *)
ListDirectory ==
  /\ pc = "object" /\ Prog = "ls"
  /\ \/ Abandon(Message("cancel"), {"fs", "host"}, 255) /\ UNCHANGED hist
     \/ \E work \in {"ok", "failed"} :
          /\ hist' = [hist EXCEPT !.work = work]
          /\ pc' = "close" /\ UNCHANGED <<open, handles, lib, exit>>
  /\ UNCHANGED <<cmd, opt, fsys, prompts>>

(* cat: the file is opened, sought and read into memory of its size; that  *)
(* less was read is only a warning.                                        *)
ReadFile ==
  /\ pc = "object" /\ Prog = "cat"
  /\ \/ \E m \in {Message("cancel")} \cup OutOfMemory(lib) :
          Abandon(m, {"fs", "host"}, 255) /\ UNCHANGED hist
     \/ pc' = "crashed" /\ UNCHANGED <<open, handles, lib, exit, hist>>
     \/ \E work \in {"ok", "failed"} :
          /\ hist' = [hist EXCEPT !.work = work]
          /\ lib' = IF work = "ok" THEN lib ELSE Message("ignore")
          /\ pc' = "close" /\ UNCHANGED <<open, handles, exit>>
  /\ UNCHANGED <<cmd, opt, fsys, prompts>>

(* lookup says what came of it; it goes to the last node of a path that is *)
(* empty when the root is unreadable.                                      *)
LookupItem ==
  /\ pc = "object" /\ Prog = "lookup"
  /\ \/ pc' = "crashed" /\ UNCHANGED <<lib, hist>>
     \/ \E work \in {"ok", "failed"} :
          /\ hist' = [hist EXCEPT !.work = work]
          /\ lib' = Message("cancel") /\ pc' = "close"
  /\ UNCHANGED <<cmd, opt, open, handles, fsys, prompts, exit>>

(* tunefs: a label or an identifier, which the old format has no room for. *)
Label ==
  /\ pc = "label"
  /\ IF (opt.label \/ opt.uuid # "") /\ fsys.format = "3.5"
     THEN Abandon(Message("cancel"), Held, 255) /\ UNCHANGED hist
     ELSE /\ hist' = [hist EXCEPT !.work = "ok", !.wrote = @ \cup {"host"}]
          /\ pc' = "close" /\ UNCHANGED <<open, handles, lib, exit>>
  /\ UNCHANGED <<cmd, opt, fsys, prompts>>

-----------------------------------------------------------------------------
(* The end.  A filesystem whose last sync fails is closed all the same.    *)
CloseFs ==
  /\ pc = "close"
  /\ \E failed \in BOOLEAN :
       /\ failed => Prog \in Changers
       /\ lib' = IF failed THEN Message("cancel") ELSE lib
       /\ hist' = [hist EXCEPT !.unsynced = failed]
       /\ fsys' = IF failed /\ "host" \in hist.wrote
                  THEN [fsys EXCEPT !.state = "unknown"] ELSE fsys
  /\ handles' = {}
  /\ \/ /\ Prog \in Demos \cup {"fsck"}
        /\ open' = {} /\ Exit(IF Prog = "lookup" /\ hist.work # "ok" THEN 1 ELSE 0)
     \/ /\ Prog \notin Demos \cup {"fsck"}
        /\ pc' = (IF Prog = "cpfs" THEN "sync" ELSE "syncing")
        /\ UNCHANGED <<open, exit>>
  /\ UNCHANGED <<cmd, opt, prompts>>

(* cpfs starts the gauge before it closes the two filesystems.             *)
SyncGauge ==
  /\ pc = "syncing"
  /\ GaugeUp("syncing", IF Prog = "cpfs" THEN "close" ELSE "sync", Held)

(* The devices, of which cpfs has written one.  mkfs does not look at what *)
(* became of its journal's; the others only warn.                          *)
Synced == IF Prog = "cpfs" THEN {"dst"} ELSE open
Unwatched == IF Prog = "mkfs" THEN {"journal"} ELSE {}
NameOf(role) ==
  CASE role = "host" -> opt.host [] role = "journal" -> opt.journal
    [] role = "new" -> opt.new [] OTHER -> opt.dst

SyncDevices ==
  /\ pc = "sync"
  /\ \E failed \in SUBSET (open \cap Synced) :
       /\ \E m \in {IF failed \subseteq Unwatched THEN lib ELSE Message("ok")} :
            lib' = GaugeFinish(m, TRUE)
       /\ hist' = [hist EXCEPT !.unsynced = @ \/ failed # {}]
       /\ fsys' = IF {NameOf(role) : role \in failed} \cap hist.wrote \cap {"host", fsys.dev} # {}
                  THEN [fsys EXCEPT !.state = "unknown"] ELSE fsys
  /\ open' = {} /\ pc' = "down"
  /\ UNCHANGED <<cmd, opt, handles, prompts, exit>>

GaugeDown ==
  /\ pc = "down"
  /\ lib' = Down(lib)
  /\ IF Prog = "traverse" THEN pc' = "close" /\ UNCHANGED exit ELSE Exit(0)
  /\ UNCHANGED <<cmd, opt, open, handles, fsys, prompts, hist>>

-----------------------------------------------------------------------------
Main ==
  \/ ParseOption \/ Arguments \/ CheckDevices \/ OpenHost \/ Numbers \/ OpenJournal
  \/ OpenNew \/ Sizes \/ OpenFs \/ JudgeTune \/ JudgeResize \/ OpenDestination \/ Ask
  \/ Prepare \/ StartGauge \/ Work \/ ListDirectory \/ ReadFile \/ LookupItem
  \/ Label \/ CloseFs \/ SyncGauge \/ SyncDevices \/ GaugeDown

Next == Main

(* A program goes on until it ends: every call it waits for returns.       *)
Spec == Init /\ [][Next]_vars /\ WF_vars(Main)

-----------------------------------------------------------------------------
Over == pc \in {"exited", "crashed"}

(* Everything stays in its range, the exit code is there exactly when a    *)
(* program has ended by itself, and no message is held back between calls. *)
TypeOK ==
  /\ open \subseteq {"host", "journal", "new", "dst"} /\ handles \subseteq {"fs", "copy"}
  /\ prompts \in 0 .. 3 /\ exit \in {-1, 0, 1, 254, 255} /\ (exit # -1 <=> pc = "exited")
  /\ hist.answer \in {"none", "y", "n"} /\ hist.wrote \subseteq Devices
  /\ lib.fetch = 0

(* The last word of a gauge is not "done" when a message was thrown while  *)
(* it ran, though every program finishes it with success; and the library  *)
(* does not follow its pointer to a gauge that is freed (gauge.c,          *)
(* exception.c, the ends of the programs).                                 *)
GaugeTold ==
  /\ ~lib.astray
  /\ lib.gauge.live /\ lib.gauge.state = "done" => ~lib.gauge.troubled

(* Everything is in its range and what is said of the progress is true     *)
(* (gauge.c, exception.c).                                                 *)
Inv == TypeOK /\ GaugeTold

(* A user who says no, or says nothing to three questions, has not lost a  *)
(* block of any device (progs_choose and what comes before it).            *)
RefusedLeavesAlone == hist.answer # "y" /\ Prog \notin Demos => hist.wrote = {}

(* What a program that was told to go on leaves the filesystem as: cpfs as *)
(* it was, a resize with a new begin marked in its old place.              *)
LeftAs ==
  CASE Prog = "cpfs" -> hist.before.state
    [] Prog = "resizefs" /\ opt.begin # 0 -> "marked"
    [] OTHER -> "clean"

(* When a program that changes a filesystem ends with 0 after it was told  *)
(* to go on, the work is done, the filesystem is not left marked (a copy   *)
(* leaves it as it was, a resize that moves its begin leaves the mark in   *)
(* its old place), nothing is left open and the gauge is gone - unless a   *)
(* sync at the end failed, which reiserfs_fs_close does not tell and the   *)
(* programs only warn of.                                                  *)
SuccessIsWhole ==
  exit = 0 /\ hist.answer = "y" /\ ~hist.unsynced
    => /\ hist.work = "ok"
       /\ opt.host = "host" => fsys.state = LeftAs
       /\ open = {} /\ handles = {} /\ ~lib.installed /\ ~lib.gauge.live

(* A journal that tunefs was told to put on another device is there when   *)
(* it ends with 0: the super block names that device, the start and the    *)
(* length that were asked, and in a filesystem of the default block size   *)
(* the journal lies where that says, in blocks of that size.  A journal    *)
(* that was apart before goes only when tunefs took it for changed: with   *)
(* other boundaries, and to a device it is not on.                         *)
JournalWhereAsked ==
  exit = 0 /\ Prog = "tunefs" /\ hist.answer = "y" /\ opt.new \notin {"", "host", opt.journal}
    /\ \/ hist.before.dev = "host"
       \/ /\ opt.new \in hist.wrote
          /\ opt.start # hist.before.start \/ opt.len # hist.before.len
    => /\ fsys.dev = opt.new /\ fsys.start = opt.start /\ fsys.len = opt.len
       /\ fsys.bs = DefaultBlockSize => fsys.unit = fsys.bs

(* Every program ends, whatever is answered to it.                         *)
Ends == <>Over
=============================================================================

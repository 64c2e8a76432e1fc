--------------------------- MODULE ProgramsProofs ---------------------------
(***************************************************************************)
(* Proofs about the programs: what their exit code, their question and     *)
(* their gauge tell holds for all command lines, devices and filesystems.  *)
(***************************************************************************)
EXTENDS Programs, TLAPS

(* What is said, between calls: the answers are in their places, the       *)
(* pointer is there just while there is a gauge, and one that a message    *)
(* ended has not been anything but failed since.                           *)
Words(m, n) ==
  /\ DOMAIN m = DOMAIN Silence /\ DOMAIN m.gauge = DOMAIN NoGauge
  /\ m.installed \in BOOLEAN /\ m.gauge.live \in BOOLEAN /\ m.gauge.troubled \in BOOLEAN
  /\ m.fetch = n /\ ~m.astray
  /\ m.installed <=> m.gauge.live
  /\ m.gauge.troubled => m.gauge.state = "failed"

Silent(m) == Words(m, 0) /\ m.installed = FALSE

Unasked == {"parse", "devices", "host", "numbers", "journal", "new", "sizes", "fs", "judge",
            "dst", "ask"}
Untouched == Unasked \cup {"prepare", "gauge", "work", "object"}
Ending == {"syncing", "close", "sync", "down"}
Stages == Untouched \cup Ending \cup {"label", "exited", "crashed"}

Typed ==
  /\ DOMAIN cmd = {"prog", "options", "rest"} /\ Prog \in Changers \cup Demos \cup {"fsck"}
  /\ DOMAIN opt = DOMAIN Options
  /\ DOMAIN fsys = {"dev", "start", "len", "state", "format", "size", "bs", "unit"}
  /\ DOMAIN hist = {"before", "answer", "work", "wrote", "phase", "unsynced"}
  /\ pc \in Stages
  /\ open \subseteq {"host", "journal", "new", "dst"} /\ handles \subseteq {"fs", "copy"}
  /\ prompts \in 0 .. 3 /\ exit \in {-1, 0, 1, 254, 255} /\ (exit # -1 <=> pc = "exited")
  /\ hist.answer \in {"none", "y", "n"} /\ hist.wrote \subseteq Devices
  /\ hist.unsynced \in BOOLEAN

(* Which programs come where.                                              *)
Places ==
  /\ pc = "parse" => open = {}
  /\ pc = "sizes" => Prog = "mkfs"
  /\ pc \in {"new", "prepare", "label"} => Prog = "tunefs"
  /\ pc = "judge" => Prog \in {"tunefs", "resizefs"}
  /\ pc = "dst" => Prog = "cpfs"
  /\ pc = "numbers" => Prog = "lookup"
  /\ pc \in {"ask", "syncing", "sync"} => Prog \in Changers
  /\ pc \in {"gauge", "down"} => Prog \in Changers \cup {"traverse"}
  /\ pc = "work" => Prog \in Changers \cup {"traverse", "fsck"}

(* The devices that a program may write are there.                         *)
Present ==
  /\ opt.journal \in Devices \cup {""} /\ opt.new \in Devices \cup {""}
  /\ pc \notin {"parse", "devices", "exited"} /\ Prog \notin Demos => opt.host \in Devices
  /\ pc \notin {"parse", "devices", "exited"} /\ Prog = "cpfs" => opt.dst \in Devices
  /\ "journal" \in open => opt.journal \notin {"", opt.host}
  /\ "new" \in open => Prog = "tunefs" /\ opt.new \notin {"", opt.journal, opt.host}

(* There is a gauge while there is something to follow.                    *)
Follows == \/ pc = "work" /\ Prog # "fsck"
           \/ pc \in {"sync", "down"}
           \/ pc = "close" /\ Prog = "cpfs"
Gauged == Words(lib, 0) /\ lib.installed = Follows

(* Nothing is done before the question, and no more without a yes.         *)
Asks ==
  /\ pc \in Unasked \/ Prog \notin Changers => hist.answer = "none"
  /\ pc \in Untouched => fsys = hist.before
  /\ pc \in Untouched /\ Prog \notin Demos => hist.wrote = {}
  /\ pc \in {"prepare", "gauge", "work", "label"} \cup Ending /\ Prog \in Changers
       => hist.answer = "y"
  /\ hist.unsynced => Prog \in Changers
  /\ hist.unsynced => \/ pc \in {"sync", "down", "exited", "crashed"}
                      \/ pc = "syncing" /\ Prog # "cpfs"

(* Only a clean filesystem is changed, and it stays that until the end.    *)
Whole ==
  /\ pc \in {"judge", "dst", "ask", "prepare", "gauge", "work", "label"}
       /\ Prog \in {"tunefs", "resizefs", "cpfs"} => opt.host = "host"
  /\ pc \in {"judge", "ask", "prepare", "gauge", "work", "label"}
       /\ Prog \in {"tunefs", "resizefs"} => fsys.state = "clean"
  /\ pc \in Ending /\ Prog \in Changers => hist.work = "ok"
  /\ pc \in Ending /\ Prog \in Changers /\ ~hist.unsynced /\ opt.host = "host"
       => fsys.state = LeftAs
  /\ pc \in {"sync", "down"} /\ Prog \in Changers => handles = {}
  /\ pc = "syncing" /\ Prog \in Changers \ {"cpfs"} => handles = {}
  /\ pc = "down" /\ Prog \in Changers => open = {}

(* The journal that is to go to another device: first the device is open   *)
(* for it, then it is there.                                               *)
Leaving(written) ==
  /\ Prog = "tunefs" /\ opt.new \notin {"", "host", opt.journal}
  /\ \/ hist.before.dev = "host"
     \/ /\ opt.new \in written
        /\ opt.start # hist.before.start \/ opt.len # hist.before.len
Leaves == Leaving(hist.wrote)
Arrives(result) ==
  /\ result.dev = opt.new /\ result.start = opt.start /\ result.len = opt.len
  /\ result.bs = DefaultBlockSize => result.unit = result.bs
There == Arrives(fsys)
Moves ==
  /\ pc \in {"fs", "judge", "ask", "prepare", "gauge", "work"} /\ Prog = "tunefs"
       /\ opt.new \notin {"", opt.journal, opt.host} => "new" \in open
  /\ pc \in {"label"} \cup Ending /\ Leaves => There

IInv ==
  /\ Typed /\ Places /\ Present /\ Gauged /\ Asks /\ Whole /\ Moves
  /\ RefusedLeavesAlone /\ SuccessIsWhole /\ JournalWhereAsked

-----------------------------------------------------------------------------
(* Looking at the gauge changes the last word on the screen only.          *)
LEMMA TouchWords ==
  ASSUME NEW m, NEW n, Words(m, n)
  PROVE  Words(GaugeTouch(m), n) /\ GaugeTouch(m).gauge = m.gauge
         /\ GaugeTouch(m).installed = m.installed
BY DEF GaugeTouch, Words, Silence

LEMMA FinishWords ==
  ASSUME NEW m, NEW n, Words(m, n), NEW success \in BOOLEAN
  PROVE  Words(GaugeFinish(m, success), n) /\ GaugeFinish(m, success).installed = m.installed
<1> DEFINE done == [m EXCEPT !.gauge.value = 100,
                             !.gauge.state = IF success THEN "done" ELSE "failed"]
<1>1. CASE m.gauge.state \in {"done", "failed"}
  BY <1>1 DEF GaugeFinish
<1>2. CASE m.gauge.state \notin {"done", "failed"}
  <2>1. Words(done, n) /\ done.installed = m.installed
    BY <1>2 DEF Words, Silence, NoGauge
  <2>2. GaugeFinish(m, success) = GaugeTouch(done)
    BY <1>2 DEF GaugeFinish
  <2> HIDE DEF done
  <2>3. QED
    BY <2>1, <2>2, TouchWords
<1>3. QED
  BY <1>1, <1>2

(* A message ends the installed gauge and leaves everything else in order. *)
LEMMA EndedWords ==
  ASSUME NEW m, NEW n, Words(m, n)
  PROVE  Words(Ended(m), n) /\ Ended(m).installed = m.installed
<1>1. CASE ~m.installed \/ m.gauge.state = "done"
  <2>1. m.installed => m.gauge.live
    BY DEF Words
  <2>2. Ended(m) = m
    BY <1>1, <2>1 DEF Ended
  <2>3. QED
    BY <2>2
<1>2. CASE m.installed /\ m.gauge.state # "done"
  <2> DEFINE told == [m EXCEPT !.gauge.troubled = TRUE]
             done == [told EXCEPT !.gauge.value = 100, !.gauge.state = "failed"]
  <2>1. m.gauge.live
    BY <1>2 DEF Words
  <2>2. Ended(m) = GaugeFinish(told, FALSE)
    BY <1>2, <2>1 DEF Ended
  <2>3. told.gauge.state = m.gauge.state /\ told.installed = m.installed
        /\ DOMAIN told = DOMAIN Silence /\ DOMAIN told.gauge = DOMAIN NoGauge
    BY DEF Words, Silence, NoGauge
  <2>4. CASE m.gauge.state = "failed"
    <3>1. Ended(m) = told
      BY <2>2, <2>3, <2>4 DEF GaugeFinish
    <3>2. /\ told.gauge.live = m.gauge.live /\ told.gauge.troubled = TRUE
          /\ told.fetch = m.fetch /\ told.astray = m.astray
      BY DEF Words, Silence, NoGauge
    <3> HIDE DEF told
    <3>3. Words(told, n)
      BY <2>3, <2>4, <3>2 DEF Words
    <3>4. QED
      BY <2>3, <3>1, <3>3
  <2>5. CASE m.gauge.state # "failed"
    <3>1. Ended(m) = GaugeTouch(done)
      BY <1>2, <2>2, <2>3, <2>5 DEF GaugeFinish
    <3>2. Words(done, n) /\ done.installed = m.installed
      BY <1>2, <2>1, <2>3 DEF Words, Silence, NoGauge
    <3> HIDE DEF done
    <3>3. QED
      BY <3>1, <3>2, TouchWords
  <2>6. QED
    BY <2>4, <2>5
<1>3. QED
  BY <1>1, <1>2 DEF Words

LEMMA ThrowWords ==
  ASSUME NEW m, NEW n, Words(m, n), NEW options
  PROVE  Words(Throw(m, options), n) /\ Throw(m, options).installed = m.installed
<1>1. Words(Catch(m), n) /\ Catch(m).installed = m.installed
  BY DEF Catch, Words, Silence
<1>2. Words(Ended(Catch(m)), n) /\ Ended(Catch(m)).installed = m.installed
  BY <1>1, EndedWords
<1> DEFINE e == Ended(Catch(m))
<1>3. Throw(m, options) = DoThrow(e, options)
  BY DEF Throw
<1> HIDE DEF e
<1>4. Words(e, n) /\ e.installed = m.installed
  BY <1>2 DEF e
<1>5. QED
  BY <1>3, <1>4 DEF DoThrow, Catch, Words, Silence

LEMMA ShortWords ==
  ASSUME NEW m, NEW n, Words(m, n), NEW short \in OutOfMemory(m)
  PROVE  Words(short, n) /\ short.installed = m.installed
<1>1. Words(Catch(m), n) /\ Catch(m).installed = m.installed
  BY DEF Catch, Words, Silence
<1> DEFINE t == Throw(Catch(m), "cancel")
<1>2. Words(t, n) /\ t.installed = m.installed
  BY <1>1, ThrowWords
<1>3. ThrowShort(m) = [t EXCEPT !.answer = "unhandled"]
  BY DEF ThrowShort
<1> HIDE DEF t
<1>4. Words(ThrowShort(m), n) /\ ThrowShort(m).installed = m.installed
  BY <1>2, <1>3 DEF Words, Silence
<1>5. short = Throw(m, "cancel") \/ short = ThrowShort(m)
  BY DEF OutOfMemory
<1>6. QED
  BY <1>4, <1>5, ThrowWords

LEMMA WarnedWords ==
  ASSUME NEW m, Words(m, 0), NEW name
  PROVE  /\ Words(Warned(m, name), 0) /\ Warned(m, name).installed = m.installed
         /\ Words(FormatWarned(m, name), 0) /\ FormatWarned(m, name).installed = m.installed
BY ThrowWords DEF Warned, FormatWarned

(* A question among the checks leaves its message behind, no more.         *)
LEMMA FetchedWords ==
  ASSUME NEW m, Words(m, 0), NEW name
  PROVE  Words(Fetched(m, name), 0) /\ Fetched(m, name).installed = m.installed
<1> DEFINE t == Throw(FetchAll(m), "ignore")
<1>1. Words(FetchAll(m), 1) /\ FetchAll(m).installed = m.installed
  BY DEF FetchAll, Words, Silence
<1>2. Words(t, 1) /\ t.installed = m.installed
  BY <1>1, ThrowWords
<1>3. Fetched(m, name) = IF name \in Special \/ ~DevCheck(name) THEN m ELSE LeaveAll(t)
  BY DEF Fetched
<1> HIDE DEF t
<1>4. Words(LeaveAll(t), 0) /\ LeaveAll(t).installed = t.installed
  BY <1>2 DEF LeaveAll, Words, Silence
<1>5. QED
  BY <1>2, <1>3, <1>4

(* A gauge that is set up is followed, and one that is taken down is gone. *)
LEMMA UpWords ==
  ASSUME NEW m, NEW n, Words(m, n), NEW name
  PROVE  Words(SetGauge(GaugeCreate(m, name), TRUE), n)
         /\ SetGauge(GaugeCreate(m, name), TRUE).installed = TRUE
<1> DEFINE new == GaugeReset([m EXCEPT !.gauge = [NoGauge EXCEPT !.live = TRUE, !.name = name]])
           up == GaugeCreate(m, name)
<1>1. /\ DOMAIN new = DOMAIN Silence /\ DOMAIN new.gauge = DOMAIN NoGauge
      /\ new.gauge.live = TRUE /\ new.gauge.troubled = FALSE /\ new.fetch = n /\ ~new.astray
  BY DEF GaugeReset, Words, Silence, NoGauge
<1>2. up = IF name = "" THEN new ELSE GaugeTouch(new)
  BY DEF GaugeCreate
<1> HIDE DEF new, up
<1>3. /\ DOMAIN up = DOMAIN Silence /\ up.gauge = new.gauge
      /\ up.fetch = n /\ ~up.astray
  BY <1>1, <1>2 DEF GaugeTouch, Silence
<1> DEFINE set == [up EXCEPT !.installed = TRUE]
<1>4. /\ DOMAIN set = DOMAIN Silence /\ set.gauge = up.gauge /\ set.installed = TRUE
      /\ set.fetch = n /\ ~set.astray
  BY <1>3 DEF Silence
<1>5. SetGauge(GaugeCreate(m, name), TRUE) = set
  BY DEF SetGauge, up
<1> HIDE DEF set
<1>6. Words(set, n)
  BY <1>1, <1>3, <1>4 DEF Words
<1>7. QED
  BY <1>4, <1>5, <1>6

LEMMA DownWords ==
  ASSUME NEW m, NEW n, Words(m, n)
  PROVE  Words(Down(m), n) /\ Down(m).installed = FALSE
BY DEF Down, SetGauge, GaugeFree, Words, Silence, NoGauge

(* A phase begins with a gauge that has not failed.                        *)
LEMMA PhaseWords ==
  ASSUME NEW m, NEW n, Words(m, n), NEW name
  PROVE  /\ Words(PhaseStarts(m, name), n) /\ PhaseStarts(m, name).installed = m.installed
         /\ Words(PhaseEnds(m), n) /\ PhaseEnds(m).installed = m.installed
<1>1. Words(PhaseEnds(m), n) /\ PhaseEnds(m).installed = m.installed
  BY FinishWords DEF PhaseEnds
<1>2. CASE ~m.installed
  BY <1>1, <1>2 DEF PhaseStarts
<1>3. CASE m.installed
  <2> DEFINE Fresh(k) == Words(k, n) /\ k.installed /\ ~k.gauge.troubled
             r == GaugeReset(m)
             s == GaugeSetName(r, name)
  <2>1. Fresh(r)
    BY <1>3 DEF GaugeReset, Words, Silence, NoGauge
  <2> HIDE DEF r
  <2>2. Fresh([r EXCEPT !.gauge.name = name, !.gauge.state = "started"])
    BY <2>1 DEF Words, Silence, NoGauge
  <2>3. Fresh(s)
    BY <2>1, <2>2, TouchWords DEF GaugeSetName
  <2> HIDE DEF s
  <2> DEFINE value == (1 * 100) \div 2
             u == [s EXCEPT !.gauge.value = value]
             v == GaugeTouch(u)
  <2>4. Fresh(u)
    BY <2>3 DEF Words, Silence, NoGauge
  <2> HIDE DEF value, u
  <2>5. Fresh(v)
    BY <2>4, TouchWords
  <2> HIDE DEF v
  <2>6. Fresh([v EXCEPT !.gauge.state = "running"])
    BY <2>5 DEF Words, Silence, NoGauge
  <2>7. GaugeSetValue(s, value) = s
        \/ GaugeSetValue(s, value) = [v EXCEPT !.gauge.state = "running"]
    BY DEF GaugeSetValue, v, u
  <2>8. PhaseStarts(m, name) = GaugeSetValue(s, value)
    BY <1>3, <2>3 DEF PhaseStarts, CallbackSegmentGauge, s, r, value
  <2>9. QED
    BY <1>1, <1>3, <2>3, <2>6, <2>7, <2>8 DEF Words
<1>4. QED
  BY <1>2, <1>3 DEF Words

-----------------------------------------------------------------------------
(* Whatever a program had open: it may end with a code that is not success,*)
(* or before it was told to go on.                                         *)
LEMMA EndSound ==
  ASSUME IInv, NEW code \in {0, 1, 254, 255}, Exit(code),
         cmd' = cmd, opt' = opt, prompts' = prompts,
         open' \subseteq open, handles' \subseteq handles,
         Words(lib', 0), lib'.installed = FALSE,
         DOMAIN fsys' = DOMAIN fsys, DOMAIN hist' = DOMAIN hist,
         hist'.answer \in {"none", "y", "n"}, hist'.wrote \subseteq Devices,
         hist'.unsynced = hist.unsynced,
         Prog \notin Changers => hist'.answer = hist.answer,
         hist'.answer # "y" /\ Prog \notin Demos => hist'.wrote = {},
         code = 0 => hist'.answer # "y"
  PROVE  IInv'
<1> USE DEF IInv
<1>1. pc' = "exited" /\ exit' = code /\ Prog' = Prog
  BY DEF Exit, Prog
<1>2. Typed'
  BY <1>1 DEF Typed, Stages, Prog
<1>3. Places' /\ Moves' /\ Whole'
  BY <1>1 DEF Places, Moves, Whole, Ending, Leaves
<1>4. Present'
  BY <1>1 DEF Present
<1>5. Follows' = FALSE
  BY <1>1 DEF Follows
<1>6. Gauged'
  BY <1>5 DEF Gauged
<1>7. Asks'
  BY <1>1 DEF Asks, Unasked, Untouched, Ending
<1>8. RefusedLeavesAlone' /\ SuccessIsWhole' /\ JournalWhereAsked'
  BY <1>1 DEF RefusedLeavesAlone, SuccessIsWhole, JournalWhereAsked
<1>9. QED
  BY <1>2, <1>3, <1>4, <1>6, <1>7, <1>8

(* The way out through a label says what could not be closed.              *)
LEMMA AbandonSaid ==
  ASSUME NEW m, NEW closed, NEW code, Words(m, 0), Abandon(m, closed, code)
  PROVE  Words(lib', 0) /\ lib'.installed = m.installed
         /\ open' \subseteq open /\ handles' \subseteq handles /\ Exit(code)
<1>1. lib' \in {m, Throw(m, "cancel")}
  BY DEF Abandon, Closing
<1>2. QED
  BY <1>1, ThrowWords DEF Abandon

(* When nothing has been done yet.                                         *)
LEMMA AbandonSound ==
  ASSUME IInv, NEW m, Silent(m), NEW closed, NEW code \in {1, 254, 255}, Abandon(m, closed, code),
         UNCHANGED <<cmd, opt, fsys, prompts, hist>>
  PROVE  IInv'
<1>1. Words(lib', 0) /\ lib'.installed = FALSE /\ open' \subseteq open
      /\ handles' \subseteq handles /\ Exit(code)
  BY AbandonSaid DEF Silent
<1>2. hist.answer \in {"none", "y", "n"} /\ hist.wrote \subseteq Devices
      /\ (hist.answer # "y" /\ Prog \notin Demos => hist.wrote = {})
  BY DEF IInv, Typed, RefusedLeavesAlone
<1>3. /\ cmd' = cmd /\ opt' = opt /\ prompts' = prompts /\ fsys' = fsys /\ hist' = hist
      /\ code \in {0, 1, 254, 255} /\ code # 0
  OBVIOUS
<1>4. QED
  BY <1>1, <1>2, <1>3, EndSound

(* A message while there is no gauge.                                      *)
LEMMA MessageSaid ==
  ASSUME IInv, ~Follows, NEW options
  PROVE  /\ Words(lib, 0) /\ lib.installed = FALSE
         /\ Words(Message(options), 0) /\ Message(options).installed = FALSE
BY ThrowWords DEF IInv, Gauged, Message

LEMMA MessageSound ==
  ASSUME IInv, ~Follows, NEW options, NEW closed, NEW code \in {1, 254, 255},
         Abandon(Message(options), closed, code), UNCHANGED <<cmd, opt, fsys, prompts, hist>>
  PROVE  IInv'
<1>1. Silent(Message(options))
  BY MessageSaid DEF Silent
<1>2. QED
  BY <1>1, AbandonSound

(* What holds of programs that have ended does not concern one that goes on.*)
LEMMA StillRunning ==
  ASSUME IInv, pc # "exited", exit' = exit
  PROVE  SuccessIsWhole' /\ JournalWhereAsked'
<1>1. exit = -1
  BY DEF IInv, Typed
<1>2. ~(exit' = 0)
  BY <1>1
<1>3. QED
  BY <1>2, Zenon DEF SuccessIsWhole, JournalWhereAsked

LEMMA OpenHostSound == IInv /\ OpenHost => IInv'
<1> SUFFICES ASSUME IInv, OpenHost  PROVE IInv'
  OBVIOUS
<1>1. pc = "host" /\ ~Follows
  BY DEF OpenHost, Follows
<1>2. ASSUME NEW code \in {254, 255}, Abandon(Message("cancel"), {}, code)  PROVE IInv'
  <2>1. UNCHANGED <<cmd, opt, fsys, prompts, hist>>
    BY DEF OpenHost
  <2>2. QED
    BY <1>1, <1>2, <2>1, MessageSound
<1> USE DEF IInv
<1>3. ASSUME open' = {"host"}, UNCHANGED <<handles, lib, exit>>,
             pc' = IF Prog = "lookup" THEN "numbers" ELSE IF Prog \in Demos THEN "fs" ELSE "journal"
      PROVE  IInv'
  <2>1. /\ UNCHANGED <<cmd, opt, fsys, prompts, hist, handles, lib, exit>> /\ Prog' = Prog
        /\ pc' \in {"numbers", "fs", "journal"} /\ (pc' = "numbers" => Prog = "lookup")
        /\ (pc' = "fs" => Prog \in Demos)
    BY <1>3 DEF OpenHost, Prog
  <2>2. Typed' 
    BY <1>1, <1>3, <2>1 DEF Typed, Stages, Untouched, Unasked, Prog
  <2>3. Places'
    BY <1>1, <1>3, <2>1 DEF Places
  <2>4. Present'
    BY <1>1, <1>3, <2>1 DEF Present
  <2>5. Gauged'
    BY <1>1, <1>3, <2>1 DEF Gauged, Follows
  <2>6. Asks'
    BY <1>1, <1>3, <2>1 DEF Asks, Unasked, Untouched, Ending
  <2>7. Whole'
    BY <1>1, <1>3, <2>1 DEF Whole, Ending
  <2>8. Moves'
    BY <1>1, <1>3, <2>1 DEF Moves, Ending, Demos
  <2>9. RefusedLeavesAlone' /\ SuccessIsWhole' /\ JournalWhereAsked'
    BY <1>1, <1>3, <2>1 
       DEF Asks, Unasked, Typed, RefusedLeavesAlone, SuccessIsWhole, JournalWhereAsked
  <2>10. QED
    BY <2>2, <2>3, <2>4, <2>5, <2>6, <2>7, <2>8, <2>9
<1>4. QED
  BY <1>2, <1>3 DEF OpenHost

-----------------------------------------------------------------------------
LEMMA ParseOptionSound == IInv /\ ParseOption => IInv'
<1> SUFFICES ASSUME IInv, ParseOption  PROVE IInv'
  OBVIOUS
<1> DEFINE name == Head(cmd.options)[1]
           value == Head(cmd.options)[2]
<1>1. pc = "parse" /\ ~Follows /\ UNCHANGED <<open, handles, fsys, prompts, hist>>
      /\ hist.answer = "none"
  BY DEF ParseOption, Follows, IInv, Asks, Unasked
<1>2. hist.answer \in {"none", "y", "n"} /\ hist.wrote \subseteq Devices
      /\ (hist.answer # "y" /\ Prog \notin Demos => hist.wrote = {})
  BY DEF IInv, Typed, RefusedLeavesAlone
<1>3. /\ Words(lib, 0) /\ lib.installed = FALSE
      /\ Words(Message("cancel"), 0) /\ Message("cancel").installed = FALSE
  BY <1>1, MessageSaid
<1> HIDE DEF name, value
<1>4. \/ \E code \in {0, 254} :
           Exit(code) /\ UNCHANGED <<cmd, opt>> /\ (lib' = lib \/ lib' = Message("cancel"))
      \/ /\ name \in Known /\ Valid(name, value)
         /\ opt' = [opt EXCEPT ![name] = value]
         /\ cmd' = [cmd EXCEPT !.options = Tail(@)]
         /\ (lib' = Warned(lib, value) \/ lib' = FormatWarned(lib, value) \/ lib' = lib)
         /\ UNCHANGED <<pc, exit>>
  BY DEF ParseOption, name, value
<1>5. ASSUME NEW code \in {0, 254}, Exit(code), UNCHANGED <<cmd, opt>>,
             lib' = lib \/ lib' = Message("cancel")
      PROVE  IInv'
  <2>1. /\ Words(lib', 0) /\ lib'.installed = FALSE /\ code \in {0, 1, 254, 255}
        /\ cmd' = cmd /\ opt' = opt /\ prompts' = prompts /\ fsys' = fsys /\ hist' = hist
        /\ open' = open /\ handles' = handles
    BY <1>1, <1>3, <1>5
  <2>2. QED
    BY <1>1, <1>2, <1>5, <2>1, EndSound
<1>6. ASSUME name \in Known, Valid(name, value),
             opt' = [opt EXCEPT ![name] = value],
             cmd' = [cmd EXCEPT !.options = Tail(@)],
             lib' = Warned(lib, value) \/ lib' = FormatWarned(lib, value) \/ lib' = lib,
             UNCHANGED <<pc, exit>>
      PROVE  IInv'
  <2>1. /\ DOMAIN cmd = {"prog", "options", "rest"} /\ DOMAIN opt = DOMAIN Options
        /\ opt.journal \in Devices \cup {""} /\ opt.new \in Devices \cup {""}
    BY DEF IInv, Typed, Present
  <2>2. DOMAIN cmd' = {"prog", "options", "rest"} /\ Prog' = Prog
    BY <1>6, <2>1 DEF Prog
  <2>3. /\ name \in DOMAIN Options \ {"host", "dst", "size", "begin", "relative"}
        /\ DOMAIN opt' = DOMAIN Options
    BY <1>6, <2>1 DEF Known, Options
  <2>4. /\ opt'.journal = IF name = "journal" THEN value ELSE opt.journal
        /\ opt'.new = IF name = "new" THEN value ELSE opt.new
    BY <1>6, <2>1, <2>3 DEF Options
  <2>5. opt'.journal \in Devices \cup {""} /\ opt'.new \in Devices \cup {""}
    BY <1>6, <2>1, <2>4 DEF Valid, DevCheck
  <2>6. Words(lib', 0) /\ lib'.installed = FALSE
    BY <1>3, <1>6, WarnedWords
  <2>7. pc' = "parse" /\ exit' = exit /\ open' = {}
    BY <1>1, <1>6 DEF IInv, Places
  <2>8. Typed'
    BY <1>1, <2>2, <2>3, <2>5, <2>6, <2>7
       DEF IInv, Typed, Stages, Untouched, Unasked, Ending, Prog
  <2>9. Places'
    BY <1>1, <2>2, <2>3, <2>5, <2>6, <2>7
       DEF IInv, Places, Changers
  <2>10. Present'
    BY <1>1, <2>2, <2>3, <2>5, <2>6, <2>7
       DEF IInv, Present, Demos
  <2>11. Gauged'
    BY <1>1, <2>2, <2>3, <2>5, <2>6, <2>7
       DEF IInv, Gauged, Follows
  <2>12. Asks'
    BY <1>1, <2>2, <2>3, <2>5, <2>6, <2>7
       DEF IInv, Asks, Unasked, Untouched, Ending, Changers, Demos
  <2>13. Whole'
    BY <1>1, <2>2, <2>3, <2>5, <2>6, <2>7
       DEF IInv, Whole, Ending, Changers
  <2>14. Moves'
    BY <1>1, <2>2, <2>3, <2>5, <2>6, <2>7
       DEF IInv, Moves, Ending, Demos, Leaves, Leaving, There, Arrives
  <2>15. RefusedLeavesAlone'
    BY <1>1, <2>2, <2>3, <2>5, <2>6, <2>7
       DEF IInv, Asks, Unasked, Untouched, RefusedLeavesAlone
  <2>16. SuccessIsWhole' /\ JournalWhereAsked'
    BY <1>1, <2>2, <2>3, <2>5, <2>6, <2>7, StillRunning
  <2>17. QED
    BY <2>8, <2>9, <2>10, <2>11, <2>12, <2>13, <2>14, <2>15, <2>16 DEF IInv
<1>7. QED
  BY <1>4, <1>5, <1>6

LEMMA ArgumentsSound == IInv /\ Arguments => IInv'
<1> SUFFICES ASSUME IInv, Arguments  PROVE IInv'
  OBVIOUS
<1>1. pc = "parse" /\ ~Follows /\ UNCHANGED <<cmd, open, handles, fsys, prompts, hist>>
      /\ hist.answer = "none" /\ Prog' = Prog
  BY DEF Arguments, Follows, IInv, Asks, Unasked, Prog
<1>2. hist.answer \in {"none", "y", "n"} /\ hist.wrote \subseteq Devices
      /\ (hist.answer # "y" /\ Prog \notin Demos => hist.wrote = {})
  BY DEF IInv, Typed, RefusedLeavesAlone
<1>3. /\ Words(lib, 0) /\ lib.installed = FALSE
      /\ Words(Message("cancel"), 0) /\ Message("cancel").installed = FALSE
  BY <1>1, MessageSaid
<1>4. \A n : /\ Words(Fetched(lib, n), 0) /\ Fetched(lib, n).installed = FALSE
             /\ Words(Throw(Fetched(lib, n), "cancel"), 0)
             /\ Throw(Fetched(lib, n), "cancel").installed = FALSE
  BY <1>3, FetchedWords, ThrowWords
<1>5. ASSUME NEW code \in {254, 255}, Exit(code), opt' = opt,
             Words(lib', 0), lib'.installed = FALSE
      PROVE  IInv'
  <2>1. /\ code \in {0, 1, 254, 255} /\ code # 0
        /\ cmd' = cmd /\ prompts' = prompts /\ fsys' = fsys /\ hist' = hist
        /\ open' = open /\ handles' = handles
    BY <1>1, <1>5
  <2>2. QED
    BY <1>2, <1>5, <2>1, EndSound, ZenonT(40)
<1>6. ASSUME DOMAIN opt' = DOMAIN opt, opt'.journal = opt.journal, opt'.new = opt.new,
             pc' \in {"host", "devices"}, pc' = "host" => Prog \in Demos,
             Words(lib', 0), lib'.installed = FALSE, exit' = exit
      PROVE  IInv'
  <2>1. open' = {}
    BY <1>1 DEF IInv, Places
  <2>2. Typed'
    BY <1>1, <1>6, <2>1
       DEF IInv, Typed, Stages, Untouched, Unasked, Ending, Prog
  <2>3. Places'
    BY <1>1, <1>6, <2>1
       DEF IInv, Places, Changers
  <2>4. Present'
    BY <1>1, <1>6, <2>1
       DEF IInv, Present, Demos
  <2>5. Gauged'
    BY <1>1, <1>6, <2>1
       DEF IInv, Gauged, Follows
  <2>6. Asks'
    BY <1>1, <1>6, <2>1
       DEF IInv, Asks, Unasked, Untouched, Ending, Changers, Demos
  <2>7. Whole'
    BY <1>1, <1>6, <2>1
       DEF IInv, Whole, Ending, Changers
  <2>8. Moves'
    BY <1>1, <1>6, <2>1
       DEF IInv, Moves, Ending, Demos, Leaves, Leaving, There, Arrives
  <2>9. RefusedLeavesAlone'
    BY <1>1, <1>6, <2>1
       DEF IInv, Asks, Unasked, Untouched, RefusedLeavesAlone
  <2>10. SuccessIsWhole' /\ JournalWhereAsked'
    BY <1>1, <1>6, <2>1, StillRunning
  <2>11. QED
    BY <2>2, <2>3, <2>4, <2>5, <2>6, <2>7, <2>8, <2>9, <2>10 DEF IInv
<1>7. DOMAIN opt = DOMAIN Options
  BY DEF IInv, Typed
<1> DEFINE first == ArgBefore
           swapped == Len(Rest) > 1 /\ ~DevCheck(Rest[1].dev)
           size == IF swapped THEN Rest[1] ELSE LastArg
           asked == IF Len(Rest) > 1 THEN Fetched(lib, Rest[1].dev) ELSE lib
           named == [opt EXCEPT !.host = Rest[1].dev,
                                !.dst = IF Prog = "cpfs" THEN Rest[2].dev ELSE ""]
           made == [opt EXCEPT !.host = IF swapped THEN Rest[2].dev ELSE Rest[1].dev,
                               !.size = IF Len(Rest) > 1 THEN Parsed(size.size) ELSE 0]
           resized == [opt EXCEPT
                         !.host = IF ~DigitCheck(first) THEN first.dev
                                  ELSE IF Len(Rest) > 2 THEN Rest[Len(Rest) - 2].dev
                                  ELSE Prog,
                         !.begin = IF DigitCheck(first) THEN Parsed(first.size) ELSE 0,
                         !.size = Parsed(LastArg.size), !.relative = LastArg.relative]
           Same(o) == DOMAIN o = DOMAIN opt /\ o.journal = opt.journal /\ o.new = opt.new
<1>8. Same(named) /\ Same(made) /\ Same(resized)
  <2> HIDE DEF first, swapped, size, asked
  <2>1. Same(named)
    BY <1>7 DEF Options
  <2>2. Same(made)
    BY <1>7 DEF Options
  <2>3. Same(resized)
    BY <1>7 DEF Options
  <2>4. QED
    BY <2>1, <2>2, <2>3
<1>9. /\ Words(asked, 0) /\ asked.installed = FALSE
      /\ Words(Throw(asked, "cancel"), 0) /\ Throw(asked, "cancel").installed = FALSE
  <2>1. asked = lib \/ asked = Fetched(lib, Rest[1].dev)
    OBVIOUS
  <2> HIDE DEF asked
  <2>2. QED
    BY <1>3, <1>4, <2>1, ThrowWords
<1>10. \/ (Exit(254) \/ Exit(255)) /\ opt' = opt /\ lib' = lib
       \/ /\ opt' = named /\ lib' = lib /\ exit' = exit
          /\ pc' = IF Prog \in Demos THEN "host" ELSE "devices"
       \/ lib' = Throw(asked, "cancel") /\ Exit(254) /\ opt' = opt
       \/ opt' = made /\ lib' = asked /\ pc' = "devices" /\ exit' = exit
       \/ lib' = Message("cancel") /\ Exit(254) /\ opt' = opt
       \/ /\ opt' = resized /\ pc' = "devices" /\ exit' = exit
          /\ lib' = IF DigitCheck(first) THEN lib ELSE Fetched(lib, first.dev)
  BY DEF Arguments
<1> HIDE DEF first, swapped, size, asked, named, made, resized
<1>11. CASE (Exit(254) \/ Exit(255)) /\ opt' = opt /\ lib' = lib
  BY <1>3, <1>5, <1>11
<1>12. CASE /\ opt' = named /\ lib' = lib /\ exit' = exit
            /\ pc' = IF Prog \in Demos THEN "host" ELSE "devices"
  BY <1>3, <1>6, <1>8, <1>12
<1>13. CASE lib' = Throw(asked, "cancel") /\ Exit(254) /\ opt' = opt
  BY <1>5, <1>9, <1>13
<1>14. CASE opt' = made /\ lib' = asked /\ pc' = "devices" /\ exit' = exit
  BY <1>6, <1>8, <1>9, <1>14
<1>15. CASE lib' = Message("cancel") /\ Exit(254) /\ opt' = opt
  BY <1>3, <1>5, <1>15
<1>16. CASE /\ opt' = resized /\ pc' = "devices" /\ exit' = exit
            /\ lib' = IF DigitCheck(first) THEN lib ELSE Fetched(lib, first.dev)
  BY <1>3, <1>4, <1>6, <1>8, <1>16
<1>17. QED
  BY <1>10, <1>11, <1>12, <1>13, <1>14, <1>15, <1>16

LEMMA CheckDevicesSound == IInv /\ CheckDevices => IInv'
<1> SUFFICES ASSUME IInv, CheckDevices  PROVE IInv'
  OBVIOUS
<1>1. pc = "devices" /\ ~Follows /\ UNCHANGED <<cmd, opt, open, handles, fsys, prompts, hist>>
      /\ hist.answer = "none" /\ Prog' = Prog
  BY DEF CheckDevices, Follows, IInv, Asks, Unasked, Prog
<1>2. hist.answer \in {"none", "y", "n"} /\ hist.wrote \subseteq Devices
      /\ (hist.answer # "y" /\ Prog \notin Demos => hist.wrote = {})
  BY DEF IInv, Typed, RefusedLeavesAlone
<1>3. /\ Words(lib, 0) /\ lib.installed = FALSE
      /\ Words(Message("cancel"), 0) /\ Message("cancel").installed = FALSE
  BY <1>1, MessageSaid
<1> DEFINE w == Warned(lib, opt.host)
<1>4. Words(w, 0) /\ w.installed = FALSE
  BY <1>3, WarnedWords
<1>5. /\ Words(Throw(w, "cancel"), 0) /\ Throw(w, "cancel").installed = FALSE
      /\ Words(Warned(w, opt.dst), 0) /\ Warned(w, opt.dst).installed = FALSE
  BY <1>4, ThrowWords, WarnedWords
<1>6. \/ (lib' = Message("cancel") \/ lib' = Throw(w, "cancel")) /\ Exit(254)
      \/ /\ opt.host \in Devices /\ (Prog = "cpfs" => opt.dst \in Devices)
         /\ (lib' = Warned(w, opt.dst) \/ lib' = w)
         /\ pc' = "host" /\ exit' = exit
  <2> HIDE DEF w
  <2>1. CASE Prog = "cpfs"
    <3>1. DOMAIN <<opt.host, opt.dst>> = {1, 2}
      OBVIOUS
    <3>2. QED
      BY <2>1, <3>1 DEF CheckDevices, DevCheck, w
  <2>2. CASE Prog # "cpfs"
    BY <2>2 DEF CheckDevices, DevCheck, w
  <2>3. QED
    BY <2>1, <2>2
<1> HIDE DEF w
<1>7. CASE (lib' = Message("cancel") \/ lib' = Throw(w, "cancel")) /\ Exit(254)
  <2>1. /\ Words(lib', 0) /\ lib'.installed = FALSE /\ Exit(254)
        /\ cmd' = cmd /\ opt' = opt /\ prompts' = prompts /\ fsys' = fsys /\ hist' = hist
        /\ open' = open /\ handles' = handles /\ 254 \in {0, 1, 254, 255} /\ 254 # 0
    BY <1>1, <1>3, <1>5, <1>7
  <2>2. QED
    BY <1>2, <2>1, EndSound, ZenonT(40)
<1>8. CASE /\ opt.host \in Devices /\ (Prog = "cpfs" => opt.dst \in Devices)
           /\ (lib' = Warned(w, opt.dst) \/ lib' = w)
           /\ pc' = "host" /\ exit' = exit
  <2>1. Words(lib', 0) /\ lib'.installed = FALSE
    BY <1>4, <1>5, <1>8
  <2>2. Typed'
    BY <1>1, <1>8, <2>1
       DEF IInv, Typed, Stages, Untouched, Unasked, Ending, Prog
  <2>3. Places'
    BY <1>1, <1>8, <2>1
       DEF IInv, Places, Changers
  <2>4. Present'
    BY <1>1, <1>8, <2>1
       DEF IInv, Present, Demos
  <2>5. Gauged'
    BY <1>1, <1>8, <2>1
       DEF IInv, Gauged, Follows
  <2>6. Asks'
    BY <1>1, <1>8, <2>1
       DEF IInv, Asks, Unasked, Untouched, Ending, Changers, Demos
  <2>7. Whole'
    BY <1>1, <1>8, <2>1
       DEF IInv, Whole, Ending, Changers
  <2>8. Moves'
    BY <1>1, <1>8, <2>1
       DEF IInv, Moves, Ending, Demos, Leaves, Leaving, There, Arrives
  <2>9. RefusedLeavesAlone'
    BY <1>1, <1>8, <2>1
       DEF IInv, Asks, Unasked, Untouched, RefusedLeavesAlone
  <2>10. SuccessIsWhole' /\ JournalWhereAsked'
    BY <1>1, <1>8, <2>1, StillRunning
  <2>11. QED
    BY <2>2, <2>3, <2>4, <2>5, <2>6, <2>7, <2>8, <2>9, <2>10 DEF IInv
<1>9. QED
  BY <1>6, <1>7, <1>8

LEMMA NumbersSound == IInv /\ Numbers => IInv'
<1> SUFFICES ASSUME IInv, Numbers  PROVE IInv'
  OBVIOUS
<1>1. pc = "numbers" /\ ~Follows /\ UNCHANGED <<cmd, opt, fsys, prompts, hist>> /\ Prog' = Prog
  BY DEF Numbers, Follows, Prog
<1>2. \/ Abandon(Message("cancel"), {"host"}, 255)
      \/ pc' = "fs" /\ UNCHANGED <<open, handles, lib, exit>>
  BY DEF Numbers
<1>3. CASE Abandon(Message("cancel"), {"host"}, 255)
  BY <1>1, <1>3, MessageSound
<1>4. CASE pc' = "fs" /\ UNCHANGED <<open, handles, lib, exit>>
  <2>1. Prog = "lookup"
    BY <1>1 DEF IInv, Places
  <2>2. Typed'
    BY <1>1, <1>4, <2>1
       DEF IInv, Typed, Stages, Untouched, Unasked, Ending, Prog
  <2>3. Places'
    BY <1>1, <1>4, <2>1
       DEF IInv, Places, Changers
  <2>4. Present'
    BY <1>1, <1>4, <2>1
       DEF IInv, Present, Demos
  <2>5. Gauged'
    BY <1>1, <1>4, <2>1
       DEF IInv, Gauged, Follows
  <2>6. Asks'
    BY <1>1, <1>4, <2>1
       DEF IInv, Asks, Unasked, Untouched, Ending, Changers, Demos
  <2>7. Whole'
    BY <1>1, <1>4, <2>1
       DEF IInv, Whole, Ending, Changers
  <2>8. Moves'
    BY <1>1, <1>4, <2>1
       DEF IInv, Moves, Ending, Demos, Leaves, Leaving, There, Arrives
  <2>9. RefusedLeavesAlone'
    BY <1>1, <1>4, <2>1
       DEF IInv, Asks, Unasked, Untouched, RefusedLeavesAlone
  <2>10. SuccessIsWhole' /\ JournalWhereAsked'
    BY <1>1, <1>4, <2>1, StillRunning
  <2>11. QED
    BY <2>2, <2>3, <2>4, <2>5, <2>6, <2>7, <2>8, <2>9, <2>10 DEF IInv
<1>5. QED
  BY <1>2, <1>3, <1>4

LEMMA OpenJournalSound == IInv /\ OpenJournal => IInv'
<1> SUFFICES ASSUME IInv, OpenJournal  PROVE IInv'
  OBVIOUS
<1>1. pc = "journal" /\ ~Follows /\ UNCHANGED <<cmd, opt, fsys, prompts, hist>> /\ Prog' = Prog
  BY DEF OpenJournal, Follows, Prog
<1>2. \/ Abandon(Message("cancel"), {}, 255)
      \/ Abandon(Message("cancel"), {}, 254)
      \/ Abandon(Message("cancel"), {"host"}, 255)
      \/ /\ pc' = AfterJournal /\ UNCHANGED <<handles, lib, exit>>
         /\ \/ open' = open
            \/ open' = open \cup {"journal"} /\ opt.journal \notin {"", opt.host}
  BY DEF OpenJournal
<1>3. CASE \/ Abandon(Message("cancel"), {}, 255)
           \/ Abandon(Message("cancel"), {}, 254)
           \/ Abandon(Message("cancel"), {"host"}, 255)
  BY <1>1, <1>3, MessageSound
<1>4. CASE /\ pc' = AfterJournal /\ UNCHANGED <<handles, lib, exit>>
           /\ \/ open' = open
              \/ open' = open \cup {"journal"} /\ opt.journal \notin {"", opt.host}
  <2>1. /\ pc' \in {"sizes", "new", "fs"} /\ (pc' = "sizes" => Prog = "mkfs")
        /\ (pc' = "new" => Prog = "tunefs") /\ (pc' = "fs" => Prog # "tunefs")
    BY <1>4 DEF AfterJournal
  <2>2. Typed'
    BY <1>1, <1>4, <2>1
       DEF IInv, Typed, Stages, Untouched, Unasked, Ending, Prog
  <2>3. Places'
    BY <1>1, <1>4, <2>1
       DEF IInv, Places, Changers
  <2>4. Present'
    BY <1>1, <1>4, <2>1
       DEF IInv, Present, Demos
  <2>5. Gauged'
    BY <1>1, <1>4, <2>1
       DEF IInv, Gauged, Follows
  <2>6. Asks'
    BY <1>1, <1>4, <2>1
       DEF IInv, Asks, Unasked, Untouched, Ending, Changers, Demos
  <2>7. Whole'
    BY <1>1, <1>4, <2>1
       DEF IInv, Whole, Ending, Changers
  <2>8. Moves'
    BY <1>1, <1>4, <2>1
       DEF IInv, Moves, Ending, Demos, Leaves, Leaving, There, Arrives
  <2>9. RefusedLeavesAlone'
    BY <1>1, <1>4, <2>1
       DEF IInv, Asks, Unasked, Untouched, RefusedLeavesAlone
  <2>10. SuccessIsWhole' /\ JournalWhereAsked'
    BY <1>1, <1>4, <2>1, StillRunning
  <2>11. QED
    BY <2>2, <2>3, <2>4, <2>5, <2>6, <2>7, <2>8, <2>9, <2>10 DEF IInv
<1>5. QED
  BY <1>2, <1>3, <1>4

LEMMA OpenNewSound == IInv /\ OpenNew => IInv'
<1> SUFFICES ASSUME IInv, OpenNew  PROVE IInv'
  OBVIOUS
<1>1. pc = "new" /\ ~Follows /\ UNCHANGED <<cmd, opt, fsys, prompts, hist>> /\ Prog' = Prog
  BY DEF OpenNew, Follows, Prog
<1>2. \/ Abandon(Message("cancel"), {"journal", "host"}, 255)
      \/ /\ pc' = "fs" /\ UNCHANGED <<handles, lib, exit>>
         /\ \/ open' = open /\ opt.new \in {"", opt.journal, opt.host}
            \/ open' = open \cup {"new"} /\ opt.new \notin {"", opt.journal, opt.host}
  BY DEF OpenNew
<1>3. CASE Abandon(Message("cancel"), {"journal", "host"}, 255)
  BY <1>1, <1>3, MessageSound
<1>4. CASE /\ pc' = "fs" /\ UNCHANGED <<handles, lib, exit>>
           /\ \/ open' = open /\ opt.new \in {"", opt.journal, opt.host}
              \/ open' = open \cup {"new"} /\ opt.new \notin {"", opt.journal, opt.host}
  <2>1. Prog = "tunefs"
    BY <1>1 DEF IInv, Places
  <2>2. Typed'
    BY <1>1, <1>4, <2>1
       DEF IInv, Typed, Stages, Untouched, Unasked, Ending, Prog
  <2>3. Places'
    BY <1>1, <1>4, <2>1
       DEF IInv, Places, Changers
  <2>4. Present'
    BY <1>1, <1>4, <2>1
       DEF IInv, Present, Demos
  <2>5. Gauged'
    BY <1>1, <1>4, <2>1
       DEF IInv, Gauged, Follows
  <2>6. Asks'
    BY <1>1, <1>4, <2>1
       DEF IInv, Asks, Unasked, Untouched, Ending, Changers, Demos
  <2>7. Whole'
    BY <1>1, <1>4, <2>1
       DEF IInv, Whole, Ending, Changers
  <2>8. Moves'
    BY <1>1, <1>4, <2>1
       DEF IInv, Moves, Ending, Demos, Leaves, Leaving, There, Arrives
  <2>9. RefusedLeavesAlone'
    BY <1>1, <1>4, <2>1
       DEF IInv, Asks, Unasked, Untouched, RefusedLeavesAlone
  <2>10. SuccessIsWhole' /\ JournalWhereAsked'
    BY <1>1, <1>4, <2>1, StillRunning
  <2>11. QED
    BY <2>2, <2>3, <2>4, <2>5, <2>6, <2>7, <2>8, <2>9, <2>10 DEF IInv
<1>5. QED
  BY <1>2, <1>3, <1>4

LEMMA SizesSound == IInv /\ Sizes => IInv'
<1> SUFFICES ASSUME IInv, Sizes  PROVE IInv'
  OBVIOUS
<1>1. pc = "sizes" /\ ~Follows /\ UNCHANGED <<cmd, fsys, prompts, hist>> /\ Prog' = Prog
  BY DEF Sizes, Follows, Prog
<1>2. /\ Words(lib, 0) /\ lib.installed = FALSE
      /\ Words(Message("ignore"), 0) /\ Message("ignore").installed = FALSE
  BY <1>1, MessageSaid
<1> DEFINE apart == "journal" \in open
           size == IF opt.size = 0 THEN Blocks[opt.host] ELSE opt.size
           start == IF apart THEN opt.start ELSE 0
           len == IF opt.len # 0 THEN opt.len
                  ELSE IF apart THEN Blocks[opt.journal] - start - 1 ELSE DefaultLen
           warned == IF ~apart /\ opt.start > 0 THEN Message("ignore") ELSE lib
<1>3. Words(warned, 0) /\ warned.installed = FALSE
      /\ Words(Throw(warned, "cancel"), 0) /\ Throw(warned, "cancel").installed = FALSE
  <2>1. warned = lib \/ warned = Message("ignore")
    OBVIOUS
  <2> HIDE DEF warned
  <2>2. QED
    BY <1>2, <2>1, ThrowWords
<1>4. \/ Abandon(Message("cancel"), {"host"}, 255) /\ UNCHANGED opt
      \/ Abandon(Throw(warned, "cancel"), {"journal", "host"}, 255) /\ UNCHANGED opt
      \/ /\ opt' = [opt EXCEPT !.size = size, !.start = start, !.len = len]
         /\ lib' = warned /\ pc' = "ask" /\ UNCHANGED <<open, handles, exit>>
  BY DEF Sizes
<1> HIDE DEF warned, size, start, len
<1>5. CASE Abandon(Message("cancel"), {"host"}, 255) /\ UNCHANGED opt
  BY <1>1, <1>5, MessageSound
<1>6. CASE Abandon(Throw(warned, "cancel"), {"journal", "host"}, 255) /\ UNCHANGED opt
  <2>1. UNCHANGED <<cmd, opt, fsys, prompts, hist>> /\ 255 \in {1, 254, 255}
    BY <1>1, <1>6
  <2> DEFINE m == Throw(warned, "cancel")
  <2>2. Silent(m) /\ Abandon(m, {"journal", "host"}, 255)
    BY <1>3, <1>6 DEF Silent
  <2> HIDE DEF m
  <2>3. QED
    BY <2>1, <2>2, AbandonSound
<1>7. ASSUME opt' = [opt EXCEPT !.size = size, !.start = start, !.len = len],
             lib' = warned, pc' = "ask", UNCHANGED <<open, handles, exit>>
      PROVE  IInv'
  <2>1. DOMAIN opt = DOMAIN Options /\ Prog = "mkfs"
    BY <1>1 DEF IInv, Typed, Places
  <2>2. /\ DOMAIN opt' = DOMAIN opt /\ opt'.journal = opt.journal /\ opt'.new = opt.new
        /\ opt'.host = opt.host /\ opt'.dst = opt.dst
    BY <1>7, <2>1 DEF Options
  <2>3. /\ lib' = warned /\ pc' = "ask" /\ UNCHANGED <<open, handles, exit>>
    BY <1>7
  <2>4. Typed'
    BY <1>1, <1>3, <2>1, <2>2, <2>3
       DEF IInv, Typed, Stages, Untouched, Unasked, Ending, Prog
  <2>5. Places'
    BY <1>1, <1>3, <2>1, <2>2, <2>3
       DEF IInv, Places, Changers
  <2>6. Present'
    BY <1>1, <1>3, <2>1, <2>2, <2>3
       DEF IInv, Present, Demos
  <2>7. Gauged'
    BY <1>1, <1>3, <2>1, <2>2, <2>3
       DEF IInv, Gauged, Follows
  <2>8. Asks'
    BY <1>1, <1>3, <2>1, <2>2, <2>3
       DEF IInv, Asks, Unasked, Untouched, Ending, Changers, Demos
  <2>9. Whole'
    BY <1>1, <1>3, <2>1, <2>2, <2>3
       DEF IInv, Whole, Ending, Changers
  <2>10. Moves'
    BY <1>1, <1>3, <2>1, <2>2, <2>3
       DEF IInv, Moves, Ending, Demos, Leaves, Leaving, There, Arrives
  <2>11. RefusedLeavesAlone'
    BY <1>1, <1>3, <2>1, <2>2, <2>3
       DEF IInv, Asks, Unasked, Untouched, RefusedLeavesAlone
  <2>12. SuccessIsWhole' /\ JournalWhereAsked'
    BY <1>1, <1>3, <2>1, <2>2, <2>3, StillRunning
  <2>13. QED
    BY <2>4, <2>5, <2>6, <2>7, <2>8, <2>9, <2>10, <2>11, <2>12 DEF IInv
<1>8. QED
  BY <1>4, <1>5, <1>6, <1>7

LEMMA OpenFsSound == IInv /\ OpenFs => IInv'
<1> SUFFICES ASSUME IInv, OpenFs  PROVE IInv'
  OBVIOUS
<1>1. pc = "fs" /\ ~Follows /\ UNCHANGED <<cmd, opt, fsys, prompts, hist>> /\ Prog' = Prog
  BY DEF OpenFs, Follows, Prog
<1>2. \/ \E closed, m : /\ m \in {Message("cancel"), Throw(Message("cancel"), "cancel")}
                        /\ Abandon(m, closed, 255)
      \/ Opens /\ handles' = {"fs"} /\ pc' = AfterFs /\ UNCHANGED <<open, lib, exit>>
  BY DEF OpenFs
<1>3. ASSUME NEW closed, NEW m \in {Message("cancel"), Throw(Message("cancel"), "cancel")},
             Abandon(m, closed, 255)
      PROVE  IInv'
  <2>1. Words(Message("cancel"), 0) /\ Message("cancel").installed = FALSE
    BY <1>1, MessageSaid
  <2>2. Silent(Message("cancel")) /\ Silent(Throw(Message("cancel"), "cancel"))
    BY <2>1, ThrowWords DEF Silent
  <2>3. Silent(m)
    BY <1>3, <2>2
  <2>4. QED
    BY <1>1, <1>3, <2>3, AbandonSound
<1>4. CASE Opens /\ handles' = {"fs"} /\ pc' = AfterFs /\ UNCHANGED <<open, lib, exit>>
  <2>1. /\ pc' \in {"judge", "dst", "work", "gauge", "object"}
        /\ (pc' = "judge" => Prog \in {"tunefs", "resizefs"}) /\ (pc' = "dst" => Prog = "cpfs")
        /\ (pc' = "work" => Prog = "fsck") /\ (pc' = "gauge" => Prog = "traverse")
    BY <1>4 DEF AfterFs
  <2>2. opt.host = "host" /\ (Prog \in {"tunefs", "resizefs"} => fsys.state = "clean")
    BY <1>4 DEF Opens
  <2>3. handles' = {"fs"} /\ UNCHANGED <<open, lib, exit>>
    BY <1>4
  <2>4. Typed'
    BY <1>1, <2>1, <2>2, <2>3
       DEF IInv, Typed, Stages, Untouched, Unasked, Ending, Prog
  <2>5. Places'
    BY <1>1, <2>1, <2>2, <2>3
       DEF IInv, Places, Changers
  <2>6. Present'
    BY <1>1, <2>1, <2>2, <2>3
       DEF IInv, Present, Demos
  <2>7. Gauged'
    BY <1>1, <2>1, <2>2, <2>3
       DEF IInv, Gauged, Follows
  <2>8. Asks'
    BY <1>1, <2>1, <2>2, <2>3
       DEF IInv, Asks, Unasked, Untouched, Ending, Changers, Demos
  <2>9. Whole'
    BY <1>1, <2>1, <2>2, <2>3
       DEF IInv, Whole, Ending, Changers
  <2>10. Moves'
    BY <1>1, <2>1, <2>2, <2>3
       DEF IInv, Moves, Ending, Demos, Leaves, Leaving, There, Arrives
  <2>11. RefusedLeavesAlone'
    BY <1>1, <2>1, <2>2, <2>3
       DEF IInv, Asks, Unasked, Untouched, RefusedLeavesAlone
  <2>12. SuccessIsWhole' /\ JournalWhereAsked'
    BY <1>1, <2>1, <2>2, <2>3, StillRunning
  <2>13. QED
    BY <2>4, <2>5, <2>6, <2>7, <2>8, <2>9, <2>10, <2>11, <2>12 DEF IInv
<1>5. QED
  BY <1>2, <1>3, <1>4

LEMMA JudgeTuneSound == IInv /\ JudgeTune => IInv'
<1> SUFFICES ASSUME IInv, JudgeTune  PROVE IInv'
  OBVIOUS
<1>1. /\ pc = "judge" /\ Prog = "tunefs" /\ ~Follows /\ Prog' = Prog
      /\ UNCHANGED <<cmd, opt, fsys, prompts, hist>>
  BY DEF JudgeTune, Follows, Prog
<1>2. \/ Abandon(Message("cancel"), {"journal", "host"}, 255)
      \/ OldRelocated = Relocated /\ pc' = "ask" /\ UNCHANGED <<open, handles, lib, exit>>
  BY DEF JudgeTune
<1>3. CASE Abandon(Message("cancel"), {"journal", "host"}, 255)
  BY <1>1, <1>3, MessageSound
<1>4. CASE OldRelocated = Relocated /\ pc' = "ask" /\ UNCHANGED <<open, handles, lib, exit>>
  <2>1. Typed'
    BY <1>1, <1>4
       DEF IInv, Typed, Stages, Untouched, Unasked, Ending, Prog
  <2>2. Places'
    BY <1>1, <1>4
       DEF IInv, Places, Changers
  <2>3. Present'
    BY <1>1, <1>4
       DEF IInv, Present, Demos
  <2>4. Gauged'
    BY <1>1, <1>4
       DEF IInv, Gauged, Follows
  <2>5. Asks'
    BY <1>1, <1>4
       DEF IInv, Asks, Unasked, Untouched, Ending, Changers, Demos
  <2>6. Whole'
    BY <1>1, <1>4
       DEF IInv, Whole, Ending, Changers
  <2>7. Moves'
    BY <1>1, <1>4
       DEF IInv, Moves, Ending, Demos, Leaves, Leaving, There, Arrives
  <2>8. RefusedLeavesAlone'
    BY <1>1, <1>4
       DEF IInv, Asks, Unasked, Untouched, RefusedLeavesAlone
  <2>9. SuccessIsWhole' /\ JournalWhereAsked'
    BY <1>1, <1>4, StillRunning
  <2>10. QED
    BY <2>1, <2>2, <2>3, <2>4, <2>5, <2>6, <2>7, <2>8, <2>9 DEF IInv
<1>5. QED
  BY <1>2, <1>3, <1>4

LEMMA JudgeResizeSound == IInv /\ JudgeResize => IInv'
<1> SUFFICES ASSUME IInv, JudgeResize  PROVE IInv'
  OBVIOUS
<1>1. /\ pc = "judge" /\ Prog = "resizefs" /\ ~Follows /\ Prog' = Prog
      /\ UNCHANGED <<cmd, fsys, prompts, hist>>
  BY DEF JudgeResize, Follows, Prog
<1>2. \/ Abandon(Message("cancel"), {"fs", "journal", "host"}, 255) /\ UNCHANGED opt
      \/ /\ \E size : opt' = [opt EXCEPT !.size = size, !.relative = FALSE]
         /\ pc' = "ask" /\ UNCHANGED <<open, handles, lib, exit>>
  BY DEF JudgeResize
<1>3. CASE Abandon(Message("cancel"), {"fs", "journal", "host"}, 255) /\ UNCHANGED opt
  BY <1>1, <1>3, MessageSound
<1>4. ASSUME NEW size, opt' = [opt EXCEPT !.size = size, !.relative = FALSE],
             pc' = "ask", UNCHANGED <<open, handles, lib, exit>>
      PROVE  IInv'
  <2>1. DOMAIN opt = DOMAIN Options
    BY DEF IInv, Typed
  <2>2. /\ DOMAIN opt' = DOMAIN opt /\ opt'.journal = opt.journal /\ opt'.new = opt.new
        /\ opt'.host = opt.host /\ opt'.dst = opt.dst
    BY <1>4, <2>1 DEF Options
  <2>3. pc' = "ask" /\ UNCHANGED <<open, handles, lib, exit>>
    BY <1>4
  <2>4. Typed'
    BY <1>1, <2>1, <2>2, <2>3
       DEF IInv, Typed, Stages, Untouched, Unasked, Ending, Prog
  <2>5. Places'
    BY <1>1, <2>1, <2>2, <2>3
       DEF IInv, Places, Changers
  <2>6. Present'
    BY <1>1, <2>1, <2>2, <2>3
       DEF IInv, Present, Demos
  <2>7. Gauged'
    BY <1>1, <2>1, <2>2, <2>3
       DEF IInv, Gauged, Follows
  <2>8. Asks'
    BY <1>1, <2>1, <2>2, <2>3
       DEF IInv, Asks, Unasked, Untouched, Ending, Changers, Demos
  <2>9. Whole'
    BY <1>1, <2>1, <2>2, <2>3
       DEF IInv, Whole, Ending, Changers
  <2>10. Moves'
    BY <1>1, <2>1, <2>2, <2>3
       DEF IInv, Moves, Ending, Demos, Leaves, Leaving, There, Arrives
  <2>11. RefusedLeavesAlone'
    BY <1>1, <2>1, <2>2, <2>3
       DEF IInv, Asks, Unasked, Untouched, RefusedLeavesAlone
  <2>12. SuccessIsWhole' /\ JournalWhereAsked'
    BY <1>1, <2>1, <2>2, <2>3, StillRunning
  <2>13. QED
    BY <2>4, <2>5, <2>6, <2>7, <2>8, <2>9, <2>10, <2>11, <2>12 DEF IInv
<1>5. QED
  BY <1>2, <1>3, <1>4

LEMMA OpenDestinationSound == IInv /\ OpenDestination => IInv'
<1> SUFFICES ASSUME IInv, OpenDestination  PROVE IInv'
  OBVIOUS
<1>1. /\ pc = "dst" /\ ~Follows /\ Prog' = Prog
      /\ UNCHANGED <<cmd, opt, fsys, prompts, hist>>
  BY DEF OpenDestination, Follows, Prog
<1>2. \/ open' = open \cup {"dst"} /\ pc' = "ask" /\ UNCHANGED <<handles, lib, exit>>
      \/ Abandon(Message("cancel"), {"fs", "journal", "host"}, 255)
  BY DEF OpenDestination
<1>3. CASE Abandon(Message("cancel"), {"fs", "journal", "host"}, 255)
  BY <1>1, <1>3, MessageSound
<1>4. CASE open' = open \cup {"dst"} /\ pc' = "ask" /\ UNCHANGED <<handles, lib, exit>>
  <2>1. Prog = "cpfs"
    BY <1>1 DEF IInv, Places
  <2>2. Typed'
    BY <1>1, <1>4, <2>1
       DEF IInv, Typed, Stages, Untouched, Unasked, Ending, Prog
  <2>3. Places'
    BY <1>1, <1>4, <2>1
       DEF IInv, Places, Changers
  <2>4. Present'
    BY <1>1, <1>4, <2>1
       DEF IInv, Present, Demos
  <2>5. Gauged'
    BY <1>1, <1>4, <2>1
       DEF IInv, Gauged, Follows
  <2>6. Asks'
    BY <1>1, <1>4, <2>1
       DEF IInv, Asks, Unasked, Untouched, Ending, Changers, Demos
  <2>7. Whole'
    BY <1>1, <1>4, <2>1
       DEF IInv, Whole, Ending, Changers
  <2>8. Moves'
    BY <1>1, <1>4, <2>1
       DEF IInv, Moves, Ending, Demos, Leaves, Leaving, There, Arrives
  <2>9. RefusedLeavesAlone'
    BY <1>1, <1>4, <2>1
       DEF IInv, Asks, Unasked, Untouched, RefusedLeavesAlone
  <2>10. SuccessIsWhole' /\ JournalWhereAsked'
    BY <1>1, <1>4, <2>1, StillRunning
  <2>11. QED
    BY <2>2, <2>3, <2>4, <2>5, <2>6, <2>7, <2>8, <2>9, <2>10 DEF IInv
<1>5. QED
  BY <1>2, <1>3, <1>4

-----------------------------------------------------------------------------
LEMMA AskSound == IInv /\ Ask => IInv'
<1> SUFFICES ASSUME IInv, Ask  PROVE IInv'
  OBVIOUS
<1>1. pc = "ask" /\ ~Follows /\ UNCHANGED <<cmd, opt, fsys>> /\ Prog' = Prog
  BY DEF Ask, Follows, Prog
<1>2. Prog \in Changers /\ hist.wrote = {} /\ hist.unsynced \in BOOLEAN /\ Prog \notin Demos
      /\ DOMAIN hist = {"before", "answer", "work", "wrote", "phase", "unsynced"}
  BY <1>1 DEF IInv, Places, Asks, Untouched, Unasked, Typed, Changers, Demos
<1>3. Silent(lib)
  BY <1>1, MessageSaid DEF Silent
<1>4. \/ /\ prompts < 3 /\ prompts' = Asked
         /\ UNCHANGED <<hist, pc, open, handles, lib, exit>>
      \/ \E answer \in {"y", "n", "none"} :
           /\ hist' = [hist EXCEPT !.answer = answer] /\ prompts' = prompts
           /\ IF Refuses(answer) THEN Abandon(lib, WhenRefused, 255)
              ELSE pc' = AfterAsk /\ UNCHANGED <<open, handles, lib, exit>>
  BY DEF Ask
<1>5. CASE prompts < 3 /\ prompts' = Asked /\ UNCHANGED <<hist, pc, open, handles, lib, exit>>
  <2>1. prompts' \in 0 .. 3
    BY <1>5 DEF Asked, IInv, Typed
  <2>2. UNCHANGED <<hist, pc, open, handles, lib, exit>>
    BY <1>5
  <2>3. Typed'
    BY <1>1, <2>1, <2>2
       DEF IInv, Typed, Stages, Untouched, Unasked, Ending, Prog
  <2>4. Places'
    BY <1>1, <2>1, <2>2
       DEF IInv, Places, Changers
  <2>5. Present'
    BY <1>1, <2>1, <2>2
       DEF IInv, Present, Demos
  <2>6. Gauged'
    BY <1>1, <2>1, <2>2
       DEF IInv, Gauged, Follows
  <2>7. Asks'
    BY <1>1, <2>1, <2>2
       DEF IInv, Asks, Unasked, Untouched, Ending, Changers, Demos
  <2>8. Whole'
    BY <1>1, <2>1, <2>2
       DEF IInv, Whole, Ending, Changers
  <2>9. Moves'
    BY <1>1, <2>1, <2>2
       DEF IInv, Moves, Ending, Demos, Leaves, Leaving, There, Arrives
  <2>10. RefusedLeavesAlone'
    BY <1>1, <2>1, <2>2
       DEF IInv, Asks, Unasked, Untouched, RefusedLeavesAlone
  <2>11. SuccessIsWhole' /\ JournalWhereAsked'
    BY <1>1, <2>1, <2>2, StillRunning
  <2>12. QED
    BY <2>3, <2>4, <2>5, <2>6, <2>7, <2>8, <2>9, <2>10, <2>11 DEF IInv
<1>6. ASSUME NEW answer \in {"y", "n", "none"}, hist' = [hist EXCEPT !.answer = answer],
             prompts' = prompts, Refuses(answer), Abandon(lib, WhenRefused, 255)
      PROVE  IInv'
  <2>1. /\ DOMAIN hist' = DOMAIN hist /\ hist'.answer = answer /\ answer # "y"
        /\ hist'.wrote = {} /\ hist'.unsynced = hist.unsynced
    BY <1>2, <1>6 DEF Refuses
  <2>2. /\ Words(lib', 0) /\ lib'.installed = FALSE /\ Exit(255)
        /\ open' \subseteq open /\ handles' \subseteq handles
    BY <1>3, <1>6, AbandonSaid DEF Silent
  <2>3. /\ cmd' = cmd /\ opt' = opt /\ prompts' = prompts /\ DOMAIN fsys' = DOMAIN fsys
        /\ hist'.answer \in {"none", "y", "n"} /\ hist'.wrote \subseteq Devices
        /\ 255 \in {0, 1, 254, 255} /\ 255 # 0 /\ Prog \in Changers
    BY <1>1, <1>2, <1>6, <2>1
  <2>4. QED
    BY <2>1, <2>2, <2>3, EndSound
<1>7. ASSUME NEW answer \in {"y", "n", "none"}, hist' = [hist EXCEPT !.answer = answer],
             prompts' = prompts, ~Refuses(answer),
             pc' = AfterAsk, UNCHANGED <<open, handles, lib, exit>>
      PROVE  IInv'
  <2>1. /\ DOMAIN hist' = DOMAIN hist /\ hist'.answer = "y" /\ hist'.work = hist.work
        /\ hist'.wrote = {} /\ hist'.unsynced = hist.unsynced /\ hist'.before = hist.before
    BY <1>2, <1>7 DEF Refuses
  <2>2. prompts' = prompts /\ UNCHANGED <<open, handles, lib, exit>>
        /\ pc' \in {"prepare", "gauge"} /\ (pc' = "prepare" => Prog = "tunefs")
    BY <1>7 DEF AfterAsk
  <2>3. Typed'
    BY <1>1, <1>2, <2>1, <2>2
       DEF IInv, Typed, Stages, Untouched, Unasked, Ending, Prog
  <2>4. Places'
    BY <1>1, <1>2, <2>1, <2>2
       DEF IInv, Places, Changers
  <2>5. Present'
    BY <1>1, <1>2, <2>1, <2>2
       DEF IInv, Present, Demos
  <2>6. Gauged'
    BY <1>1, <1>2, <2>1, <2>2
       DEF IInv, Gauged, Follows
  <2>7. Asks'
    BY <1>1, <1>2, <2>1, <2>2
       DEF IInv, Asks, Unasked, Untouched, Ending, Changers, Demos
  <2>8. Whole'
    BY <1>1, <1>2, <2>1, <2>2
       DEF IInv, Whole, Ending, Changers
  <2>9. Moves'
    BY <1>1, <1>2, <2>1, <2>2
       DEF IInv, Moves, Ending, Demos, Leaves, Leaving, There, Arrives
  <2>10. RefusedLeavesAlone'
    BY <1>1, <1>2, <2>1, <2>2
       DEF IInv, Asks, Unasked, Untouched, RefusedLeavesAlone
  <2>11. SuccessIsWhole' /\ JournalWhereAsked'
    BY <1>1, <1>2, <2>1, <2>2, StillRunning
  <2>12. QED
    BY <2>3, <2>4, <2>5, <2>6, <2>7, <2>8, <2>9, <2>10, <2>11 DEF IInv
<1>8. QED
  BY <1>4, <1>5, <1>6, <1>7

LEMMA PrepareSound == IInv /\ Prepare => IInv'
<1> SUFFICES ASSUME IInv, Prepare  PROVE IInv'
  OBVIOUS
<1>1. /\ pc = "prepare" /\ ~Follows /\ Prog' = Prog /\ exit' = exit
      /\ UNCHANGED <<cmd, open, handles, lib, fsys, prompts, hist>>
  BY DEF Prepare, Follows, Prog
<1>2. Prog = "tunefs" /\ DOMAIN opt = DOMAIN Options /\ fsys = hist.before
      /\ opt.host = "host" /\ hist.wrote = {}
  BY <1>1 DEF IInv, Places, Typed, Asks, Untouched, Whole, Changers, Demos
<1> DEFINE start == IF Target = "host" /\ opt.start = 0 THEN fsys.start ELSE opt.start
           len == IF opt.len # 0 THEN opt.len
                  ELSE IF Target = "host" THEN DefaultLen ELSE MaxLen(Target, start)
           fits == IF Target = "host" /\ len > MaxLen("host", start)
                   THEN MaxLen("host", start) ELSE len
<1>3. opt' = [opt EXCEPT !.start = start, !.len = fits]
      /\ pc' = IF NeedTuning THEN "gauge" ELSE "label"
  BY DEF Prepare
<1> HIDE DEF start, len, fits
<1>4. /\ DOMAIN opt' = DOMAIN opt /\ opt'.journal = opt.journal /\ opt'.new = opt.new
      /\ opt'.host = opt.host /\ opt'.dst = opt.dst
  BY <1>2, <1>3 DEF Options
<1>5. hist.before.dev = "host" /\ opt.new \notin {"", "host"} => NeedTuning
  BY <1>2 DEF NeedTuning, NewRelocated, Relocated
<1>6. pc' \in {"gauge", "label"} /\ (pc' = "label" => ~Leaves')
  BY <1>1, <1>2, <1>3, <1>4, <1>5 DEF Leaves, Leaving
<1>7. Typed'
  BY <1>1, <1>2, <1>4, <1>6
     DEF IInv, Typed, Stages, Untouched, Unasked, Ending, Prog
<1>8. Places'
  BY <1>1, <1>2, <1>4, <1>6
     DEF IInv, Places, Changers
<1>9. Present'
  BY <1>1, <1>2, <1>4, <1>6
     DEF IInv, Present, Demos
<1>10. Gauged'
  BY <1>1, <1>2, <1>4, <1>6
     DEF IInv, Gauged, Follows
<1>11. Asks'
  BY <1>1, <1>2, <1>4, <1>6
     DEF IInv, Asks, Unasked, Untouched, Ending, Changers, Demos
<1>12. Whole'
  BY <1>1, <1>2, <1>4, <1>6
     DEF IInv, Whole, Ending, Changers
<1>13. Moves'
  BY <1>1, <1>2, <1>4, <1>6
     DEF IInv, Moves, Ending, Demos, Leaves, Leaving, There, Arrives
<1>14. RefusedLeavesAlone'
  BY <1>1, <1>2, <1>4, <1>6
     DEF IInv, Asks, Unasked, Untouched, RefusedLeavesAlone
<1>15. SuccessIsWhole' /\ JournalWhereAsked'
  BY <1>1, <1>2, <1>4, <1>6, StillRunning
<1>16. QED
  BY <1>7, <1>8, <1>9, <1>10, <1>11, <1>12, <1>13, <1>14, <1>15 DEF IInv

(* A gauge is set up, or there is no memory for one, or none at all.       *)
LEMMA GaugeUpSound ==
  ASSUME IInv, NEW name, NEW next, NEW held, GaugeUp(name, next, held), lib.installed = FALSE,
         pc \in {"gauge", "syncing"},
         ASSUME Words(lib', 0), lib'.installed = TRUE, pc' = next,
                UNCHANGED <<cmd, opt, open, handles, fsys, prompts, exit, hist>>
         PROVE  IInv'
  PROVE  IInv'
<1>1. UNCHANGED <<cmd, opt, fsys, prompts, hist>> /\ Prog' = Prog
  BY DEF GaugeUp, Prog
<1>2. Words(lib, 0)
  BY DEF IInv, Gauged
<1>3. \/ /\ lib' = SetGauge(GaugeCreate(lib, name), TRUE)
         /\ pc' = next /\ UNCHANGED <<open, handles, exit>>
      \/ \E m \in OutOfMemory(lib) : Abandon(m, held, 255)
      \/ pc' = "crashed" /\ UNCHANGED <<open, handles, lib, exit>>
  BY DEF GaugeUp
<1>4. CASE /\ lib' = SetGauge(GaugeCreate(lib, name), TRUE)
           /\ pc' = next /\ UNCHANGED <<open, handles, exit>>
  <2>1. Words(lib', 0) /\ lib'.installed = TRUE
    BY <1>2, <1>4, UpWords
  <2>2. QED
    BY <1>1, <1>4, <2>1
<1>5. ASSUME NEW m \in OutOfMemory(lib), Abandon(m, held, 255)  PROVE IInv'
  <2>1. Silent(m)
    BY <1>2, ShortWords DEF Silent
  <2>2. QED
    BY <1>1, <1>5, <2>1, AbandonSound
<1>6. CASE pc' = "crashed" /\ UNCHANGED <<open, handles, lib, exit>>
  <2>1. lib' = lib /\ Follows' = FALSE
    BY <1>6 DEF Follows
  <2>2. lib.installed = FALSE /\ pc \in {"gauge", "syncing"} /\ exit = -1
    BY DEF IInv, Typed
  <2>3. Typed'
    BY <1>1, <1>2, <1>6, <2>1, <2>2
       DEF IInv, Typed, Stages, Untouched, Unasked, Ending, Prog
  <2>4. Places'
    BY <1>1, <1>2, <1>6, <2>1, <2>2
       DEF IInv, Places, Changers
  <2>5. Present'
    BY <1>1, <1>2, <1>6, <2>1, <2>2
       DEF IInv, Present, Demos
  <2>6. Gauged'
    BY <1>1, <1>2, <1>6, <2>1, <2>2
       DEF IInv, Gauged, Follows
  <2>7. Asks'
    BY <1>1, <1>2, <1>6, <2>1, <2>2
       DEF IInv, Asks, Unasked, Untouched, Ending, Changers, Demos
  <2>8. Whole'
    BY <1>1, <1>2, <1>6, <2>1, <2>2
       DEF IInv, Whole, Ending, Changers
  <2>9. Moves'
    BY <1>1, <1>2, <1>6, <2>1, <2>2
       DEF IInv, Moves, Ending, Demos, Leaves, Leaving, There, Arrives
  <2>10. RefusedLeavesAlone'
    BY <1>1, <1>2, <1>6, <2>1, <2>2
       DEF IInv, Asks, Unasked, Untouched, RefusedLeavesAlone
  <2>11. SuccessIsWhole' /\ JournalWhereAsked'
    BY <1>1, <1>2, <1>6, <2>1, <2>2, StillRunning
  <2>12. QED
    BY <2>3, <2>4, <2>5, <2>6, <2>7, <2>8, <2>9, <2>10, <2>11 DEF IInv
<1>7. QED
  BY <1>3, <1>4, <1>5, <1>6

LEMMA StartGaugeSound == IInv /\ StartGauge => IInv'
<1> SUFFICES ASSUME IInv, StartGauge  PROVE IInv'
  OBVIOUS
<1> DEFINE name == IF Prog = "traverse" THEN "traversing" ELSE ""
<1>1. pc = "gauge" /\ ~Follows /\ GaugeUp(name, "work", Held)
  BY DEF StartGauge, Follows
<1>2. lib.installed = FALSE
  BY <1>1, MessageSaid
<1>3. ASSUME Words(lib', 0), lib'.installed = TRUE, pc' = "work",
             UNCHANGED <<cmd, opt, open, handles, fsys, prompts, exit, hist>>
      PROVE  IInv'
  <2>1. Prog' = Prog /\ Follows'
    BY <1>1, <1>3 DEF Prog, Follows, IInv, Places, Changers
  <2>2. Typed'
    BY <1>1, <1>3, <2>1
       DEF IInv, Typed, Stages, Untouched, Unasked, Ending, Prog
  <2>3. Places'
    BY <1>1, <1>3, <2>1
       DEF IInv, Places, Changers
  <2>4. Present'
    BY <1>1, <1>3, <2>1
       DEF IInv, Present, Demos
  <2>5. Gauged'
    BY <1>1, <1>3, <2>1
       DEF IInv, Gauged, Follows
  <2>6. Asks'
    BY <1>1, <1>3, <2>1
       DEF IInv, Asks, Unasked, Untouched, Ending, Changers, Demos
  <2>7. Whole'
    BY <1>1, <1>3, <2>1
       DEF IInv, Whole, Ending, Changers
  <2>8. Moves'
    BY <1>1, <1>3, <2>1
       DEF IInv, Moves, Ending, Demos, Leaves, Leaving, There, Arrives
  <2>9. RefusedLeavesAlone'
    BY <1>1, <1>3, <2>1
       DEF IInv, Asks, Unasked, Untouched, RefusedLeavesAlone
  <2>10. SuccessIsWhole' /\ JournalWhereAsked'
    BY <1>1, <1>3, <2>1, StillRunning
  <2>11. QED
    BY <2>2, <2>3, <2>4, <2>5, <2>6, <2>7, <2>8, <2>9, <2>10 DEF IInv
<1> HIDE DEF name
<1>4. QED
  BY <1>1, <1>2, <1>3, GaugeUpSound

LEMMA SyncGaugeSound == IInv /\ SyncGauge => IInv'
<1> SUFFICES ASSUME IInv, SyncGauge  PROVE IInv'
  OBVIOUS
<1> DEFINE next == IF Prog = "cpfs" THEN "close" ELSE "sync"
<1>1. pc = "syncing" /\ ~Follows /\ GaugeUp("syncing", next, Held)
  BY DEF SyncGauge, Follows
<1>2. lib.installed = FALSE
  BY <1>1, MessageSaid
<1>3. ASSUME Words(lib', 0), lib'.installed = TRUE, pc' = next,
             UNCHANGED <<cmd, opt, open, handles, fsys, prompts, exit, hist>>
      PROVE  IInv'
  <2>1. /\ Prog' = Prog /\ Prog \in Changers /\ (Prog = "cpfs" => pc' = "close")
        /\ (Prog # "cpfs" => pc' = "sync")
    BY <1>1, <1>3 DEF Prog, IInv, Places
  <2>2. Follows'
    BY <2>1 DEF Follows
  <2>3. /\ UNCHANGED <<cmd, opt, open, handles, fsys, prompts, exit, hist>>
        /\ Words(lib', 0) /\ lib'.installed = TRUE
        /\ exit = -1
    BY <1>1, <1>3 DEF IInv, Typed
  <2>4. Typed'
    BY <1>1, <2>1, <2>2, <2>3
       DEF IInv, Typed, Stages, Untouched, Unasked, Ending, Prog
  <2>5. Places'
    BY <1>1, <2>1, <2>2, <2>3
       DEF IInv, Places, Changers
  <2>6. Present'
    BY <1>1, <2>1, <2>2, <2>3
       DEF IInv, Present, Demos
  <2>7. Gauged'
    BY <1>1, <2>1, <2>2, <2>3
       DEF IInv, Gauged, Follows
  <2>8. Asks'
    BY <1>1, <2>1, <2>2, <2>3
       DEF IInv, Asks, Unasked, Untouched, Ending, Changers, Demos
  <2>9. Whole'
    BY <1>1, <2>1, <2>2, <2>3
       DEF IInv, Whole, Ending, Changers, LeftAs
  <2>10. Moves'
    BY <1>1, <2>1, <2>2, <2>3
       DEF IInv, Moves, Ending, Demos, Leaves, Leaving, There, Arrives
  <2>11. RefusedLeavesAlone'
    BY <1>1, <2>1, <2>2, <2>3
       DEF IInv, Asks, Unasked, Untouched, RefusedLeavesAlone
  <2>12. SuccessIsWhole' /\ JournalWhereAsked'
    BY <1>1, <2>1, <2>2, <2>3, StillRunning
  <2>13. QED
    BY <2>4, <2>5, <2>6, <2>7, <2>8, <2>9, <2>10, <2>11, <2>12 DEF IInv
<1> HIDE DEF next
<1>4. QED
  BY <1>1, <1>2, <1>3, GaugeUpSound

-----------------------------------------------------------------------------
(* At the work a program that changes a filesystem has its yes, its gauge, *)
(* and has written nothing.                                                *)
LEMMA AtWork ==
  ASSUME IInv, pc = "work", Prog \in Changers
  PROVE  /\ hist.answer = "y" /\ fsys = hist.before /\ hist.wrote = {}
         /\ hist.unsynced = FALSE /\ exit = -1 /\ Words(lib, 0) /\ lib.installed = TRUE
         /\ DOMAIN hist = {"before", "answer", "work", "wrote", "phase", "unsynced"}
         /\ DOMAIN fsys = {"dev", "start", "len", "state", "format", "size", "bs", "unit"}
         /\ opt.host \in Devices /\ Prog \notin Demos /\ Prog # "fsck"
         /\ opt.journal \in Devices \cup {""} /\ opt.new \in Devices \cup {""}
<1>1. Prog # "fsck" /\ Prog \notin Demos
  BY DEF Changers, Demos
<1>2. Follows
  BY <1>1 DEF Follows
<1>3. Words(lib, 0) /\ lib.installed = TRUE
  BY <1>2 DEF IInv, Gauged
<1>4. hist.unsynced = FALSE
  BY DEF IInv, Asks, Typed
<1>5. hist.answer = "y" /\ fsys = hist.before /\ hist.wrote = {}
  BY <1>1 DEF IInv, Asks, Untouched
<1>6. opt.host \in Devices /\ opt.journal \in Devices \cup {""} /\ opt.new \in Devices \cup {""}
  BY <1>1 DEF IInv, Present
<1>7. exit = -1
  BY DEF IInv, Typed
<1>8. QED
  BY <1>1, <1>3, <1>4, <1>5, <1>6, <1>7 DEF IInv, Typed

LEMMA ProgressSound ==
  ASSUME IInv, pc = "work", Prog \in Changers, Progress, UNCHANGED <<cmd, opt, prompts>>
  PROVE  IInv'
<1>1. /\ UNCHANGED <<cmd, opt, prompts, pc, open, handles, fsys, exit>> /\ Prog' = Prog
      /\ hist' = [hist EXCEPT !.phase = @ + 1]
      /\ lib' = PhaseEnds(PhaseStarts(lib, Phases[hist.phase + 1]))
  BY DEF Progress, Prog
<1>2. /\ DOMAIN hist' = DOMAIN hist /\ hist'.before = hist.before /\ hist'.answer = hist.answer
      /\ hist'.work = hist.work /\ hist'.wrote = hist.wrote /\ hist'.unsynced = hist.unsynced
  BY <1>1, AtWork
<1> DEFINE m == PhaseStarts(lib, Phases[hist.phase + 1])
<1>3. Words(lib, 0) /\ lib.installed = TRUE
  BY AtWork
<1>4. Words(m, 0) /\ m.installed = TRUE
  BY <1>3, PhaseWords
<1> HIDE DEF m
<1>5. Words(PhaseEnds(m), 0) /\ PhaseEnds(m).installed = TRUE
  BY <1>4, PhaseWords
<1>6. Words(lib', 0) /\ lib'.installed = TRUE
  BY <1>1, <1>5 DEF m
<1>7. UNCHANGED <<cmd, opt, prompts, pc, open, handles, fsys, exit>> /\ Prog' = Prog
      /\ pc = "work" /\ Prog # "fsck"
  BY <1>1, AtWork
<1>8. Typed'
  BY <1>2, <1>6, <1>7
     DEF IInv, Typed, Stages, Untouched, Unasked, Ending, Prog
<1>9. Places'
  BY <1>2, <1>6, <1>7
     DEF IInv, Places, Changers
<1>10. Present'
  BY <1>2, <1>6, <1>7
     DEF IInv, Present, Demos
<1>11. Gauged'
  BY <1>2, <1>6, <1>7
     DEF IInv, Gauged, Follows
<1>12. Asks'
  BY <1>2, <1>6, <1>7
     DEF IInv, Asks, Unasked, Untouched, Ending, Changers, Demos
<1>13. Whole'
  BY <1>2, <1>6, <1>7
     DEF IInv, Whole, Ending, Changers
<1>14. Moves'
  BY <1>2, <1>6, <1>7
     DEF IInv, Moves, Ending, Demos, Leaves, Leaving, There, Arrives
<1>15. RefusedLeavesAlone'
  BY <1>2, <1>6, <1>7
     DEF IInv, Asks, Unasked, Untouched, RefusedLeavesAlone
<1>16. SuccessIsWhole' /\ JournalWhereAsked'
  BY <1>2, <1>6, <1>7, StillRunning
<1>17. QED
  BY <1>8, <1>9, <1>10, <1>11, <1>12, <1>13, <1>14, <1>15, <1>16 DEF IInv

(* A failure: whatever became of the devices, the gauge is taken down and  *)
(* the program does not end with success.                                  *)
LEMMA SpoiledSound ==
  ASSUME IInv, pc = "work", Prog \in Changers, UNCHANGED <<cmd, opt, prompts>>,
         NEW states, NEW wrote \in SUBSET Devices, Spoiled(states, wrote)
  PROVE  IInv'
<1>1. Words(lib, 0) /\ lib.installed = TRUE /\ hist.answer = "y"
      /\ DOMAIN hist = {"before", "answer", "work", "wrote", "phase", "unsynced"}
  BY AtWork
<1> DEFINE m == IF hist.phase = Len(Phases) THEN lib
                ELSE PhaseStarts(lib, Phases[hist.phase + 1])
           told == Throw(m, "cancel")
           twice == Throw(told, "cancel")
           down == Down(twice)
<1>2. /\ hist' = [hist EXCEPT !.work = "failed", !.wrote = wrote]
      /\ \E state \in states : fsys' = [fsys EXCEPT !.state = state]
      /\ Abandon(down, Held, 255)
  BY DEF Spoiled
<1>3. Words(m, 0)
  <2>1. m = lib \/ m = PhaseStarts(lib, Phases[hist.phase + 1])
    OBVIOUS
  <2> HIDE DEF m
  <2>2. QED
    BY <1>1, <2>1, PhaseWords
<1> HIDE DEF m
<1>4. Words(told, 0)
  BY <1>3, ThrowWords
<1> HIDE DEF told
<1>5. Words(twice, 0)
  BY <1>4, ThrowWords
<1> HIDE DEF twice
<1>6. Words(down, 0) /\ down.installed = FALSE
  BY <1>5, DownWords
<1> HIDE DEF down
<1>7. /\ Words(lib', 0) /\ lib'.installed = FALSE /\ Exit(255)
      /\ open' \subseteq open /\ handles' \subseteq handles
  BY <1>2, <1>6, AbandonSaid
<1>8. /\ cmd' = cmd /\ opt' = opt /\ prompts' = prompts /\ DOMAIN fsys' = DOMAIN fsys
      /\ DOMAIN hist' = DOMAIN hist /\ hist'.answer = "y" /\ hist'.wrote = wrote
      /\ hist'.unsynced = hist.unsynced /\ 255 \in {0, 1, 254, 255} /\ 255 # 0
  BY <1>1, <1>2
<1>9. hist'.answer \in {"none", "y", "n"} /\ hist'.wrote \subseteq Devices
  BY <1>8
<1>10. QED
  BY <1>7, <1>8, <1>9, EndSound

(* The work is done: what it left is what the ends of the programs promise.*)
LEMMA WorkedSound ==
  ASSUME IInv, pc = "work", Prog \in Changers, UNCHANGED <<cmd, opt, prompts>>,
         NEW result, NEW wrote \in SUBSET Devices, NEW new \in SUBSET {"fs", "copy"},
         Worked(result, wrote, new), DOMAIN result = DOMAIN fsys,
         opt.host = "host" => result.state = LeftAs, Leaving(wrote) => Arrives(result)
  PROVE  IInv'
<1>1. /\ hist' = [hist EXCEPT !.work = "ok", !.wrote = wrote] /\ fsys' = result
      /\ lib' = Down(lib) /\ handles' = handles \cup new /\ Prog' = Prog
      /\ UNCHANGED <<cmd, opt, prompts, open, exit>>
      /\ pc' = CASE Prog = "tunefs" -> "label" [] Prog = "cpfs" -> "syncing" [] OTHER -> "close"
  BY DEF Worked, Prog
<1>2. /\ DOMAIN hist' = DOMAIN hist /\ hist'.before = hist.before /\ hist'.answer = "y"
      /\ hist'.work = "ok" /\ hist'.wrote = wrote /\ hist'.unsynced = FALSE
  BY <1>1, AtWork
<1>3. Words(lib', 0) /\ lib'.installed = FALSE
  BY <1>1, AtWork, DownWords
<1>4. /\ UNCHANGED <<cmd, opt, prompts, open, exit>> /\ handles' = handles \cup new
      /\ Prog' = Prog /\ pc' \in {"label", "syncing", "close"}
      /\ (pc' = "label") = (Prog = "tunefs") /\ (pc' = "syncing") = (Prog = "cpfs")
      /\ Prog # "fsck" /\ Prog \notin Demos
  BY <1>1, AtWork
<1>5. fsys' = result /\ DOMAIN fsys' = DOMAIN fsys /\ hist.wrote = {}
  BY <1>1, AtWork
<1>6. Typed'
  <2>1. handles' \subseteq {"fs", "copy"} /\ hist'.wrote \subseteq Devices
    BY <1>2, <1>4 DEF IInv, Typed
  <2>2. pc' \in Stages /\ pc' # "exited" /\ exit' = exit /\ exit = -1
    BY <1>4, AtWork DEF Stages, Ending
  <2>3. exit' \in {-1, 0, 1, 254, 255} /\ (exit' # -1 <=> pc' = "exited")
    BY <2>2
  <2>4. hist'.answer \in {"none", "y", "n"} /\ hist'.unsynced \in BOOLEAN
        /\ DOMAIN hist' = {"before", "answer", "work", "wrote", "phase", "unsynced"}
    BY <1>2, AtWork
  <2>5. /\ DOMAIN cmd' = {"prog", "options", "rest"} /\ Prog' \in Changers \cup Demos \cup {"fsck"}
        /\ DOMAIN opt' = DOMAIN Options /\ prompts' \in 0 .. 3
        /\ DOMAIN fsys' = {"dev", "start", "len", "state", "format", "size", "bs", "unit"}
        /\ open' \subseteq {"host", "journal", "new", "dst"}
    BY <1>4, <1>5 DEF IInv, Typed
  <2>6. QED
    BY <2>1, <2>2, <2>3, <2>4, <2>5, Zenon DEF Typed
<1>7. Places'
  BY <1>2, <1>3, <1>4, <1>5
     DEF IInv, Places, Changers
<1>8. Present'
  BY <1>2, <1>3, <1>4, <1>5
     DEF IInv, Present, Demos
<1>9. Gauged'
  BY <1>2, <1>3, <1>4, <1>5
     DEF IInv, Gauged, Follows
<1>10. Asks'
  BY <1>2, <1>3, <1>4, <1>5
     DEF IInv, Asks, Unasked, Untouched, Ending, Changers, Demos
<1>11. Whole'
  BY <1>2, <1>3, <1>4, <1>5
     DEF IInv, Whole, Ending, Changers, LeftAs
<1>12. Moves'
  BY <1>2, <1>3, <1>4, <1>5
     DEF IInv, Moves, Ending, Demos, Leaves, Leaving, There, Arrives
<1>13. RefusedLeavesAlone'
  BY <1>2, <1>3, <1>4, <1>5
     DEF IInv, Asks, Unasked, Untouched, RefusedLeavesAlone
<1>14. SuccessIsWhole' /\ JournalWhereAsked'
  BY <1>2, <1>3, <1>4, <1>5, StillRunning
<1>15. QED
  BY <1>6, <1>7, <1>8, <1>9, <1>10, <1>11, <1>12, <1>13, <1>14 DEF IInv

LEMMA CreateSound ==
  ASSUME IInv, pc = "work", Create, UNCHANGED <<cmd, opt, prompts>>
  PROVE  IInv'
<1> DEFINE dev == IF "journal" \in open THEN opt.journal ELSE "host"
           wrote == {opt.host} \cup (IF "journal" \in open THEN {opt.journal} ELSE {})
           made == [dev |-> dev, start |-> IF dev = "host" THEN HostStart ELSE opt.start,
                    len |-> opt.len, state |-> "clean", format |-> opt.format,
                    size |-> opt.size, bs |-> opt.blocksize, unit |-> opt.blocksize]
           over == IF "host" \in wrote THEN {fsys.state, "ruined"} ELSE {fsys.state}
           result == IF opt.host = "host" THEN made
                     ELSE IF "host" \in wrote THEN [fsys EXCEPT !.state = "ruined"]
                     ELSE fsys
<1>1. Prog = "mkfs" /\ Prog \in Changers
  BY DEF Create, Changers
<1>2. \/ Progress \/ Worked(result, wrote, {"fs"}) \/ Spoiled(over, wrote)
      \/ Spoiled({fsys.state}, {})
  BY DEF Create, Refused
<1>3. wrote \in SUBSET Devices /\ {} \in SUBSET Devices /\ {"fs"} \in SUBSET {"fs", "copy"}
  BY <1>1, AtWork DEF IInv, Present
<1>4. DOMAIN result = DOMAIN fsys
  <2>1. DOMAIN fsys = {"dev", "start", "len", "state", "format", "size", "bs", "unit"}
    BY <1>1, AtWork
  <2>2. DOMAIN made = {"dev", "start", "len", "state", "format", "size", "bs", "unit"}
    OBVIOUS
  <2> HIDE DEF made, wrote
  <2>3. QED
    BY <2>1, <2>2
<1>5. opt.host = "host" => result.state = LeftAs
  BY <1>1 DEF LeftAs
<1>6. ~Leaving(wrote)
  BY <1>1 DEF Leaving
<1> HIDE DEF dev, wrote, made, over, result
<1>7. QED
  BY <1>1, <1>2, <1>3, <1>4, <1>5, <1>6, ProgressSound, SpoiledSound, WorkedSound

LEMMA TuneSound ==
  ASSUME IInv, pc = "work", Tune, UNCHANGED <<cmd, opt, prompts>>
  PROVE  IInv'
<1> DEFINE wrote == {"host", Target}
<1>1. Prog = "tunefs" /\ Prog \in Changers
  BY DEF Tune, Changers
<1>2. \/ Progress \/ Worked(Tuned, wrote, {}) \/ Spoiled({"marked"}, wrote)
      \/ Spoiled({fsys.state}, {})
  BY DEF Tune, Refused
<1>3. Target \in Devices
  BY <1>1, AtWork, DevicesAssumption DEF Target, IInv, Present
<1>4. wrote \in SUBSET Devices /\ {} \in SUBSET Devices /\ {} \in SUBSET {"fs", "copy"}
  BY <1>3, DevicesAssumption
<1>5. /\ DOMAIN fsys = {"dev", "start", "len", "state", "format", "size", "bs", "unit"}
      /\ fsys.state = "clean" /\ opt.host = "host" /\ fsys = hist.before
  BY <1>1, AtWork DEF IInv, Whole
<1>6. DOMAIN Tuned = DOMAIN fsys /\ Tuned.state = "clean"
  BY <1>5 DEF Tuned, TunedHome, TunedAway
<1>7. ASSUME Leaving(wrote)
      PROVE  Arrives(Tuned)
  <2>1. opt.new \notin {"", "host", opt.journal, opt.host}
    BY <1>5, <1>7 DEF Leaving
  <2>2. "new" \in open
    BY <1>1, <2>1 DEF IInv, Moves
  <2>3. Target = opt.new /\ Target # "host"
    BY <2>1, <2>2 DEF Target
  <2>4. ~Relocated \/ opt.start # fsys.start \/ opt.len # fsys.len
    BY <1>5, <1>7 DEF Leaving, Relocated
  <2>5. Tuned = TunedAway
    BY <2>3, <2>4 DEF Tuned
  <2>6. QED
    BY <1>5, <2>3, <2>5 DEF TunedAway, Arrives
<1> HIDE DEF wrote
<1>8. opt.host = "host" => Tuned.state = LeftAs
  BY <1>1, <1>6 DEF LeftAs
<1>9. QED
  BY <1>1, <1>2, <1>4, <1>6, <1>7, <1>8, ProgressSound, SpoiledSound, WorkedSound

LEMMA ResizeSound ==
  ASSUME IInv, pc = "work", Resize, UNCHANGED <<cmd, opt, prompts>>
  PROVE  IInv'
<1>1. Prog = "resizefs" /\ Prog \in Changers
  BY DEF Resize, Changers
<1>2. \/ Progress \/ Worked(Resized, {"host"}, {}) \/ Spoiled({"marked"}, {"host"})
      \/ Spoiled({fsys.state}, {})
  BY DEF Resize, Refused
<1>3. {"host"} \in SUBSET Devices /\ {} \in SUBSET Devices /\ {} \in SUBSET {"fs", "copy"}
  BY DevicesAssumption
<1>4. DOMAIN fsys = {"dev", "start", "len", "state", "format", "size", "bs", "unit"} /\ fsys.state = "clean"
  BY <1>1, AtWork DEF IInv, Whole
<1>5. /\ DOMAIN Resized = DOMAIN fsys /\ ~Leaving({"host"})
      /\ opt.host = "host" => Resized.state = LeftAs
  BY <1>1, <1>4 DEF Resized, Leaving, LeftAs
<1>6. QED
  BY <1>1, <1>2, <1>3, <1>5, ProgressSound, SpoiledSound, WorkedSound

LEMMA CopySound ==
  ASSUME IInv, pc = "work", Copy, UNCHANGED <<cmd, opt, prompts>>
  PROVE  IInv'
<1>1. Prog = "cpfs" /\ Prog \in Changers
  BY DEF Copy, Changers
<1>2. \/ Progress \/ Worked(fsys, {opt.dst}, {"copy"}) \/ Spoiled({fsys.state}, {opt.dst})
      \/ Spoiled({fsys.state}, {})
  BY DEF Copy, Refused
<1>3. {opt.dst} \in SUBSET Devices /\ {} \in SUBSET Devices /\ {"copy"} \in SUBSET {"fs", "copy"}
  BY <1>1, AtWork DEF IInv, Present
<1>4. /\ DOMAIN fsys = DOMAIN fsys /\ ~Leaving({opt.dst})
      /\ opt.host = "host" => fsys.state = LeftAs
  BY <1>1, AtWork DEF Leaving, LeftAs
<1>5. QED
  BY <1>1, <1>2, <1>3, <1>4, ProgressSound, SpoiledSound, WorkedSound

LEMMA FsckSound ==
  ASSUME IInv, pc = "work", Fsck, UNCHANGED <<cmd, opt, prompts>>
  PROVE  IInv'
<1>1. /\ Prog = "fsck" /\ pc' = "close" /\ Prog' = Prog /\ lib' = Message("ignore")
      /\ UNCHANGED <<cmd, opt, prompts, open, handles, fsys, exit, hist>>
  BY DEF Fsck, Prog
<1>2. ~Follows
  BY <1>1 DEF Follows
<1>3. Words(lib', 0) /\ lib'.installed = FALSE
  BY <1>1, <1>2, MessageSaid
<1>4. Typed'
  BY <1>1, <1>3
     DEF IInv, Typed, Stages, Untouched, Unasked, Ending, Prog
<1>5. Places'
  BY <1>1, <1>3
     DEF IInv, Places, Changers
<1>6. Present'
  BY <1>1, <1>3
     DEF IInv, Present, Demos
<1>7. Gauged'
  BY <1>1, <1>3
     DEF IInv, Gauged, Follows
<1>8. Asks'
  BY <1>1, <1>3
     DEF IInv, Asks, Unasked, Untouched, Ending, Changers, Demos
<1>9. Whole'
  BY <1>1, <1>3
     DEF IInv, Whole, Ending, Changers
<1>10. Moves'
  BY <1>1, <1>3
     DEF IInv, Moves, Ending, Demos, Leaves, Leaving, There, Arrives
<1>11. RefusedLeavesAlone'
  BY <1>1, <1>3
     DEF IInv, Asks, Unasked, Untouched, RefusedLeavesAlone
<1>12. SuccessIsWhole' /\ JournalWhereAsked'
  BY <1>1, <1>3, StillRunning
<1>13. QED
  BY <1>4, <1>5, <1>6, <1>7, <1>8, <1>9, <1>10, <1>11, <1>12 DEF IInv

LEMMA TraverseSound ==
  ASSUME IInv, pc = "work", Traverse, UNCHANGED <<cmd, opt, prompts>>
  PROVE  IInv'
<1>1. PICK work \in {"ok", "failed", "silent"} :
        /\ hist' = [hist EXCEPT !.work = work]
        /\ lib' = GaugeFinish(IF work = "failed" THEN Throw(GaugeTouch(lib), "cancel")
                              ELSE GaugeTouch(lib), TRUE)
  BY DEF Traverse
<1>2. /\ Prog = "traverse" /\ pc' = "down" /\ Prog' = Prog
      /\ UNCHANGED <<cmd, opt, prompts, open, handles, fsys, exit>>
  BY DEF Traverse, Prog
<1>3. Follows
  BY <1>2 DEF Follows
<1>4. Words(lib, 0) /\ lib.installed = TRUE
  BY <1>3 DEF IInv, Gauged
<1> DEFINE t == GaugeTouch(lib)
           m == IF work = "failed" THEN Throw(t, "cancel") ELSE t
<1>5. Words(t, 0) /\ t.installed = TRUE
  BY <1>4, TouchWords
<1> HIDE DEF t
<1>6. Words(m, 0) /\ m.installed = TRUE
  BY <1>5, ThrowWords
<1>7. lib' = GaugeFinish(m, TRUE)
  BY <1>1 DEF t
<1> HIDE DEF m
<1>8. Words(lib', 0) /\ lib'.installed = TRUE
  BY <1>6, <1>7, FinishWords
<1>9. /\ DOMAIN hist' = DOMAIN hist /\ hist'.before = hist.before /\ hist'.answer = hist.answer
      /\ hist'.wrote = hist.wrote /\ hist'.unsynced = hist.unsynced
      /\ Prog \in Demos /\ Prog \notin Changers
  BY <1>1, <1>2 DEF IInv, Typed, Demos, Changers
<1>10. Typed'
  BY <1>2, <1>8, <1>9
     DEF IInv, Typed, Stages, Untouched, Unasked, Ending, Prog
<1>11. Places'
  BY <1>2, <1>8, <1>9
     DEF IInv, Places, Changers
<1>12. Present'
  BY <1>2, <1>8, <1>9
     DEF IInv, Present, Demos
<1>13. Gauged'
  BY <1>2, <1>8, <1>9
     DEF IInv, Gauged, Follows
<1>14. Asks'
  BY <1>2, <1>8, <1>9
     DEF IInv, Asks, Unasked, Untouched, Ending, Changers, Demos
<1>15. Whole'
  BY <1>2, <1>8, <1>9
     DEF IInv, Whole, Ending, Changers
<1>16. Moves'
  BY <1>2, <1>8, <1>9
     DEF IInv, Moves, Ending, Demos, Leaves, Leaving, There, Arrives
<1>17. RefusedLeavesAlone'
  BY <1>2, <1>8, <1>9
     DEF IInv, Asks, Unasked, Untouched, RefusedLeavesAlone
<1>18. SuccessIsWhole' /\ JournalWhereAsked'
  BY <1>2, <1>8, <1>9, StillRunning
<1>19. QED
  BY <1>10, <1>11, <1>12, <1>13, <1>14, <1>15, <1>16, <1>17, <1>18 DEF IInv

LEMMA WorkSound == IInv /\ Work => IInv'
<1> SUFFICES ASSUME IInv, Work  PROVE IInv'
  OBVIOUS
<1>1. /\ pc = "work" /\ UNCHANGED <<cmd, opt, prompts>>
      /\ Create \/ Tune \/ Resize \/ Copy \/ Fsck \/ Traverse
  BY DEF Work
<1>2. QED
  BY <1>1, CreateSound, TuneSound, ResizeSound, CopySound, FsckSound, TraverseSound

-----------------------------------------------------------------------------
(* The demos that look at one object.                                      *)
LEMMA AtObject ==
  ASSUME IInv, pc = "object", NEW work, Prog \in Demos,
         hist' = hist \/ hist' = [hist EXCEPT !.work = work]
  PROVE  /\ DOMAIN hist' = DOMAIN hist /\ hist'.before = hist.before
         /\ hist'.answer = hist.answer /\ hist'.wrote = hist.wrote
         /\ hist'.unsynced = hist.unsynced /\ hist.unsynced = FALSE
         /\ Prog \notin Changers /\ exit = -1 /\ Silent(lib)
         /\ Silent(Message("cancel")) /\ Silent(Message("ignore"))
<1>1. ~Follows
  BY DEF Follows
<1>2. Silent(lib) /\ Silent(Message("cancel")) /\ Silent(Message("ignore"))
  BY <1>1, MessageSaid DEF Silent
<1>3. hist.unsynced = FALSE /\ Prog \notin Changers /\ exit = -1
  BY DEF IInv, Asks, Typed, Demos, Changers
<1>4. QED
  BY <1>2, <1>3 DEF IInv, Typed

LEMMA ObjectSound ==
  ASSUME IInv, pc = "object", NEW work, Prog \in Demos,
         hist' = hist \/ hist' = [hist EXCEPT !.work = work],
         pc' \in {"close", "crashed"}, Silent(lib'),
         UNCHANGED <<cmd, opt, fsys, prompts, open, handles, exit>>
  PROVE  IInv'
<1>1. /\ DOMAIN hist' = DOMAIN hist /\ hist'.before = hist.before
      /\ hist'.answer = hist.answer /\ hist'.wrote = hist.wrote
      /\ hist'.unsynced = hist.unsynced /\ hist.unsynced = FALSE
      /\ Prog \notin Changers /\ exit = -1
  BY AtObject
<1>2. UNCHANGED <<cmd, opt, fsys, prompts, open, handles, exit>> /\ Prog' = Prog
      /\ pc = "object" /\ pc' \in {"close", "crashed"} /\ Prog \in Demos /\ Prog # "cpfs"
  BY DEF Prog, Demos
<1>3. Words(lib', 0) /\ lib'.installed = FALSE
  BY DEF Silent
<1>4. Typed'
  BY <1>1, <1>2, <1>3
     DEF IInv, Typed, Stages, Untouched, Unasked, Ending, Prog
<1>5. Places'
  BY <1>1, <1>2, <1>3
     DEF IInv, Places, Changers
<1>6. Present'
  BY <1>1, <1>2, <1>3
     DEF IInv, Present, Demos
<1>7. Gauged'
  BY <1>1, <1>2, <1>3
     DEF IInv, Gauged, Follows
<1>8. Asks'
  BY <1>1, <1>2, <1>3
     DEF IInv, Asks, Unasked, Untouched, Ending, Changers, Demos
<1>9. Whole'
  BY <1>1, <1>2, <1>3
     DEF IInv, Whole, Ending, Changers
<1>10. Moves'
  BY <1>1, <1>2, <1>3
     DEF IInv, Moves, Ending, Demos, Leaves, Leaving, There, Arrives
<1>11. RefusedLeavesAlone'
  BY <1>1, <1>2, <1>3
     DEF IInv, Asks, Unasked, Untouched, RefusedLeavesAlone
<1>12. SuccessIsWhole' /\ JournalWhereAsked'
  BY <1>1, <1>2, <1>3, StillRunning
<1>13. QED
  BY <1>4, <1>5, <1>6, <1>7, <1>8, <1>9, <1>10, <1>11, <1>12 DEF IInv

LEMMA ListDirectorySound == IInv /\ ListDirectory => IInv'
<1> SUFFICES ASSUME IInv, ListDirectory  PROVE IInv'
  OBVIOUS
<1>1. pc = "object" /\ Prog \in Demos /\ ~Follows /\ UNCHANGED <<cmd, opt, fsys, prompts>>
  BY DEF ListDirectory, Demos, Follows
<1>2. \/ Abandon(Message("cancel"), {"fs", "host"}, 255) /\ UNCHANGED hist
      \/ \E work \in {"ok", "failed"} :
           /\ hist' = [hist EXCEPT !.work = work]
           /\ pc' = "close" /\ UNCHANGED <<open, handles, lib, exit>>
  BY DEF ListDirectory
<1>3. CASE Abandon(Message("cancel"), {"fs", "host"}, 255) /\ UNCHANGED hist
  <2>1. UNCHANGED <<cmd, opt, fsys, prompts, hist>>
    BY <1>1, <1>3
  <2>2. QED
    BY <1>1, <1>3, <2>1, MessageSound
<1>4. ASSUME NEW work \in {"ok", "failed"}, hist' = [hist EXCEPT !.work = work],
             pc' = "close", UNCHANGED <<open, handles, lib, exit>>
      PROVE  IInv'
  <2>1. Silent(lib)
    BY <1>1, <1>4, AtObject
  <2>2. Silent(lib') /\ UNCHANGED <<cmd, opt, fsys, prompts, open, handles, exit>>
        /\ pc' \in {"close", "crashed"}
    BY <1>1, <1>4, <2>1
  <2>3. QED
    BY <1>1, <1>4, <2>2, ObjectSound
<1>5. QED
  BY <1>2, <1>3, <1>4

LEMMA ReadFileSound == IInv /\ ReadFile => IInv'
<1> SUFFICES ASSUME IInv, ReadFile  PROVE IInv'
  OBVIOUS
<1>1. pc = "object" /\ Prog \in Demos /\ ~Follows /\ UNCHANGED <<cmd, opt, fsys, prompts>>
  BY DEF ReadFile, Demos, Follows
<1>2. \/ \E m \in {Message("cancel")} \cup OutOfMemory(lib) :
           Abandon(m, {"fs", "host"}, 255) /\ UNCHANGED hist
      \/ pc' = "crashed" /\ UNCHANGED <<open, handles, lib, exit, hist>>
      \/ \E work \in {"ok", "failed"} :
           /\ hist' = [hist EXCEPT !.work = work]
           /\ lib' = IF work = "ok" THEN lib ELSE Message("ignore")
           /\ pc' = "close" /\ UNCHANGED <<open, handles, exit>>
  BY DEF ReadFile
<1>3. Words(lib, 0) /\ lib.installed = FALSE /\ Silent(lib) /\ Silent(Message("cancel"))
      /\ Silent(Message("ignore"))
  BY <1>1, MessageSaid DEF Silent
<1>4. ASSUME NEW m \in {Message("cancel")} \cup OutOfMemory(lib),
             Abandon(m, {"fs", "host"}, 255), UNCHANGED hist
      PROVE  IInv'
  <2>1. UNCHANGED <<cmd, opt, fsys, prompts, hist>>
    BY <1>1, <1>4
  <2>2. Silent(m)
    BY <1>3, ShortWords DEF Silent
  <2>3. QED
    BY <1>4, <2>1, <2>2, AbandonSound
<1>5. CASE pc' = "crashed" /\ UNCHANGED <<open, handles, lib, exit, hist>>
  <2>1. Silent(lib') /\ UNCHANGED <<cmd, opt, fsys, prompts, open, handles, exit>>
        /\ pc' \in {"close", "crashed"} /\ hist' = hist
    BY <1>1, <1>3, <1>5
  <2>2. QED
    BY <1>1, <2>1, ObjectSound
<1>6. ASSUME NEW work \in {"ok", "failed"}, hist' = [hist EXCEPT !.work = work],
             lib' = IF work = "ok" THEN lib ELSE Message("ignore"),
             pc' = "close", UNCHANGED <<open, handles, exit>>
      PROVE  IInv'
  <2>1. Silent(lib')
    BY <1>3, <1>6
  <2>2. UNCHANGED <<cmd, opt, fsys, prompts, open, handles, exit>>
        /\ pc' \in {"close", "crashed"}
    BY <1>1, <1>6
  <2>3. QED
    BY <1>1, <1>6, <2>1, <2>2, ObjectSound
<1>7. QED
  BY <1>2, <1>4, <1>5, <1>6

LEMMA LookupItemSound == IInv /\ LookupItem => IInv'
<1> SUFFICES ASSUME IInv, LookupItem  PROVE IInv'
  OBVIOUS
<1>1. /\ pc = "object" /\ Prog \in Demos /\ ~Follows
      /\ UNCHANGED <<cmd, opt, open, handles, fsys, prompts, exit>>
  BY DEF LookupItem, Demos, Follows
<1>2. \/ pc' = "crashed" /\ UNCHANGED <<lib, hist>>
      \/ \E work \in {"ok", "failed"} :
           /\ hist' = [hist EXCEPT !.work = work]
           /\ lib' = Message("cancel") /\ pc' = "close"
  BY DEF LookupItem
<1>3. Silent(lib) /\ Silent(Message("cancel"))
  BY <1>1, MessageSaid DEF Silent
<1>4. pc' \in {"close", "crashed"} /\ (lib' = lib \/ lib' = Message("cancel"))
      /\ \E work : hist' = hist \/ hist' = [hist EXCEPT !.work = work]
  BY <1>2
<1>5. Silent(lib') /\ UNCHANGED <<cmd, opt, fsys, prompts, open, handles, exit>>
  BY <1>1, <1>3, <1>4
<1>6. QED
  BY <1>1, <1>4, <1>5, ObjectSound

-----------------------------------------------------------------------------
LEMMA LabelSound == IInv /\ Label => IInv'
<1> SUFFICES ASSUME IInv, Label  PROVE IInv'
  OBVIOUS
<1>1. pc = "label" /\ ~Follows /\ UNCHANGED <<cmd, opt, fsys, prompts>> /\ Prog' = Prog
  BY DEF Label, Follows, Prog
<1>2. \/ Abandon(Message("cancel"), Held, 255) /\ UNCHANGED hist
      \/ /\ hist' = [hist EXCEPT !.work = "ok", !.wrote = @ \cup {"host"}]
         /\ pc' = "close" /\ UNCHANGED <<open, handles, lib, exit>>
  BY DEF Label
<1>3. CASE Abandon(Message("cancel"), Held, 255) /\ UNCHANGED hist
  <2>1. UNCHANGED <<cmd, opt, fsys, prompts, hist>>
    BY <1>1, <1>3
  <2>2. QED
    BY <1>1, <1>3, <2>1, MessageSound
<1>4. CASE /\ hist' = [hist EXCEPT !.work = "ok", !.wrote = @ \cup {"host"}]
           /\ pc' = "close" /\ UNCHANGED <<open, handles, lib, exit>>
  <2>1. Prog = "tunefs" /\ hist.answer = "y" /\ hist.unsynced = FALSE /\ fsys.state = "clean"
        /\ lib.installed = FALSE
    BY <1>1, MessageSaid DEF IInv, Places, Asks, Typed, Whole, Changers
  <2>2. /\ DOMAIN hist' = DOMAIN hist /\ hist'.before = hist.before /\ hist'.answer = "y"
        /\ hist'.work = "ok" /\ hist'.unsynced = FALSE
        /\ hist'.wrote = hist.wrote \cup {"host"}
    BY <1>4, <2>1 DEF IInv, Typed
  <2>3. hist'.wrote \subseteq Devices
    <3>1. hist.wrote \subseteq Devices
      BY DEF IInv, Typed
    <3>2. QED
      BY <2>2, <3>1, DevicesAssumption
  <2>4. pc' = "close" /\ UNCHANGED <<open, handles, lib, exit>>
    BY <1>4
  <2>5. Typed'
    BY <1>1, <2>1, <2>2, <2>3, <2>4
       DEF IInv, Typed, Stages, Untouched, Unasked, Ending, Prog
  <2>6. Places'
    BY <1>1, <2>1, <2>2, <2>3, <2>4
       DEF IInv, Places, Changers
  <2>7. Present'
    BY <1>1, <2>1, <2>2, <2>3, <2>4
       DEF IInv, Present, Demos
  <2>8. Gauged'
    BY <1>1, <2>1, <2>2, <2>3, <2>4
       DEF IInv, Gauged, Follows
  <2>9. Asks'
    BY <1>1, <2>1, <2>2, <2>3, <2>4
       DEF IInv, Asks, Unasked, Untouched, Ending, Changers, Demos
  <2>10. Whole'
    BY <1>1, <2>1, <2>2, <2>3, <2>4
       DEF IInv, Whole, Ending, Changers, LeftAs
  <2>11. Moves'
    BY <1>1, <2>1, <2>2, <2>3, <2>4
       DEF IInv, Moves, Ending, Demos, Leaves, Leaving, There, Arrives
  <2>12. RefusedLeavesAlone'
    BY <1>1, <2>1, <2>2, <2>3, <2>4
       DEF IInv, Asks, Unasked, Untouched, RefusedLeavesAlone
  <2>13. SuccessIsWhole' /\ JournalWhereAsked'
    BY <1>1, <2>1, <2>2, <2>3, <2>4, StillRunning
  <2>14. QED
    BY <2>5, <2>6, <2>7, <2>8, <2>9, <2>10, <2>11, <2>12, <2>13 DEF IInv
<1>5. QED
  BY <1>2, <1>3, <1>4

LEMMA CloseFsSound == IInv /\ CloseFs => IInv'
<1> SUFFICES ASSUME IInv, CloseFs  PROVE IInv'
  OBVIOUS
<1>1. pc = "close" /\ handles' = {} /\ UNCHANGED <<cmd, opt, prompts>> /\ Prog' = Prog
  BY DEF CloseFs, Prog
<1>2. PICK failed \in BOOLEAN :
        /\ failed => Prog \in Changers
        /\ lib' = IF failed THEN Message("cancel") ELSE lib
        /\ hist' = [hist EXCEPT !.unsynced = failed]
        /\ fsys' = IF failed /\ "host" \in hist.wrote
                   THEN [fsys EXCEPT !.state = "unknown"] ELSE fsys
  BY DEF CloseFs
<1>3. \/ /\ Prog \in Demos \cup {"fsck"}
         /\ open' = {} /\ Exit(IF Prog = "lookup" /\ hist.work # "ok" THEN 1 ELSE 0)
      \/ /\ Prog \notin Demos \cup {"fsck"}
         /\ pc' = (IF Prog = "cpfs" THEN "sync" ELSE "syncing")
         /\ UNCHANGED <<open, exit>>
  BY DEF CloseFs
<1>4. /\ DOMAIN hist' = DOMAIN hist /\ hist'.before = hist.before /\ hist'.answer = hist.answer
      /\ hist'.work = hist.work /\ hist'.wrote = hist.wrote /\ hist'.unsynced = failed
      /\ DOMAIN fsys' = DOMAIN fsys /\ hist.unsynced = FALSE
  BY <1>1, <1>2 DEF IInv, Typed, Asks
<1>5. Words(lib, 0) /\ Words(Message("cancel"), 0)
      /\ Message("cancel").installed = lib.installed
  BY ThrowWords DEF IInv, Gauged, Message
<1>6. Words(lib', 0) /\ lib'.installed = lib.installed
  BY <1>2, <1>5
<1>7. lib.installed = (Prog = "cpfs")
  BY <1>1 DEF IInv, Gauged, Follows
<1>8. CASE /\ Prog \in Demos \cup {"fsck"}
           /\ open' = {} /\ Exit(IF Prog = "lookup" /\ hist.work # "ok" THEN 1 ELSE 0)
  <2> DEFINE code == IF Prog = "lookup" /\ hist.work # "ok" THEN 1 ELSE 0
  <2>1. Prog \notin Changers /\ Prog # "cpfs" /\ hist.answer = "none" /\ failed = FALSE
    BY <1>2, <1>8 DEF Demos, Changers, IInv, Asks
  <2>2. code \in {0, 1, 254, 255} /\ Exit(code)
    BY <1>8
  <2> HIDE DEF code
  <2>3. /\ cmd' = cmd /\ opt' = opt /\ prompts' = prompts
        /\ open' \subseteq open /\ handles' \subseteq handles
        /\ Words(lib', 0) /\ lib'.installed = FALSE
    BY <1>1, <1>6, <1>7, <1>8, <2>1
  <2>4. /\ hist'.answer \in {"none", "y", "n"} /\ hist'.answer # "y"
        /\ hist'.unsynced = hist.unsynced /\ hist'.wrote \subseteq Devices
        /\ (hist'.answer # "y" /\ Prog \notin Demos => hist'.wrote = {})
    BY <1>4, <2>1 DEF IInv, Typed, RefusedLeavesAlone
  <2>5. QED
    BY <1>4, <2>2, <2>3, <2>4, EndSound
<1>9. CASE /\ Prog \notin Demos \cup {"fsck"}
           /\ pc' = (IF Prog = "cpfs" THEN "sync" ELSE "syncing")
           /\ UNCHANGED <<open, exit>>
  <2>1. Prog \in Changers /\ Prog # "fsck" /\ Prog # "traverse" /\ exit' = exit /\ open' = open
    BY <1>9 DEF Demos, IInv, Typed
  <2>2. pc' \in {"sync", "syncing"} /\ (pc' = "sync") = (Prog = "cpfs")
    BY <1>9
  <2>3. failed \in BOOLEAN /\ handles' = {} /\ lib'.installed = (Prog = "cpfs")
    BY <1>1, <1>6, <1>7
  <2>4. hist.answer = "y" /\ hist.work = "ok"
        /\ (opt.host = "host" => fsys.state = LeftAs)
    BY <1>1, <1>4, <2>1 DEF IInv, Asks, Whole, Ending
  <2>5. failed = FALSE => fsys' = fsys
    BY <1>2
  <2>6. /\ fsys'.dev = fsys.dev /\ fsys'.start = fsys.start /\ fsys'.len = fsys.len
        /\ fsys'.bs = fsys.bs /\ fsys'.unit = fsys.unit
    BY <1>2 DEF IInv, Typed
  <2>7. Typed'
    BY <1>1, <1>4, <1>6, <2>1, <2>2, <2>3, <2>4, <2>5, <2>6
       DEF IInv, Typed, Stages, Untouched, Unasked, Ending, Prog
  <2>8. Places'
    BY <1>1, <1>4, <1>6, <2>1, <2>2, <2>3, <2>4, <2>5, <2>6
       DEF IInv, Places, Changers
  <2>9. Present'
    BY <1>1, <1>4, <1>6, <2>1, <2>2, <2>3, <2>4, <2>5, <2>6
       DEF IInv, Present, Demos
  <2>10. Gauged'
    BY <1>1, <1>4, <1>6, <2>1, <2>2, <2>3, <2>4, <2>5, <2>6
       DEF IInv, Gauged, Follows
  <2>11. Asks'
    BY <1>1, <1>4, <1>6, <2>1, <2>2, <2>3, <2>4, <2>5, <2>6
       DEF IInv, Asks, Unasked, Untouched, Ending, Changers, Demos
  <2>12. Whole'
    BY <1>1, <1>4, <1>6, <2>1, <2>2, <2>3, <2>4, <2>5, <2>6
       DEF IInv, Whole, Ending, Changers, LeftAs
  <2>13. Moves'
    BY <1>1, <1>4, <1>6, <2>1, <2>2, <2>3, <2>4, <2>5, <2>6
       DEF IInv, Moves, Ending, Demos, Leaves, Leaving, There, Arrives
  <2>14. RefusedLeavesAlone'
    BY <1>1, <1>4, <1>6, <2>1, <2>2, <2>3, <2>4, <2>5, <2>6
       DEF IInv, Asks, Unasked, Untouched, RefusedLeavesAlone
  <2>15. SuccessIsWhole' /\ JournalWhereAsked'
    BY <1>1, <1>4, <1>6, <2>1, <2>2, <2>3, <2>4, <2>5, <2>6, StillRunning
  <2>16. QED
    BY <2>7, <2>8, <2>9, <2>10, <2>11, <2>12, <2>13, <2>14, <2>15 DEF IInv
<1>10. QED
  BY <1>3, <1>8, <1>9

LEMMA SyncDevicesSound == IInv /\ SyncDevices => IInv'
<1> SUFFICES ASSUME IInv, SyncDevices  PROVE IInv'
  OBVIOUS
<1>1. /\ pc = "sync" /\ pc' = "down" /\ open' = {} /\ Prog' = Prog
      /\ UNCHANGED <<cmd, opt, handles, prompts, exit>>
  BY DEF SyncDevices, Prog
<1>2. lib' = GaugeFinish(lib, TRUE) \/ lib' = GaugeFinish(Message("ok"), TRUE)
  BY DEF SyncDevices
<1>3. Follows
  BY <1>1 DEF Follows
<1>4. Words(lib, 0) /\ lib.installed = TRUE
  BY <1>3 DEF IInv, Gauged
<1>5. Words(Message("ok"), 0) /\ Message("ok").installed = TRUE
  BY <1>4, ThrowWords DEF Message
<1>6. Words(lib', 0) /\ lib'.installed = TRUE
  BY <1>2, <1>4, <1>5, FinishWords
<1>7. Prog \in Changers
  BY <1>1 DEF IInv, Places
<1>8. PICK failed \in SUBSET (open \cap Synced) :
       /\ hist' = [hist EXCEPT !.unsynced = @ \/ failed # {}]
       /\ fsys' = IF {NameOf(role) : role \in failed} \cap hist.wrote \cap {"host", fsys.dev} # {}
                  THEN [fsys EXCEPT !.state = "unknown"] ELSE fsys
  BY DEF SyncDevices
<1>9. /\ DOMAIN hist' = DOMAIN hist /\ hist'.before = hist.before
      /\ hist'.answer = hist.answer /\ hist'.work = hist.work /\ hist'.wrote = hist.wrote
      /\ hist'.unsynced \in BOOLEAN /\ (hist'.unsynced = FALSE => fsys' = fsys /\ ~hist.unsynced)
  <2> DEFINE lost == {NameOf(role) : role \in failed} \cap hist.wrote \cap {"host", fsys.dev}
  <2>1. /\ DOMAIN hist = {"before", "answer", "work", "wrote", "phase", "unsynced"}
        /\ hist.unsynced \in BOOLEAN /\ (failed # {}) \in BOOLEAN
    BY DEF IInv, Typed
  <2>2. failed = {} => lost = {}
    OBVIOUS
  <2>3. lost = {} => fsys' = fsys
    BY <1>8
  <2>4. hist' = [hist EXCEPT !.unsynced = hist.unsynced \/ failed # {}]
    BY <1>8
  <2> HIDE DEF lost
  <2>5. hist'.unsynced = (hist.unsynced \/ failed # {})
    BY <2>1, <2>4, Zenon
  <2>6. hist'.unsynced \in BOOLEAN /\ (hist'.unsynced = FALSE => failed = {} /\ ~hist.unsynced)
    BY <2>1, <2>5
  <2>7. QED
    BY <2>1, <2>2, <2>3, <2>4, <2>6
<1>10. /\ DOMAIN fsys' = DOMAIN fsys /\ fsys'.dev = fsys.dev /\ fsys'.start = fsys.start
       /\ fsys'.len = fsys.len /\ fsys'.bs = fsys.bs /\ fsys'.unit = fsys.unit
  BY <1>8 DEF IInv, Typed
<1>11. Typed'
  BY <1>1, <1>6, <1>7, <1>9, <1>10
     DEF IInv, Typed, Stages, Untouched, Unasked, Ending, Prog
<1>12. Places'
  BY <1>1, <1>6, <1>7, <1>9, <1>10
     DEF IInv, Places, Changers
<1>13. Present'
  BY <1>1, <1>6, <1>7, <1>9, <1>10
     DEF IInv, Present, Demos
<1>14. Gauged'
  BY <1>1, <1>6, <1>7, <1>9, <1>10
     DEF IInv, Gauged, Follows
<1>15. Asks'
  BY <1>1, <1>6, <1>7, <1>9, <1>10
     DEF IInv, Asks, Unasked, Untouched, Ending, Changers, Demos
<1>16. Whole'
  BY <1>1, <1>6, <1>7, <1>9, <1>10
     DEF IInv, Whole, Ending, Changers, LeftAs
<1>17. Moves'
  BY <1>1, <1>6, <1>7, <1>9, <1>10
     DEF IInv, Moves, Ending, Demos, Leaves, Leaving, There, Arrives
<1>18. RefusedLeavesAlone'
  BY <1>1, <1>6, <1>7, <1>9, <1>10
     DEF IInv, Asks, Unasked, Untouched, RefusedLeavesAlone
<1>19. SuccessIsWhole' /\ JournalWhereAsked'
  BY <1>1, <1>6, <1>7, <1>9, <1>10, StillRunning
<1>20. QED
  BY <1>11, <1>12, <1>13, <1>14, <1>15, <1>16, <1>17, <1>18, <1>19 DEF IInv

LEMMA GaugeDownSound == IInv /\ GaugeDown => IInv'
<1> SUFFICES ASSUME IInv, GaugeDown  PROVE IInv'
  OBVIOUS
<1>1. /\ pc = "down" /\ Prog' = Prog /\ lib' = Down(lib)
      /\ UNCHANGED <<cmd, opt, open, handles, fsys, prompts, hist>>
  BY DEF GaugeDown, Prog
<1>2. Words(lib, 0)
  BY DEF IInv, Gauged
<1>3. Words(lib', 0) /\ lib'.installed = FALSE
  BY <1>1, <1>2, DownWords
<1>4. CASE Prog = "traverse"
  <2>1. pc' = "close" /\ exit' = exit /\ Prog \notin Changers /\ Prog \in Demos /\ Prog # "cpfs"
    BY <1>4 DEF GaugeDown, Changers, Demos
  <2>2. hist.unsynced = FALSE
    BY <2>1 DEF IInv, Asks, Typed
  <2>3. Typed'
    BY <1>1, <1>3, <2>1, <2>2
       DEF IInv, Typed, Stages, Untouched, Unasked, Ending, Prog
  <2>4. Places'
    BY <1>1, <1>3, <2>1, <2>2
       DEF IInv, Places, Changers
  <2>5. Present'
    BY <1>1, <1>3, <2>1, <2>2
       DEF IInv, Present, Demos
  <2>6. Gauged'
    BY <1>1, <1>3, <2>1, <2>2
       DEF IInv, Gauged, Follows
  <2>7. Asks'
    BY <1>1, <1>3, <2>1, <2>2
       DEF IInv, Asks, Unasked, Untouched, Ending, Changers, Demos
  <2>8. Whole'
    BY <1>1, <1>3, <2>1, <2>2
       DEF IInv, Whole, Ending, Changers
  <2>9. Moves'
    BY <1>1, <1>3, <2>1, <2>2
       DEF IInv, Moves, Ending, Demos, Leaves, Leaving, There, Arrives
  <2>10. RefusedLeavesAlone'
    BY <1>1, <1>3, <2>1, <2>2
       DEF IInv, Asks, Unasked, Untouched, RefusedLeavesAlone
  <2>11. SuccessIsWhole' /\ JournalWhereAsked'
    BY <1>1, <1>3, <2>1, <2>2, StillRunning
  <2>12. QED
    BY <2>3, <2>4, <2>5, <2>6, <2>7, <2>8, <2>9, <2>10, <2>11 DEF IInv
<1>5. CASE Prog # "traverse"
  <2>1. pc' = "exited" /\ exit' = 0
    BY <1>5 DEF GaugeDown, Exit
  <2>2. Prog \in Changers
    BY <1>1, <1>5 DEF IInv, Places
  <2>3. SuccessIsWhole'
    <3>1. lib'.installed = FALSE /\ lib'.gauge.live = FALSE
      BY <1>3 DEF Words
    <3>2. hist.work = "ok" /\ handles = {} /\ open = {}
          /\ (~hist.unsynced /\ opt.host = "host" => fsys.state = LeftAs)
      BY <1>1, <2>2 DEF IInv, Whole, Ending
    <3>3. LeftAs' = LeftAs
      BY <1>1 DEF LeftAs
    <3>4. QED
      BY <1>1, <3>1, <3>2, <3>3 DEF SuccessIsWhole
  <2>4. JournalWhereAsked'
    <3>1. Leaves => There
      BY <1>1 DEF IInv, Moves, Ending
    <3>2. QED
      BY <1>1, <3>1 DEF JournalWhereAsked, Leaves, Leaving, There, Arrives
  <2>5. hist.answer = "y"
    BY <1>1, <2>2 DEF IInv, Asks, Ending
  <2>6. Typed'
    BY <1>1, <1>3, <2>1, <2>2, <2>5
       DEF IInv, Typed, Stages, Untouched, Unasked, Ending, Prog
  <2>7. Places'
    BY <1>1, <1>3, <2>1, <2>2, <2>5
       DEF IInv, Places, Changers
  <2>8. Present'
    BY <1>1, <1>3, <2>1, <2>2, <2>5
       DEF IInv, Present, Demos
  <2>9. Gauged'
    BY <1>1, <1>3, <2>1, <2>2, <2>5
       DEF IInv, Gauged, Follows
  <2>10. Asks'
    BY <1>1, <1>3, <2>1, <2>2, <2>5
       DEF IInv, Asks, Unasked, Untouched, Ending, Changers, Demos
  <2>11. Whole'
    BY <1>1, <1>3, <2>1, <2>2, <2>5
       DEF IInv, Whole, Ending, Changers
  <2>12. Moves'
    BY <1>1, <1>3, <2>1, <2>2, <2>5
       DEF IInv, Moves, Ending, Demos, Leaves, Leaving, There, Arrives
  <2>13. RefusedLeavesAlone'
    BY <1>1, <1>3, <2>1, <2>2, <2>5
       DEF IInv, Asks, Unasked, Untouched, RefusedLeavesAlone
  <2>14. QED
    BY <2>6, <2>7, <2>8, <2>9, <2>10, <2>11, <2>12, <2>13, <2>3, <2>4 DEF IInv
<1>6. QED
  BY <1>4, <1>5

-----------------------------------------------------------------------------
LEMMA InitIsSound == Init => IInv
<1> SUFFICES ASSUME Init  PROVE IInv
  OBVIOUS
<1>1. /\ cmd \in CommandLines /\ fsys \in Before
      /\ opt = Options /\ pc = "parse"
      /\ open = {} /\ handles = {} /\ lib = Silence /\ prompts = 0 /\ exit = -1
      /\ hist = [before |-> fsys, answer |-> "none", work |-> "none", wrote |-> {},
                 phase |-> 0, unsynced |-> FALSE]
  BY DEF Init
<1>2. /\ DOMAIN cmd = {"prog", "options", "rest"} /\ Prog \in Changers \cup Demos \cup {"fsck"}
      /\ DOMAIN fsys = {"dev", "start", "len", "state", "format", "size", "bs", "unit"}
  BY <1>1, CommandLinesAssumption, BeforeAssumption DEF Prog
<1>3. /\ DOMAIN hist = {"before", "answer", "work", "wrote", "phase", "unsynced"}
      /\ hist.before = fsys /\ hist.answer = "none" /\ hist.wrote = {} /\ hist.unsynced = FALSE
  BY <1>1
<1>4. opt.journal = "" /\ opt.new = ""
  BY <1>1 DEF Options
<1>5. Typed
  BY <1>1, <1>2, <1>3 DEF Typed, Stages, Untouched, Unasked
<1>6. Places /\ Present
  BY <1>1, <1>4 DEF Places, Present
<1>7. Gauged
  BY <1>1 DEF Gauged, Words, Silence, NoGauge, Follows
<1>8. Asks
  BY <1>1, <1>3 DEF Asks, Unasked, Untouched, Ending
<1>9. Whole /\ Moves
  BY <1>1 DEF Whole, Moves, Ending
<1>10. RefusedLeavesAlone /\ SuccessIsWhole /\ JournalWhereAsked
  BY <1>1, <1>3 DEF RefusedLeavesAlone, SuccessIsWhole, JournalWhereAsked
<1>11. QED
  BY <1>5, <1>6, <1>7, <1>8, <1>9, <1>10 DEF IInv

LEMMA NextIsSound == IInv /\ [Next]_vars => IInv'
<1> SUFFICES ASSUME IInv, [Next]_vars  PROVE IInv'
  OBVIOUS
<1>1. CASE Next
  BY <1>1, ParseOptionSound, ArgumentsSound, CheckDevicesSound, OpenHostSound, NumbersSound,
     OpenJournalSound, OpenNewSound, SizesSound, OpenFsSound, JudgeTuneSound, JudgeResizeSound,
     OpenDestinationSound, AskSound, PrepareSound, StartGaugeSound, WorkSound,
     ListDirectorySound, ReadFileSound, LookupItemSound, LabelSound, CloseFsSound,
     SyncGaugeSound, SyncDevicesSound, GaugeDownSound DEF Next, Main
<1>2. CASE UNCHANGED vars
  <2>1. UNCHANGED <<cmd, opt, pc, open, handles, lib, fsys, prompts, exit, hist>>
    BY <1>2 DEF vars
  <2>2. Typed'
    BY <2>1 DEF IInv, Typed, Prog
  <2>3. Places' /\ Present'
    BY <2>1 DEF IInv, Places, Present, Prog
  <2>4. Gauged' /\ Asks'
    BY <2>1 DEF IInv, Gauged, Asks, Follows, Prog
  <2>5. Whole' /\ Moves'
    BY <2>1, ZenonT(40) DEF IInv, Whole, Moves, LeftAs, Prog, Leaves, Leaving, There, Arrives
  <2>6. RefusedLeavesAlone' /\ SuccessIsWhole' /\ JournalWhereAsked'
    BY <2>1 DEF IInv, RefusedLeavesAlone, SuccessIsWhole, JournalWhereAsked, LeftAs, Prog
  <2>7. QED
    BY <2>2, <2>3, <2>4, <2>5, <2>6 DEF IInv
<1>3. QED
  BY <1>1, <1>2

(* The inductive invariant, whatever is on the command line, whatever the  *)
(* devices are and whatever fails (the main functions of progsreiserfs).   *)
THEOREM Sound == Spec => []IInv
<1>1. IInv /\ [Next]_vars => IInv'
  BY NextIsSound
<1>2. QED
  BY <1>1, InitIsSound, PTL DEF Spec

(* Everything stays in its range, and what a gauge says at last is true    *)
(* (gauge.c, exception.c, the ends of the programs).                       *)
THEOREM InvHolds == Spec => []Inv
<1>1. IInv => TypeOK
  <2> SUFFICES ASSUME IInv  PROVE TypeOK
    OBVIOUS
  <2>1. lib.fetch = 0
    BY DEF IInv, Gauged, Words
  <2>2. QED
    BY <2>1 DEF IInv, Typed, TypeOK
<1>2. IInv => GaugeTold
  BY DEF IInv, Gauged, Words, GaugeTold
<1>3. IInv => Inv
  BY <1>1, <1>2 DEF Inv
<1>4. QED
  BY <1>3, Sound, PTL

(* Nothing is written without a yes (progs_choose and what comes before).  *)
THEOREM RefusedLeavesAloneHolds == Spec => []RefusedLeavesAlone
<1>1. IInv => RefusedLeavesAlone
  BY DEF IInv
<1>2. QED
  BY <1>1, Sound, PTL

(* An exit code of 0 after a yes means that all of it is done, however many*)
(* steps could have failed before (the ends of the main functions).        *)
THEOREM SuccessIsWholeHolds == Spec => []SuccessIsWhole
<1>1. IInv => SuccessIsWhole
  BY DEF IInv
<1>2. QED
  BY <1>1, Sound, PTL

(* The journal is where tunefs was told to put it, whatever devices and    *)
(* boundaries there are (tunefs.c, reiserfs_fs_journal_tune).              *)
THEOREM JournalWhereAskedHolds == Spec => []JournalWhereAsked
<1>1. IInv => JournalWhereAsked
  BY DEF IInv
<1>2. QED
  BY <1>1, Sound, PTL
=============================================================================

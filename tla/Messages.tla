------------------------------ MODULE Messages ------------------------------
(***************************************************************************)
(* What the library says to the user: messages (exception.c) and the       *)
(* progress of a long operation (gauge.c, callback.c), with the allocator  *)
(* that both use (libreiserfs.c).  The library keeps a pointer to one      *)
(* installed gauge, and a message that is thrown ends it with "failed".    *)
(*                                                                         *)
(* The operators take the state of both as a record and answer the next.   *)
(***************************************************************************)
EXTENDS Integers, Sequences

NoGauge == [live |-> FALSE, name |-> "", value |-> 0, state |-> "none", troubled |-> FALSE]

(* The allocated gauge with its history: a message was thrown since it was *)
(* started; whether the library's pointer is set; a message that was       *)
(* fetched and is still there; how often fetching was asked for; the last  *)
(* answer to a message, the last word on the screen; and whether the       *)
(* pointer was followed after the gauge was freed.                         *)
Silence ==
  [gauge |-> NoGauge, installed |-> FALSE, pending |-> FALSE, fetch |-> 0,
   answer |-> "none", shown |-> "", astray |-> FALSE]

-----------------------------------------------------------------------------
(* default_gauge_handler and libreiserfs_gauge_touch.                      *)
GaugeHandler(gauge) ==
  CASE gauge.state = "started" -> gauge.name
    [] gauge.state = "done" -> "done"
    [] gauge.state = "failed" -> "failed"
    [] OTHER -> "progress"

GaugeTouch(m) ==
  IF m.gauge.state = "stoped" THEN m ELSE [m EXCEPT !.shown = GaugeHandler(m.gauge)]

GaugeReset(m) ==
  [m EXCEPT !.gauge.value = 0, !.gauge.state = "started", !.gauge.troubled = FALSE]

(* A name that is there already is not shown again.                        *)
GaugeSetName(m, name) ==
  IF m.gauge.name = name THEN m
  ELSE GaugeTouch([m EXCEPT !.gauge.name = name, !.gauge.state = "started"])

GaugeSetValue(m, value) ==
  IF m.gauge.value = value THEN m
  ELSE [GaugeTouch([m EXCEPT !.gauge.value = value]) EXCEPT !.gauge.state = "running"]

(* Slip: a gauge that has failed is finished once more.                    *)
GaugeFinishAgain(m, success) ==
  GaugeTouch([m EXCEPT !.gauge.value = 100, !.gauge.state = IF success THEN "done" ELSE "failed"])

GaugeFinish(m, success) ==
  IF m.gauge.state \in {"done", "failed"} THEN m
  ELSE GaugeTouch([m EXCEPT !.gauge.value = 100,
                            !.gauge.state = IF success THEN "done" ELSE "failed"])

(* libreiserfs_gauge_create when there is memory, and _free.               *)
GaugeCreate(m, name) ==
  LET new == GaugeReset([m EXCEPT !.gauge = [NoGauge EXCEPT !.live = TRUE, !.name = name]])
  IN  IF name = "" THEN new ELSE GaugeTouch(new)

GaugeFree(m) == [m EXCEPT !.gauge = NoGauge]
SetGauge(m, on) == [m EXCEPT !.installed = on]

-----------------------------------------------------------------------------
(* libreiserfs_exception_catch.                                            *)
Catch(m) == [m EXCEPT !.pending = FALSE]

(* default_handler: a single choice is answered, several are not.          *)
DefaultHandler(options) ==
  IF options \in {"ok", "cancel", "ignore"} THEN options ELSE "unhandled"

(* do_throw.                                                               *)
DoThrow(m, options) ==
  IF m.fetch > 0 THEN [m EXCEPT !.pending = TRUE, !.answer = "unhandled"]
  ELSE Catch([m EXCEPT !.answer = DefaultHandler(options)])

(* The installed gauge is ended before the message is shown.               *)
Ended(m) ==
  IF ~m.installed THEN m
  ELSE IF ~m.gauge.live THEN [m EXCEPT !.astray = TRUE]
  ELSE IF m.gauge.state = "done" THEN m
  ELSE GaugeFinish([m EXCEPT !.gauge.troubled = TRUE], FALSE)

(* libreiserfs_exception_throw.                                            *)
Throw(m, options) == DoThrow(Ended(Catch(m)), options)

(* Memory is short for the message, then there is some for the message     *)
(* about that, which is all that is shown.  With none at all the message   *)
(* about the shortage is thrown again and again until the stack is used up.*)
ThrowShort(m) == [Throw(Catch(m), "cancel") EXCEPT !.answer = "unhandled"]

FetchAll(m) == [m EXCEPT !.fetch = @ + 1]
LeaveAll(m) == [m EXCEPT !.fetch = @ - 1]

(* libreiserfs_malloc without memory.                                      *)
OutOfMemory(m) == {Throw(m, "cancel"), ThrowShort(m)}

-----------------------------------------------------------------------------
(* A phase of a library call: the gauge is named, follows the blocks of a  *)
(* segment and is finished, or a failure leaves it to the message.         *)
CallbackSegmentGauge(m, number, len) ==
  IF m.installed THEN GaugeSetValue(m, (number * 100) \div len) ELSE m

PhaseStarts(m, name) ==
  IF m.installed
  THEN CallbackSegmentGauge(GaugeSetName(GaugeReset(m), name), 1, 2)
  ELSE m

PhaseEnds(m) == IF m.installed THEN GaugeFinish(m, TRUE) ELSE m
=============================================================================

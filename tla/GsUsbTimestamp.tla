--------------------------- MODULE GsUsbTimestamp ---------------------------
(***************************************************************************)
(* Hardware timestamps in the SocketCAN driver (kernel/6.14/gs_usb.c).     *)
(* The device stamps a frame with its 1 MHz counter, which wraps around.   *)
(* The driver keeps a timecounter: the counter value it read last and the  *)
(* time that corresponds to it.  A worker reads the counter often enough   *)
(* that the two can never be half a wrap apart; the receive callback       *)
(* converts a frame's stamp relative to the last reading, also while the   *)
(* worker, which drops the lock for its USB transfer, is reading.          *)
(***************************************************************************)
EXTENDS Integers

CONSTANTS
    Wrap,       \* 2^32: the counter's range
    Delay,      \* GS_USB_TIMESTAMP_WORK_DELAY_SEC, in ticks
    Late,       \* how much later than due a reading may be finished
    Latency,    \* how old a frame may be when it is received
    ReadFails,  \* reading the counter may fail
    MaxNow      \* bound: how long the device runs

ASSUME TimesAssumption ==
    /\ Wrap \in Nat \ {0} /\ (Wrap % 2) = 0
    /\ Delay \in Nat /\ Late \in Nat /\ Latency \in Nat /\ MaxNow \in Nat
    /\ Delay + Late < Wrap \div 2 /\ Latency < Wrap \div 2
ASSUME ReadFailsAssumption == ReadFails \in BOOLEAN

NoFrame == -1

VARIABLES
    now,         \* the device's time, without the wrap
    start,       \* the device's time when the timecounter was initialised
    failed,      \* a reading has failed
    skew,        \* what a failed first reading made all times wrong by
    cycle_last,  \* tc.cycle_last
    nsec,        \* tc.nsec, in ticks, from the initialisation on
    lastAt,      \* the device's time at the last reading (or failure to read)
    worker,      \* "idle", "asking" the device, or "answered"
    answer,      \* what gs_usb_get_timestamp has brought, and when
    frame,       \* when the frame under way was stamped, or NoFrame
    stamp        \* the last conversion: the frame's time and what it got

vars == <<now, start, failed, skew, cycle_last, nsec, lastAt, worker, answer, frame, stamp>>

Counter(t) == t % Wrap

\* The counter's way from value b to value a: (a - b) & mask.
Delta(a, b) == (a - b) % Wrap

\* gs_usb_timestamp_init: a failed reading counts as 0.
Init ==
    /\ now \in 0 .. Wrap - 1 /\ start = now
    /\ \/ cycle_last = now /\ skew = 0 /\ failed = FALSE
       \/ ReadFails /\ cycle_last = 0 /\ skew = now /\ failed = TRUE
    /\ nsec = 0 /\ lastAt = now
    /\ worker = "idle" /\ answer = [value |-> 0, at |-> 0]
    /\ frame = NoFrame /\ stamp = [time |-> now, got |-> skew]

-----------------------------------------------------------------------------
(***************************************************************************)
(* gs_usb_timestamp_work: timecounter_read calls gs_usb_timestamp_read.    *)
(***************************************************************************)

\* The delay is over; the lock is dropped for the transfer.
Ask ==
    /\ worker = "idle" /\ now >= lastAt + Delay
    /\ worker' = "asking"
    /\ UNCHANGED <<now, start, failed, skew, cycle_last, nsec, lastAt, answer, frame, stamp>>

\* The device answers, or the transfer fails and the value is 0.
Answer ==
    /\ worker = "asking"
    /\ worker' = "answered"
    /\ answer' = [value |-> Counter(now), at |-> now]
    /\ UNCHANGED <<now, start, failed, skew, cycle_last, nsec, lastAt, frame, stamp>>

AnswerFails ==
    /\ ReadFails
    /\ worker = "asking"
    /\ worker' = "answered"
    /\ answer' = [value |-> 0, at |-> now]
    /\ failed' = TRUE
    /\ UNCHANGED <<now, start, skew, cycle_last, nsec, lastAt, frame, stamp>>

\* Mutant: the difference is not taken modulo the counter's range.
AdvanceUnmasked ==
    /\ worker = "answered"
    /\ nsec' = nsec + answer.value - cycle_last
    /\ cycle_last' = answer.value
    /\ lastAt' = answer.at
    /\ worker' = "idle"
    /\ UNCHANGED <<now, start, failed, skew, answer, frame, stamp>>

\* With the lock again: timecounter_read advances the time by the difference.
Advance ==
    /\ worker = "answered"
    /\ nsec' = nsec + Delta(answer.value, cycle_last)
    /\ cycle_last' = answer.value
    /\ lastAt' = answer.at
    /\ worker' = "idle"
    /\ UNCHANGED <<now, start, failed, skew, answer, frame, stamp>>

(***************************************************************************)
(* Frames                                                                  *)
(***************************************************************************)

\* The device stamps a frame.
Stamp ==
    /\ frame = NoFrame
    /\ frame' = now
    /\ UNCHANGED <<now, start, failed, skew, cycle_last, nsec, lastAt, worker, answer, stamp>>

\* Mutant: a stamp is always taken to be later than the last reading.
Cyc2TimeForward(t) == nsec + Delta(t, cycle_last)

\* timecounter_cyc2time: half a range ahead of the last reading is behind it.
Cyc2Time(t) ==
    LET ahead == Delta(t, cycle_last)
    IN  IF ahead > (Wrap - 1) \div 2
        THEN nsec - Delta(cycle_last, t)
        ELSE nsec + ahead

\* gs_usb_set_timestamp, in the receive callback, when the lock is free.
Receive ==
    /\ frame # NoFrame
    /\ stamp' = [time |-> frame, got |-> Cyc2Time(Counter(frame))]
    /\ frame' = NoFrame
    /\ UNCHANGED <<now, start, failed, skew, cycle_last, nsec, lastAt, worker, answer>>

\* Time passes; a new reading is in use at most Late after its due time, a frame is at
\* most Latency old.
Tick ==
    /\ now < MaxNow
    /\ now < lastAt + Delay + Late
    /\ frame # NoFrame => now < frame + Latency
    /\ now' = now + 1
    /\ UNCHANGED <<start, failed, skew, cycle_last, nsec, lastAt, worker, answer, frame, stamp>>

Next == Ask \/ Answer \/ AnswerFails \/ Advance \/ Stamp \/ Receive \/ Tick

Spec == Init /\ [][Next]_vars

-----------------------------------------------------------------------------
(***************************************************************************)
(* Properties.                                                             *)
(***************************************************************************)

\* Type invariant.
TypeOK ==
    /\ now \in (0 .. MaxNow) \cup (0 .. Wrap - 1) /\ start \in 0 .. Wrap - 1
    /\ failed \in BOOLEAN /\ skew \in 0 .. Wrap - 1
    /\ cycle_last \in 0 .. Wrap - 1 /\ nsec \in Nat /\ lastAt \in 0 .. now
    /\ worker \in {"idle", "asking", "answered"} /\ answer \in [value : 0 .. Wrap - 1, at : 0 .. now]
    /\ frame \in (0 .. now) \cup {NoFrame}
    /\ stamp \in [time : 0 .. now, got : Int]

\* "Worker accounts for timer overflow" (gs_usb.c:47): a frame gets the time that
\* has passed since the initialisation, however often the counter has wrapped, and
\* also when it was stamped before, and received after, a reading of the counter,
\* as long as every reading succeeds.  A failed reading makes timestamps "inaccurate"
\* (gs_usb.c:430), but by nothing other than whole wraps of the counter, besides the
\* skew of a failed first one.
TimestampsExact ==
    /\ ~failed => stamp.got = stamp.time - start
    /\ Delta(stamp.got, stamp.time - start + skew) = 0
=============================================================================

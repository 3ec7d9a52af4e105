---------------------------- MODULE MachineTimer ----------------------------
(***************************************************************************)
(* The system clock of the HAL: the 64-bit counter mtime and its compare   *)
(* register mtimecmp, both reached by a 32-bit processor one word at a     *)
(* time, the machine timer interrupt that counts system ticks, and what    *)
(* the application does with the clock (alt_timestamp, usleep, alt_nticks).*)
(*                                                                         *)
(* Time passes between any two word accesses. Two contexts run the same    *)
(* code: the application, and the interrupt, which runs to completion      *)
(* before the application goes on. A word holds W values, so that a carry  *)
(* from the low word to the high one happens within a small bound.         *)
(*                                                                         *)
(* A definition named Mut... is the one after it with a plausible bug in.  *)
(***************************************************************************)
EXTENDS Integers

CONSTANTS
  W,           \* values of a word: 2^32, scaled down
  Delta,       \* MTIMECMP_DELTA_AMT, cycles of a system tick
  MHz,         \* CPU_FREQUENCY_MHZ, cycles of a microsecond
  SleepArgs,   \* arguments of usleep()
  MaxLatency,  \* bound: cycles for which the start-up and a due interrupt hold time up
  MaxTime      \* bound: the clock stops there

\* The clock stays far from the end of its 64-bit range.
ASSUME TimerAssumption ==
  /\ W \in Nat /\ W >= 2
  /\ Delta \in Nat \ {0} /\ MHz \in Nat \ {0} /\ SleepArgs \subseteq Nat
  /\ MaxLatency \in Nat \ {0}
  /\ MaxTime \in Nat /\ MaxTime + Delta < W * (W - 1)

VARIABLES
  mtime, mtimecmp,   \* the timer's two registers
  mie, mtie,         \* mstatus.MIE and the timer's bit of mie
  nticks,            \* _alt_nticks
  offset,            \* alt_niosv_timestamp_offset
  pc,                \* where each context is
  highbits, lowbits, \* locals of the alt_niosv_mtime_get each context runs
  op,                \* what the application called
  us, endTime,       \* argument and end_time of alt_busy_sleep
  ticks,             \* the copy of _alt_nticks being read
  \* history: when each mtime_get, the usleep() and the tick count's reading began,
  \* the time the first tick was counted from, and the time the last sleep was short by
  began, sleptFrom, ticksBefore, armedAt, short

timer == <<mtime, mtimecmp, mie, mtie>>
locals == <<highbits, lowbits>>
sleeping == <<us, endTime, sleptFrom, short>>
counting == <<ticks, ticksBefore>>
vars == <<timer, nticks, offset, pc, locals, op, sleeping, counting, began, armedAt>>

Contexts == {"app", "isr"}
Low(x) == x % W
High(x) == x \div W
Join(h, l) == h * W + l

\* The timer asserts its interrupt.
Due == mtime >= mtimecmp

Init ==
  /\ mtime = 0 /\ mtimecmp \in {0, W * W - 1} /\ mie = TRUE /\ mtie = FALSE
  /\ nticks = 0 /\ offset = 0
  /\ pc = [app |-> "high", isr |-> "off"] /\ op = "init"
  /\ highbits = [c \in Contexts |-> 0] /\ lowbits = [c \in Contexts |-> 0]
  /\ us = 0 /\ endTime = 0 /\ sleptFrom = 0 /\ short = 0
  /\ ticks = 0 /\ ticksBefore = 0
  /\ began = [c \in Contexts |-> 0] /\ armedAt = 0

\* The application runs only while the interrupt does not.
At(c, label) == pc[c] = label /\ (c = "app" => pc["isr"] = "off")
Goto(c, label) == pc' = [pc EXCEPT ![c] = label]

Clock ==
  /\ mtime < MaxTime /\ mtime' = mtime + 1
  /\ mtie /\ Due => mtime - mtimecmp < MaxLatency
  /\ op = "init" => mtime < MaxLatency
  /\ UNCHANGED <<mtimecmp, mie, mtie, nticks, offset, pc, locals, op, sleeping,
                 counting, began, armedAt>>

-----------------------------------------------------------------------------
(* alt_niosv_mtime_get: high word, low word, and the high word again until *)
(* it has not changed. Its value is there at label "got".                  *)

Time(c) == Join(highbits[c], lowbits[c])

ReadHigh(c) ==
  /\ At(c, "high") /\ Goto(c, "low")
  /\ highbits' = [highbits EXCEPT ![c] = High(mtime)]
  /\ UNCHANGED <<timer, nticks, offset, lowbits, op, sleeping, counting, began, armedAt>>

ReadLow(c) ==
  /\ At(c, "low") /\ Goto(c, "again")
  /\ lowbits' = [lowbits EXCEPT ![c] = Low(mtime)]
  /\ UNCHANGED <<timer, nticks, offset, highbits, op, sleeping, counting, began, armedAt>>

MutReadAgain(c) ==
  /\ At(c, "again") /\ Goto(c, "got")
  /\ UNCHANGED <<timer, nticks, offset, locals, op, sleeping, counting, began, armedAt>>
ReadAgain(c) ==
  /\ At(c, "again")
  /\ Goto(c, IF High(mtime) = highbits[c] THEN "got" ELSE "high")
  /\ UNCHANGED <<timer, nticks, offset, locals, op, sleeping, counting, began, armedAt>>

-----------------------------------------------------------------------------
(* alt_niosv_mtimecmp_set(curr_time + MTIMECMP_DELTA_AMT), by the          *)
(* interrupt and by alt_niosv_mtimecmp_interrupt_init.                     *)

Target(c) == Time(c) + Delta

\* The high word goes to its largest value first.
SetHighMax(c) ==
  /\ At(c, "got") /\ (c = "app" => op = "init") /\ Goto(c, "set_low")
  /\ mtimecmp' = Join(W - 1, Low(mtimecmp))
  /\ UNCHANGED <<mtime, mie, mtie, nticks, offset, locals, op, sleeping, counting,
                 began, armedAt>>

MutSetLow(c) ==
  /\ At(c, "set_low") /\ Goto(c, "set_high")
  /\ mtimecmp' = Join(High(mtimecmp), Target(c))
  /\ UNCHANGED <<mtime, mie, mtie, nticks, offset, locals, op, sleeping, counting,
                 began, armedAt>>
SetLow(c) ==
  /\ At(c, "set_low") /\ Goto(c, "set_high")
  /\ mtimecmp' = Join(High(mtimecmp), Low(Target(c)))
  /\ UNCHANGED <<mtime, mie, mtie, nticks, offset, locals, op, sleeping, counting,
                 began, armedAt>>

SetHigh(c) ==
  /\ At(c, "set_high") /\ Goto(c, "set")
  /\ mtimecmp' = Join(High(Target(c)), Low(mtimecmp))
  /\ UNCHANGED <<mtime, mie, mtie, nticks, offset, locals, op, sleeping, counting,
                 began, armedAt>>

-----------------------------------------------------------------------------
(* alt_niosv_timer_sc_isr *)

TakeInterrupt ==
  /\ pc["isr"] = "off" /\ mie /\ mtie /\ Due
  /\ Goto("isr", "high") /\ began' = [began EXCEPT !["isr"] = mtime]
  /\ UNCHANGED <<timer, nticks, offset, locals, op, sleeping, counting, armedAt>>

\* alt_tick counts the tick, with interrupts disabled; the interrupt returns.
Tick ==
  /\ At("isr", "set") /\ Goto("isr", "off")
  /\ nticks' = nticks + 1
  /\ highbits' = [highbits EXCEPT !["isr"] = 0] /\ lowbits' = [lowbits EXCEPT !["isr"] = 0]
  /\ began' = [began EXCEPT !["isr"] = 0]
  /\ UNCHANGED <<timer, offset, op, sleeping, counting, armedAt>>

-----------------------------------------------------------------------------
(* The application *)

\* The call is over; its locals are gone.
AppReturns ==
  /\ Goto("app", "idle") /\ op' = "none"
  /\ highbits' = [highbits EXCEPT !["app"] = 0] /\ lowbits' = [lowbits EXCEPT !["app"] = 0]
  /\ began' = [began EXCEPT !["app"] = 0]

\* A new alt_niosv_mtime_get begins, in call o.
AppReadsTime(o) ==
  /\ Goto("app", "high") /\ op' = o /\ began' = [began EXCEPT !["app"] = mtime]

\* The end of alt_niosv_mtimecmp_interrupt_init: the timer interrupt is on.
EnableTimer ==
  /\ At("app", "set") /\ op = "init" /\ AppReturns
  /\ mtie' = TRUE /\ armedAt' = Time("app")
  /\ UNCHANGED <<mtime, mtimecmp, mie, nticks, offset, sleeping, counting>>

\* alt_timestamp_start, called by the application or first thing by alt_busy_sleep.
TimestampStart ==
  /\ At("app", "idle") /\ AppReadsTime("start")
  /\ UNCHANGED <<timer, nticks, offset, locals, sleeping, counting, armedAt>>

TimestampStarted ==
  /\ At("app", "got") /\ op = "start"
  /\ offset' = Time("app") /\ AppReturns
  /\ UNCHANGED <<timer, nticks, sleeping, counting, armedAt>>

\* usleep(): alt_busy_sleep(u) with the timestamp driver.
Sleep(u) ==
  /\ At("app", "idle") /\ AppReadsTime("sleep_start")
  /\ us' = u /\ sleptFrom' = mtime
  /\ UNCHANGED <<timer, nticks, offset, locals, endTime, short, counting, armedAt>>

\* The timestamp restarts, and end_time is a product of two 32-bit numbers.
MutSleepStarted ==
  /\ At("app", "got") /\ op = "sleep_start"
  /\ endTime' = Low(MHz * us)
  /\ AppReadsTime("sleep")
  /\ UNCHANGED <<timer, nticks, offset, locals, us, sleptFrom, short, counting, armedAt>>
SleepStarted ==
  /\ At("app", "got") /\ op = "sleep_start"
  /\ offset' = Time("app") /\ endTime' = Low(MHz * us)
  /\ AppReadsTime("sleep")
  /\ UNCHANGED <<timer, nticks, locals, us, sleptFrom, short, counting, armedAt>>

\* while (alt_timestamp() < end_time) ;
MutSpin ==
  /\ At("app", "got") /\ op = "sleep" /\ Time("app") - offset < endTime
  /\ UNCHANGED vars
Spin ==
  /\ At("app", "got") /\ op = "sleep" /\ Time("app") - offset < endTime
  /\ AppReadsTime("sleep")
  /\ UNCHANGED <<timer, nticks, offset, locals, sleeping, counting, armedAt>>

Woken ==
  /\ At("app", "got") /\ op = "sleep" /\ Time("app") - offset >= endTime
  /\ short' = (IF mtime - sleptFrom < MHz * us THEN MHz * us ELSE 0)
  /\ us' = 0 /\ endTime' = 0 /\ sleptFrom' = 0
  /\ AppReturns
  /\ UNCHANGED <<timer, nticks, offset, counting, armedAt>>

\* alt_nticks(): with interrupts disabled in alt_alarm_start, as it is elsewhere. The
\* compiler loads the two words in either order.
ReadTicks(guarded, first) ==
  /\ At("app", "idle") /\ Goto("app", first) /\ op' = IF guarded THEN "alarm" ELSE "ticks"
  /\ mie' = ~guarded
  /\ ticks' = 0 /\ ticksBefore' = nticks
  /\ UNCHANGED <<mtime, mtimecmp, mtie, nticks, offset, locals, sleeping, began, armedAt>>

\* The first and the second load.
LoadFirst(first, second, word) ==
  /\ At("app", first) /\ Goto("app", second) /\ ticks' = word
  /\ UNCHANGED <<timer, nticks, offset, locals, op, sleeping, ticksBefore, began, armedAt>>

LoadSecond(second, word) ==
  /\ At("app", second) /\ Goto("app", "read") /\ ticks' = ticks + word
  /\ UNCHANGED <<timer, nticks, offset, locals, op, sleeping, ticksBefore, began, armedAt>>

LoadTicks ==
  \/ LoadFirst("low_high", "high_last", Low(nticks))
  \/ LoadFirst("high_low", "low_last", W * High(nticks))
  \/ LoadSecond("high_last", W * High(nticks))
  \/ LoadSecond("low_last", Low(nticks))

\* The value is used, and interrupts are enabled again.
MutTicksRead ==
  /\ At("app", "read") /\ AppReturns
  /\ ticks' = 0 /\ ticksBefore' = 0
  /\ UNCHANGED <<timer, nticks, offset, sleeping, armedAt>>
TicksRead ==
  /\ At("app", "read") /\ AppReturns
  /\ mie' = TRUE /\ ticks' = 0 /\ ticksBefore' = 0
  /\ UNCHANGED <<mtime, mtimecmp, mtie, nticks, offset, sleeping, armedAt>>

-----------------------------------------------------------------------------
TimeGet(c) == ReadHigh(c) \/ ReadLow(c) \/ ReadAgain(c)
CompareSet(c) == SetHighMax(c) \/ SetLow(c) \/ SetHigh(c)
Isr == TimeGet("isr") \/ CompareSet("isr") \/ Tick
AppCall ==
  \/ TimestampStart
  \/ \E u \in SleepArgs : Sleep(u)
  \/ \E g \in BOOLEAN, f \in {"low_high", "high_low"} : ReadTicks(g, f)
AppStep ==
  \/ TimeGet("app") \/ CompareSet("app") \/ EnableTimer
  \/ TimestampStarted \/ SleepStarted \/ Spin \/ Woken
  \/ LoadTicks \/ TicksRead
Next == Clock \/ TakeInterrupt \/ Isr \/ AppCall \/ AppStep

Spec == Init /\ [][Next]_vars

\* Time passes, the processor takes an interrupt that stays pending and enabled, runs
\* the interrupt routine, and runs the application whenever it does not.
Fairness ==
  WF_vars(Clock) /\ SF_vars(TakeInterrupt) /\ WF_vars(Isr) /\ SF_vars(AppStep)
FairSpec == Spec /\ Fairness

-----------------------------------------------------------------------------
(* Properties *)

AppLabels == {"idle", "high", "low", "again", "got", "set_low", "set_high", "set",
              "low_high", "high_low", "low_last", "high_last", "read"}
IsrLabels == {"off", "high", "low", "again", "got", "set_low", "set_high", "set"}

\* Each variable has its type; the compare register keeps two words.
TypeOK ==
  /\ mtime \in 0 .. MaxTime /\ mtimecmp \in 0 .. (W * W - 1)
  /\ mie \in BOOLEAN /\ mtie \in BOOLEAN
  /\ nticks \in Nat /\ offset \in Nat
  /\ pc \in [Contexts -> AppLabels \cup IsrLabels]
  /\ pc["app"] \in AppLabels /\ pc["isr"] \in IsrLabels
  /\ highbits \in [Contexts -> Nat] /\ lowbits \in [Contexts -> 0 .. (W - 1)]
  /\ op \in {"none", "init", "start", "sleep_start", "sleep", "alarm", "ticks"}
  /\ us \in Nat /\ endTime \in 0 .. (W - 1) /\ sleptFrom \in Nat /\ short \in Nat
  /\ ticks \in Nat /\ ticksBefore \in Nat
  /\ began \in [Contexts -> Nat] /\ armedAt \in Nat

\* alt_niosv_mtime_get returns a time the clock showed while it ran, though it reads
\* two words while the low one may carry into the high one.
TimeIsReal ==
  \A c \in Contexts : pc[c] = "got" => Time(c) \in began[c] .. mtime

\* While mtimecmp is rewritten word by word, no intermediate value makes the timer
\* assert its interrupt.
NoInadvertentTrigger ==
  \A c \in Contexts : pc[c] \in {"set_low", "set_high"} => ~Due

\* Ticks never run ahead of the clock: every tick counted stands for Delta cycles.
NoEarlyTick == nticks > 0 => nticks * Delta <= mtime - armedAt

\* alt_alarm_start computes an alarm's time from a tick count that is the current one.
AlarmTicksCurrent == (pc["app"] = "read" /\ op = "alarm") => ticks = nticks

\* What is read and written a word at a time, with interrupts in between, is as good as
\* the clock itself: no torn time or tick count, and no tick ahead of its time.
ClockIsSound == TimeIsReal /\ NoInadvertentTrigger /\ NoEarlyTick /\ AlarmTicksCurrent

\* usleep() sleeps at least as long as it was asked, for requests that fit.
SleepLongEnough == short = 0 \/ short >= W

\* With no interrupt pending or running, every Delta cycles have been a tick, however
\* long each tick took to be handled.
TicksPerSecond ==
  (mtie /\ pc["isr"] = "off" /\ ~Due) => nticks = (mtime - armedAt) \div Delta

\* A tick that is due is handled: its interrupt sets the timer again, later than now,
\* and returns, however long interrupts were held off before it.
DueIsHandled == (mtie /\ Due) ~> (~Due /\ pc["isr"] = "off")

\* usleep() returns, in so far as the clock reaches its end.
SleepEnds ==
  (op = "sleep" /\ offset + endTime <= MaxTime) ~> op # "sleep"
=============================================================================

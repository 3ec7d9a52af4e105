----------------------------- MODULE TimeOfDay ------------------------------
(***************************************************************************)
(* gettimeofday, settimeofday and times over the tick count. The count has *)
(* two machine words and a call reads them one after the other, with       *)
(* interrupts on: the tick interrupt may carry from the low word into the  *)
(* high one in between. Which word is read first is the compiler's choice. *)
(*                                                                         *)
(* A definition named Mut... is the one after it with a plausible bug in.  *)
(***************************************************************************)
EXTENDS Integers

CONSTANTS
  ALT_US,    \* microseconds in a second
  TickRates, \* rates of the system clock, which divide ALT_US, as 1000 does
  Times,     \* arguments of settimeofday
  Word,      \* values of a machine word
  MaxTicks   \* bound: ticks counted

VARIABLES
  ticks,          \* _alt_nticks
  tick_rate,      \* _alt_tick_rate, zero without a system clock
  alt_resettime,  \* what was set, less the ticks counted then
  call,           \* the call being made and, for settimeofday, its argument
  nticks,         \* the words it has read
  result,         \* what it returns
  began, set      \* history: the count when the call began; the time set and its count

todVars == <<ticks, tick_rate, alt_resettime, call, nticks, result, began, set>>

Idle == [of |-> "none"]
NotRead == [low |-> -1, high |-> -1]
Unset == [time |-> 0, at |-> 0]

Init ==
  /\ ticks = 0 /\ tick_rate = 0 /\ alt_resettime = [tv_sec |-> 0, tv_usec |-> 0]
  /\ call = Idle /\ nticks = NotRead /\ result = Idle /\ began = 0 /\ set = Unset

-----------------------------------------------------------------------------
(* The system clock *)

SysclkInit ==
  /\ tick_rate = 0 /\ tick_rate' \in TickRates
  /\ UNCHANGED <<ticks, alt_resettime, call, nticks, result, began, set>>
Tick ==
  /\ tick_rate > 0 /\ ticks < MaxTicks /\ ticks' = ticks + 1
  /\ UNCHANGED <<tick_rate, alt_resettime, call, nticks, result, began, set>>

-----------------------------------------------------------------------------
(* The calls *)

Call(c) ==
  /\ call = Idle /\ call' = c /\ nticks' = NotRead /\ began' = ticks /\ result' = Idle
  /\ UNCHANGED <<ticks, tick_rate, alt_resettime, set>>

\* alt_nticks, word by word.
ReadWord(word, half) ==
  /\ call # Idle /\ nticks[word] = -1
  /\ nticks' = [nticks EXCEPT ![word] = half]
  /\ UNCHANGED <<ticks, tick_rate, alt_resettime, call, result, began, set>>
ReadLow == ReadWord("low", ticks % Word)
ReadHigh == ReadWord("high", ticks \div Word)

HaveRead(name) == call.of = name /\ nticks.low # -1 /\ nticks.high # -1
n == nticks.high * Word + nticks.low
seconds == n \div tick_rate
microseconds == (n * (ALT_US \div tick_rate)) % ALT_US

\* The loops that bring tv_usec into its range; one that would borrow from no seconds
\* gives up at zero.
Carried(sec, usec) ==
  IF usec < 0 /\ sec + usec \div ALT_US < 0 THEN [tv_sec |-> 0, tv_usec |-> 0]
  ELSE [tv_sec |-> sec + usec \div ALT_US, tv_usec |-> usec % ALT_US]

Return(r) == result' = r /\ call' = Idle /\ UNCHANGED <<ticks, tick_rate, nticks, began>>

\* -ENOTSUP without a system clock.
gettimeofday ==
  /\ HaveRead("gettimeofday")
  /\ Return(IF tick_rate = 0 THEN [of |-> "error"]
            ELSE [of |-> "time", time |-> Carried(alt_resettime.tv_sec + seconds,
                                                  alt_resettime.tv_usec + microseconds)])
  /\ UNCHANGED <<alt_resettime, set>>

\* ENOSYS without a system clock.
MutResetTime(t) == [tv_sec |-> t.tv_sec - seconds, tv_usec |-> t.tv_usec]
ResetTime(t) == [tv_sec |-> t.tv_sec - seconds, tv_usec |-> t.tv_usec - microseconds]
settimeofday ==
  /\ HaveRead("settimeofday")
  /\ IF tick_rate = 0
     THEN Return([of |-> "error"]) /\ UNCHANGED <<alt_resettime, set>>
     ELSE /\ Return(Idle) /\ alt_resettime' = ResetTime(call.t)
          /\ set' = [time |-> call.t.tv_sec * ALT_US + call.t.tv_usec, at |-> n]

\* clock_t has one word.
times ==
  /\ HaveRead("times")
  /\ Return(IF tick_rate = 0 THEN [of |-> "error"] ELSE [of |-> "ticks", ticks |-> n % Word])
  /\ UNCHANGED <<alt_resettime, set>>

Next ==
  \/ SysclkInit \/ Tick \/ ReadLow \/ ReadHigh
  \/ \E c \in {[of |-> "gettimeofday"], [of |-> "times"]}
              \cup [of : {"settimeofday"}, t : Times] : Call(c)
  \/ gettimeofday \/ settimeofday \/ times

Spec == Init /\ [][Next]_todVars

-----------------------------------------------------------------------------
(* Properties *)

TypeOK ==
  /\ ticks \in 0 .. MaxTicks /\ tick_rate \in TickRates \cup {0}
  /\ alt_resettime.tv_sec \in Int /\ alt_resettime.tv_usec \in Int
  /\ call.of \in {"none", "gettimeofday", "settimeofday", "times"}
  /\ nticks.low \in -1 .. (Word - 1) /\ nticks.high \in -1 .. (MaxTicks \div Word)
  /\ began \in 0 .. MaxTicks

\* The count a call has read is one the clock had during the call, or, if the low word
\* wrapped around during the call, one that is a whole word too low or too high.
During(count) == count \in began .. ticks
CountIsReal ==
  nticks.low # -1 /\ nticks.high # -1 /\ call # Idle =>
    \/ During(n)
    \/ began \div Word # ticks \div Word /\ (During(n + Word) \/ During(n - Word))

\* gettimeofday returns the time that was set, or zero at the start, and the ticks counted
\* since, whatever seconds and microseconds they carry into; unless the two counts are
\* torn that the time would be negative.
Elapsed == (n - set.at) * (ALT_US \div tick_rate)
TimeGoesOn ==
  result.of = "time" /\ set.time + Elapsed >= 0 =>
    result.time.tv_sec * ALT_US + result.time.tv_usec = set.time + Elapsed
    /\ result.time.tv_usec \in 0 .. (ALT_US - 1)

ClockIsKept == CountIsReal /\ TimeGoesOn
=============================================================================

------------------------- MODULE MachineTimer_proofs -------------------------
(***************************************************************************)
(* Proofs about the system clock, for words of any size, ticks of any      *)
(* length, any bound on its time and any sleeps.                           *)
(***************************************************************************)
EXTENDS MachineTimer, TLAPS

Loads == {"low_high", "high_low", "low_last", "high_last", "read"}
Setting == {"set_low", "set_high", "set"}

\* A reading of the clock: its low word is that of a time t since it began, at which the high
\* word was no less than the one read; if that has not changed since, t is what was read.
ReadingInv ==
  \A c \in Contexts :
    /\ began[c] <= mtime
    /\ pc[c] = "low" => highbits[c] <= High(mtime)
    /\ pc[c] = "again" =>
         \E t \in began[c] .. mtime : lowbits[c] = Low(t) /\ highbits[c] <= High(t)
    /\ pc[c] \in {"got"} \cup Setting => Time(c) \in began[c] .. mtime

\* The timer's interrupt is off as long as the start-up sets it, so that no two contexts set
\* it at once; an alarm's tick count is read with interrupts off.
ModeInv ==
  /\ op = "init" <=> mtie = FALSE
  /\ mtie = FALSE => pc["isr"] = "off" /\ nticks = 0
  /\ pc["app"] \in Setting => op = "init"
  /\ pc["app"] = "idle" => op = "none"
  /\ pc["app"] \in Loads => op \in {"alarm", "ticks"}
  /\ op = "alarm" => mie = FALSE /\ pc["isr"] = "off" /\ pc["app"] \in Loads

\* The half of the tick count that was loaded is still that of the count.
CountInv ==
  op = "alarm" =>
    /\ pc["app"] = "high_last" => ticks = Low(nticks)
    /\ pc["app"] = "low_last" => ticks = W * High(nticks)
    /\ pc["app"] = "read" => ticks = nticks

\* While it is set the compare register is beyond every time, and then at its target; an
\* interrupt is a tick's length later than the ticks counted before it.
CompareInv ==
  /\ \A c \in Contexts :
       /\ pc[c] \in {"set_low", "set_high"} => High(mtimecmp) = W - 1
       /\ pc[c] = "set_high" => Low(mtimecmp) = Low(Target(c))
       /\ pc[c] = "set" => mtimecmp = Target(c)
  /\ armedAt + nticks * Delta <= mtime
  /\ mtie /\ pc["isr"] = "off" => armedAt + (nticks + 1) * Delta <= mtimecmp
  /\ pc["isr"] # "off" => armedAt + (nticks + 1) * Delta <= began["isr"]

\* A sleep's timestamp starts within it, and ends with the low word of what was asked.
SleepInv ==
  /\ short = 0 \/ short >= W
  /\ op = "sleep_start" => sleptFrom <= began["app"]
  /\ op = "sleep" => sleptFrom <= offset /\ endTime = Low(MHz * us)

IInv == TypeOK /\ ReadingInv /\ ModeInv /\ CountInv /\ CompareInv /\ SleepInv

-----------------------------------------------------------------------------
(* Numbers of two words *)

LEMMA Words ==
  ASSUME NEW x \in Nat
  PROVE  Low(x) \in 0 .. (W - 1) /\ High(x) \in Nat /\ x = W * High(x) + Low(x)
BY TimerAssumption DEF Low, High

\* A number of two words has no other words.
LEMMA WordsOf ==
  ASSUME NEW h \in Nat, NEW l \in 0 .. (W - 1)
  PROVE  /\ Join(h, l) \in Nat /\ Join(h, l) = W * h + l
         /\ High(Join(h, l)) = h /\ Low(Join(h, l)) = l
<1> DEFINE x == W * h + l
<1>1. x \in Nat BY TimerAssumption
<1>2. Join(h, l) = x BY TimerAssumption DEF Join
<1>3. Low(x) \in 0 .. (W - 1) /\ High(x) \in Nat /\ x = W * High(x) + Low(x) BY <1>1, Words
<1>4. High(x) = h
  <2>1. W * (High(x) - h) = l - Low(x) BY <1>3, TimerAssumption
  <2>2. CASE High(x) > h
    <3>1. W * (High(x) - h) >= W BY <1>3, <2>2, TimerAssumption
    <3> QED BY <1>3, <2>1, <3>1, TimerAssumption
  <2>3. CASE High(x) < h
    <3>1. W * (High(x) - h) <= -W BY <1>3, <2>3, TimerAssumption
    <3> QED BY <1>3, <2>1, <3>1, TimerAssumption
  <2> QED BY <1>3, <2>2, <2>3
<1>5. Low(x) = l BY <1>3, <1>4, TimerAssumption
<1> QED BY <1>1, <1>2, <1>4, <1>5

LEMMA Rejoined ==
  ASSUME NEW x \in Nat
  PROVE  Join(High(x), Low(x)) = x
BY Words, WordsOf

\* The high word grows with the number.
LEMMA HighGrows ==
  ASSUME NEW x \in Nat, NEW y \in Nat, x <= y
  PROVE  High(x) <= High(y)
<1>1. /\ Low(x) \in 0 .. (W - 1) /\ High(x) \in Nat /\ x = W * High(x) + Low(x)
      /\ Low(y) \in 0 .. (W - 1) /\ High(y) \in Nat /\ y = W * High(y) + Low(y)
  BY Words
<1>2. SUFFICES ASSUME High(x) > High(y) PROVE FALSE BY <1>1
<1>3. W * (High(x) - High(y)) >= W BY <1>1, <1>2, TimerAssumption
<1>4. W * (High(x) - High(y)) = W * High(x) - W * High(y) BY <1>1, TimerAssumption
<1> QED BY <1>1, <1>3, <1>4, TimerAssumption

\* The words of the compare register.
LEMMA InRegister ==
  ASSUME NEW h \in 0 .. (W - 1), NEW l \in 0 .. (W - 1)
  PROVE  Join(h, l) \in 0 .. (W * W - 1)
<1>1. Join(h, l) \in Nat /\ Join(h, l) = W * h + l BY WordsOf
<1>2. W * h <= W * (W - 1) BY TimerAssumption
<1>3. W * (W - 1) = W * W - W BY TimerAssumption
<1> QED BY <1>1, <1>2, <1>3, TimerAssumption

LEMMA SmallHigh ==
  ASSUME NEW x \in Nat, x < W * (W - 1)
  PROVE  High(x) \in 0 .. (W - 2)
<1>1. Low(x) \in 0 .. (W - 1) /\ High(x) \in Nat /\ x = W * High(x) + Low(x) BY Words
<1>2. SUFFICES ASSUME High(x) >= W - 1 PROVE FALSE BY <1>1, TimerAssumption
<1>3. W * High(x) >= W * (W - 1) BY <1>1, <1>2, TimerAssumption
<1> QED BY <1>1, <1>3, TimerAssumption

LEMMA LargeHigh ==
  ASSUME NEW x \in Nat, High(x) = W - 1
  PROVE  x >= W * (W - 1)
BY Words, TimerAssumption

\* The times a context has read, and the targets it sets, stay below the register's end.
LEMMA Targets ==
  ASSUME IInv, NEW c \in Contexts, pc[c] \in {"got"} \cup Setting
  PROVE  /\ Time(c) \in Nat /\ Time(c) <= mtime /\ Target(c) = Time(c) + Delta
         /\ Target(c) \in Nat /\ Low(Target(c)) \in 0 .. (W - 1)
         /\ High(Target(c)) \in 0 .. (W - 1)
<1>1. Time(c) \in Nat /\ Time(c) <= mtime BY DEF IInv, ReadingInv, TypeOK
<1>2. Target(c) = Time(c) + Delta /\ Target(c) \in Nat BY <1>1, TimerAssumption DEF Target
<1>3. Target(c) < W * (W - 1)
  BY <1>1, <1>2, TimerAssumption DEF IInv, TypeOK
<1> QED BY <1>1, <1>2, <1>3, Words, SmallHigh, TimerAssumption

-----------------------------------------------------------------------------
LEMMA InitInv == Init => IInv
<1> SUFFICES ASSUME Init PROVE IInv OBVIOUS
<1> USE TimerAssumption
<1>1. TypeOK
  <2>1. W * W >= 1 BY TimerAssumption
  <2>2. mtimecmp \in 0 .. (W * W - 1) BY <2>1 DEF Init
  <2>3. pc["app"] = "high" /\ pc["isr"] = "off" /\ pc \in [Contexts -> AppLabels \cup IsrLabels]
    BY DEF Init, Contexts, AppLabels, IsrLabels
  <2>4. highbits \in [Contexts -> Nat] /\ lowbits \in [Contexts -> 0 .. (W - 1)]
        /\ began \in [Contexts -> Nat]
    BY DEF Init
  <2>5. pc["app"] \in AppLabels /\ pc["isr"] \in IsrLabels
    BY <2>3 DEF AppLabels, IsrLabels
  <2>6. mtime \in 0 .. MaxTime /\ endTime \in 0 .. (W - 1) BY DEF Init
  <2> QED BY <2>2, <2>3, <2>4, <2>5, <2>6 DEF Init, TypeOK
<1>2. ReadingInv BY DEF Init, ReadingInv, Contexts, Setting
<1>3. ModeInv BY DEF Init, ModeInv, Contexts, Loads, Setting
<1>4. CountInv BY DEF Init, CountInv
<1>5. CompareInv BY DEF Init, CompareInv, Contexts
<1>6. SleepInv BY DEF Init, SleepInv
<1> QED BY <1>1, <1>2, <1>3, <1>4, <1>5, <1>6 DEF IInv

LEMMA ClockInv ==
  ASSUME IInv, Clock
  PROVE  IInv'
<1> USE TimerAssumption DEF Clock, timer, locals, sleeping, counting
<1>1. mtime \in Nat /\ mtime' = mtime + 1 /\ mtime' \in Nat /\ High(mtime) <= High(mtime')
      /\ High(mtime) \in Nat /\ High(mtime') \in Nat
  BY HighGrows, Words DEF IInv, TypeOK
<1>2. TypeOK' BY DEF IInv, TypeOK
<1>3. ReadingInv'
  <2> SUFFICES ASSUME NEW c \in Contexts
               PROVE  /\ began[c] <= mtime'
                      /\ pc[c] = "low" => highbits[c] <= High(mtime')
                      /\ pc[c] = "again" =>
                           \E t \in began[c] .. mtime' :
                             lowbits[c] = Low(t) /\ highbits[c] <= High(t)
                      /\ pc[c] \in {"got"} \cup Setting => Time(c) \in began[c] .. mtime'
    BY DEF ReadingInv, Time
  <2>1. began[c] \in Nat /\ highbits[c] \in Nat BY DEF IInv, TypeOK
  <2> QED BY <1>1, <2>1 DEF IInv, ReadingInv
<1>4. ModeInv' /\ CountInv' /\ SleepInv' BY DEF IInv, ModeInv, CountInv, SleepInv
<1>5. CompareInv' BY <1>1 DEF IInv, TypeOK, CompareInv, Target, Time
<1> QED BY <1>2, <1>3, <1>4, <1>5 DEF IInv

-----------------------------------------------------------------------------
(* alt_niosv_mtime_get *)

LEMMA ReadHighInv ==
  ASSUME IInv, NEW c \in Contexts, ReadHigh(c)
  PROVE  IInv'
<1> USE TimerAssumption
        DEF ReadHigh, At, Goto, timer, locals, sleeping, counting, Contexts, AppLabels, IsrLabels
<1>1. High(mtime) \in Nat BY Words DEF IInv, TypeOK
<1>2. TypeOK' BY <1>1 DEF IInv, TypeOK
<1>3. ReadingInv' BY <1>1 DEF IInv, TypeOK, ReadingInv, Time, Setting
<1>4. ModeInv' BY DEF IInv, TypeOK, ModeInv, Loads, Setting
<1>5. CountInv' BY DEF IInv, TypeOK, CountInv
<1>6. CompareInv' BY DEF IInv, TypeOK, CompareInv, Target, Time
<1>7. SleepInv' BY DEF IInv, SleepInv
<1> QED BY <1>2, <1>3, <1>4, <1>5, <1>6, <1>7 DEF IInv

LEMMA ReadLowInv ==
  ASSUME IInv, NEW c \in Contexts, ReadLow(c)
  PROVE  IInv'
<1> USE TimerAssumption
        DEF ReadLow, At, Goto, timer, locals, sleeping, counting, Contexts, AppLabels, IsrLabels
<1>1. Low(mtime) \in 0 .. (W - 1) BY Words DEF IInv, TypeOK
<1>2. TypeOK' BY <1>1 DEF IInv, TypeOK
<1>3. ReadingInv'
  <2>1. mtime \in began[c] .. mtime BY DEF IInv, TypeOK, ReadingInv
  <2>2. highbits[c] <= High(mtime) BY DEF IInv, ReadingInv
  <2> QED BY <1>1, <2>1, <2>2 DEF IInv, TypeOK, ReadingInv, Time, Setting
<1>4. ModeInv' BY DEF IInv, TypeOK, ModeInv, Loads, Setting
<1>5. CountInv' BY DEF IInv, TypeOK, CountInv
<1>6. CompareInv' BY DEF IInv, TypeOK, CompareInv, Target, Time
<1>7. SleepInv' BY DEF IInv, SleepInv
<1> QED BY <1>2, <1>3, <1>4, <1>5, <1>6, <1>7 DEF IInv

LEMMA ReadAgainInv ==
  ASSUME IInv, NEW c \in Contexts, ReadAgain(c)
  PROVE  IInv'
<1> USE TimerAssumption
        DEF ReadAgain, At, Goto, timer, locals, sleeping, counting, Contexts, AppLabels, IsrLabels
<1>1. TypeOK' BY DEF IInv, TypeOK
<1>2. ASSUME High(mtime) = highbits[c] PROVE Time(c) \in began[c] .. mtime
  <2>1. PICK t \in began[c] .. mtime : lowbits[c] = Low(t) /\ highbits[c] <= High(t)
    BY DEF IInv, ReadingInv
  <2>2. t \in Nat /\ mtime \in Nat /\ t <= mtime BY DEF IInv, TypeOK
  <2>3. High(t) <= High(mtime) /\ High(t) \in Nat /\ High(mtime) \in Nat
    BY <2>1, <2>2, HighGrows, Words
  <2>4. High(t) = highbits[c] BY <1>2, <2>1, <2>3
  <2>5. Time(c) = t BY <2>1, <2>2, <2>4, Rejoined DEF Time
  <2> QED BY <2>1, <2>5
<1>3. ReadingInv' BY <1>2 DEF IInv, TypeOK, ReadingInv, Time, Setting
<1>4. ModeInv' BY DEF IInv, TypeOK, ModeInv, Loads, Setting
<1>5. CountInv' BY DEF IInv, TypeOK, CountInv
<1>6. CompareInv' BY DEF IInv, TypeOK, CompareInv, Target, Time
<1>7. SleepInv' BY DEF IInv, SleepInv
<1> QED BY <1>1, <1>3, <1>4, <1>5, <1>6, <1>7 DEF IInv

-----------------------------------------------------------------------------
(* alt_niosv_mtimecmp_set *)

LEMMA SetHighMaxInv ==
  ASSUME IInv, NEW c \in Contexts, SetHighMax(c)
  PROVE  IInv'
<1> USE TimerAssumption
        DEF SetHighMax, At, Goto, locals, sleeping, counting, Contexts, AppLabels, IsrLabels
<1>1. mtimecmp \in Nat /\ Low(mtimecmp) \in 0 .. (W - 1) /\ W - 1 \in 0 .. (W - 1)
  BY Words DEF IInv, TypeOK
<1>2. mtimecmp' \in 0 .. (W * W - 1) /\ High(mtimecmp') = W - 1
  BY <1>1, WordsOf, InRegister
<1>3. TypeOK' BY <1>2 DEF IInv, TypeOK
<1>4. ReadingInv' BY DEF IInv, TypeOK, ReadingInv, Time, Setting
<1>5. ModeInv' BY DEF IInv, TypeOK, ModeInv, Loads, Setting
<1>6. CountInv' BY DEF IInv, TypeOK, CountInv
<1>7. CompareInv'
  <2>1. \A d \in Contexts : d # c => pc[d] \notin Setting
    BY DEF IInv, TypeOK, ModeInv, Setting
  <2>2. pc' = [pc EXCEPT ![c] = "set_low"] /\ pc \in [Contexts -> AppLabels \cup IsrLabels]
    BY DEF IInv, TypeOK
  <2>3. mtie' => pc'["isr"] # "off" \/ c = "app" BY DEF IInv, TypeOK
  <2>4. c = "app" => mtie' = FALSE BY DEF IInv, ModeInv
  <2> QED BY <1>2, <2>1, <2>2, <2>3, <2>4 DEF IInv, TypeOK, CompareInv, Setting
<1>8. SleepInv' BY DEF IInv, SleepInv
<1> QED BY <1>3, <1>4, <1>5, <1>6, <1>7, <1>8 DEF IInv

LEMMA SetLowInv ==
  ASSUME IInv, NEW c \in Contexts, SetLow(c)
  PROVE  IInv'
<1> USE TimerAssumption
        DEF SetLow, At, Goto, locals, sleeping, counting, Contexts, AppLabels, IsrLabels
<1>1. High(mtimecmp) = W - 1 /\ W - 1 \in 0 .. (W - 1) BY DEF IInv, CompareInv
<1>2. Low(Target(c)) \in 0 .. (W - 1) BY Targets DEF Setting
<1>3. mtimecmp' \in 0 .. (W * W - 1) /\ High(mtimecmp') = W - 1
      /\ Low(mtimecmp') = Low(Target(c))
  BY <1>1, <1>2, WordsOf, InRegister
<1>4. TypeOK' BY <1>3 DEF IInv, TypeOK
<1>5. ReadingInv' BY DEF IInv, TypeOK, ReadingInv, Time, Setting
<1>6. ModeInv' BY DEF IInv, TypeOK, ModeInv, Loads, Setting
<1>7. CountInv' BY DEF IInv, TypeOK, CountInv
<1>8. CompareInv'
  <2>1. \A d \in Contexts : d # c => pc[d] \notin Setting
    BY DEF IInv, TypeOK, ModeInv, Setting
  <2>2. pc' = [pc EXCEPT ![c] = "set_high"] /\ pc \in [Contexts -> AppLabels \cup IsrLabels]
    BY DEF IInv, TypeOK
  <2>3. mtie' => pc'["isr"] # "off" \/ c = "app" BY DEF IInv, TypeOK
  <2>4. c = "app" => mtie' = FALSE BY DEF IInv, ModeInv, Setting
  <2>5. \A d \in Contexts : Target(d)' = Target(d) BY DEF Target, Time
  <2> QED BY <1>3, <2>1, <2>2, <2>3, <2>4, <2>5 DEF IInv, TypeOK, CompareInv, Setting
<1>9. SleepInv' BY DEF IInv, SleepInv
<1> QED BY <1>4, <1>5, <1>6, <1>7, <1>8, <1>9 DEF IInv

LEMMA SetHighInv ==
  ASSUME IInv, NEW c \in Contexts, SetHigh(c)
  PROVE  IInv'
<1> USE TimerAssumption
        DEF SetHigh, At, Goto, locals, sleeping, counting, Contexts, AppLabels, IsrLabels
<1>1. Low(mtimecmp) = Low(Target(c)) BY DEF IInv, CompareInv
<1>2. Target(c) \in Nat /\ High(Target(c)) \in 0 .. (W - 1) /\ Low(Target(c)) \in 0 .. (W - 1)
  BY Targets DEF Setting
<1>3. mtimecmp' \in 0 .. (W * W - 1) /\ mtimecmp' = Target(c)
  BY <1>1, <1>2, Rejoined, InRegister
<1>4. TypeOK' BY <1>3 DEF IInv, TypeOK
<1>5. ReadingInv' BY DEF IInv, TypeOK, ReadingInv, Time, Setting
<1>6. ModeInv' BY DEF IInv, TypeOK, ModeInv, Loads, Setting
<1>7. CountInv' BY DEF IInv, TypeOK, CountInv
<1>8. CompareInv'
  <2>1. \A d \in Contexts : d # c => pc[d] \notin Setting
    BY DEF IInv, TypeOK, ModeInv, Setting
  <2>2. pc' = [pc EXCEPT ![c] = "set"] /\ pc \in [Contexts -> AppLabels \cup IsrLabels]
    BY DEF IInv, TypeOK
  <2>3. mtie' => pc'["isr"] # "off" \/ c = "app" BY DEF IInv, TypeOK
  <2>4. c = "app" => mtie' = FALSE BY DEF IInv, ModeInv, Setting
  <2>5. \A d \in Contexts : Target(d)' = Target(d) BY DEF Target, Time
  <2> QED BY <1>3, <2>1, <2>2, <2>3, <2>4, <2>5 DEF IInv, TypeOK, CompareInv, Setting
<1>9. SleepInv' BY DEF IInv, SleepInv
<1> QED BY <1>4, <1>5, <1>6, <1>7, <1>8, <1>9 DEF IInv

-----------------------------------------------------------------------------
(* The interrupt *)

LEMMA TakeInterruptInv ==
  ASSUME IInv, TakeInterrupt
  PROVE  IInv'
<1> USE TimerAssumption
        DEF TakeInterrupt, Goto, timer, locals, sleeping, counting, Contexts, AppLabels, IsrLabels
<1>1. mtime \in Nat /\ mtimecmp \in Nat /\ mtime >= mtimecmp BY DEF Due, IInv, TypeOK
<1>2. TypeOK' BY <1>1 DEF IInv, TypeOK
<1>3. ReadingInv' BY <1>1 DEF IInv, TypeOK, ReadingInv, Time, Setting
<1>4. ModeInv' BY DEF IInv, TypeOK, ModeInv, Loads, Setting
<1>5. CountInv' BY DEF IInv, TypeOK, CountInv
<1>6. CompareInv'
  <2>1. \A d \in Contexts : Target(d)' = Target(d) BY DEF Target, Time
  <2>2. (nticks + 1) * Delta \in Nat BY DEF IInv, TypeOK
  <2>3. armedAt + (nticks + 1) * Delta <= began'["isr"]
    BY <1>1, <2>2 DEF IInv, TypeOK, CompareInv
  <2> QED BY <2>1, <2>3 DEF IInv, TypeOK, CompareInv
<1>7. SleepInv' BY DEF IInv, TypeOK, SleepInv
<1> QED BY <1>2, <1>3, <1>4, <1>5, <1>6, <1>7 DEF IInv

\* The tick was due a tick's length after the ones before it, and the next one is due
\* another length after the time read since.
LEMMA TickInv ==
  ASSUME IInv, Tick
  PROVE  IInv'
<1> USE TimerAssumption
        DEF Tick, At, Goto, timer, sleeping, counting, Contexts, AppLabels, IsrLabels
<1>1. TypeOK' BY DEF IInv, TypeOK
<1>2. ReadingInv' BY DEF IInv, TypeOK, ReadingInv, Time, Setting
<1>3. ModeInv' BY DEF IInv, TypeOK, ModeInv, Loads, Setting
<1>4. CountInv' BY DEF IInv, TypeOK, ModeInv, CountInv
<1>5. CompareInv'
  <2>1. Time("isr") \in began["isr"] .. mtime /\ mtimecmp = Time("isr") + Delta
    BY DEF IInv, ReadingInv, CompareInv, Setting, Target
  <2>2. armedAt + (nticks + 1) * Delta <= began["isr"] /\ began["isr"] \in Nat
    BY DEF IInv, TypeOK, CompareInv
  <2>3. /\ nticks * Delta \in Nat /\ (nticks + 1) * Delta = nticks * Delta + Delta
        /\ (nticks + 2) * Delta = nticks * Delta + 2 * Delta
    BY DEF IInv, TypeOK
  <2>4. armedAt \in Nat /\ mtime \in Nat BY DEF IInv, TypeOK
  <2>5. armedAt + (nticks + 1) * Delta <= mtime /\ armedAt + (nticks + 2) * Delta <= mtimecmp
    BY <2>1, <2>2, <2>3, <2>4
  <2>6. pc["app"] \notin Setting BY DEF IInv, TypeOK, ModeInv, Setting
  <2>7. pc'["isr"] = "off" /\ pc'["app"] = pc["app"] BY DEF IInv, TypeOK
  <2>8. nticks' = nticks + 1 /\ nticks' + 1 = nticks + 2 BY DEF IInv, TypeOK
  <2> QED BY <2>5, <2>6, <2>7, <2>8 DEF CompareInv, Setting
<1>6. SleepInv' BY DEF IInv, TypeOK, SleepInv
<1> QED BY <1>1, <1>2, <1>3, <1>4, <1>5, <1>6 DEF IInv

-----------------------------------------------------------------------------
(* The application *)

LEMMA EnableTimerInv ==
  ASSUME IInv, EnableTimer
  PROVE  IInv'
<1> USE TimerAssumption
        DEF EnableTimer, AppReturns, At, Goto, sleeping, counting, Contexts, AppLabels, IsrLabels
<1>1. Time("app") \in Nat /\ Time("app") <= mtime /\ mtimecmp = Time("app") + Delta
  BY Targets DEF Setting, IInv, CompareInv
<1>2. mtie = FALSE /\ nticks = 0 /\ pc["isr"] = "off" BY DEF IInv, ModeInv
<1>3. TypeOK' BY <1>1 DEF IInv, TypeOK
<1>4. ReadingInv' BY <1>2 DEF IInv, TypeOK, ReadingInv, Time, Setting
<1>5. ModeInv' BY <1>2 DEF IInv, TypeOK, ModeInv, Loads, Setting
<1>6. CountInv' BY DEF CountInv
<1>7. CompareInv' BY <1>1, <1>2 DEF IInv, TypeOK, CompareInv
<1>8. SleepInv' BY DEF IInv, SleepInv
<1> QED BY <1>3, <1>4, <1>5, <1>6, <1>7, <1>8 DEF IInv

\* A call that begins to read the clock.
LEMMA ReadsTimeInv ==
  ASSUME IInv, pc["app"] \in {"idle", "got"}, pc["isr"] = "off", op # "init",
         NEW o \in {"start", "sleep_start", "sleep"}, AppReadsTime(o),
         UNCHANGED <<timer, nticks, locals, counting, armedAt>>
  PROVE  ReadingInv' /\ ModeInv' /\ CountInv' /\ CompareInv'
<1> USE TimerAssumption
        DEF AppReadsTime, Goto, timer, locals, counting, Contexts, AppLabels, IsrLabels
<1>1. ReadingInv' BY DEF IInv, TypeOK, ReadingInv, Time, Setting
<1>2. ModeInv' BY DEF IInv, TypeOK, ModeInv, Loads, Setting
<1>3. CountInv' BY DEF CountInv
<1>4. CompareInv'
  <2>1. pc'["app"] = "high" /\ pc'["isr"] = "off" BY DEF IInv, TypeOK
  <2> QED BY <2>1 DEF IInv, CompareInv
<1> QED BY <1>1, <1>2, <1>3, <1>4

\* A call that returns.
LEMMA ReturnsInv ==
  ASSUME IInv, pc["app"] \in {"got", "read"}, pc["isr"] = "off", op # "init", AppReturns,
         UNCHANGED <<mtime, mtimecmp, mtie, nticks, armedAt>>
  PROVE  ReadingInv' /\ ModeInv' /\ CountInv' /\ CompareInv'
<1> USE TimerAssumption DEF AppReturns, Goto, Contexts, AppLabels, IsrLabels
<1>1. ReadingInv' BY DEF IInv, TypeOK, ReadingInv, Time, Setting
<1>2. ModeInv' BY DEF IInv, TypeOK, ModeInv, Loads, Setting
<1>3. CountInv' BY DEF CountInv
<1>4. CompareInv'
  <2>1. pc'["app"] = "idle" /\ pc'["isr"] = "off" BY DEF IInv, TypeOK
  <2> QED BY <2>1 DEF IInv, CompareInv
<1> QED BY <1>1, <1>2, <1>3, <1>4

LEMMA TimestampInv ==
  ASSUME IInv, TimestampStart \/ TimestampStarted
  PROVE  IInv'
<1> USE TimerAssumption
        DEF At, Goto, timer, locals, sleeping, counting, Contexts, AppLabels, IsrLabels
<1>1. CASE TimestampStart
  <2>1. op # "init" BY <1>1 DEF TimestampStart, IInv, ModeInv
  <2>2. ReadingInv' /\ ModeInv' /\ CountInv' /\ CompareInv'
    BY <1>1, <2>1, ReadsTimeInv DEF TimestampStart
  <2>3. TypeOK' BY <1>1 DEF TimestampStart, AppReadsTime, IInv, TypeOK
  <2>4. SleepInv' BY <1>1 DEF TimestampStart, AppReadsTime, IInv, SleepInv
  <2> QED BY <2>2, <2>3, <2>4 DEF IInv
<1>2. CASE TimestampStarted
  <2>1. ReadingInv' /\ ModeInv' /\ CountInv' /\ CompareInv'
    BY <1>2, ReturnsInv DEF TimestampStarted
  <2>2. Time("app") \in Nat BY <1>2, Targets DEF TimestampStarted
  <2>3. TypeOK' BY <1>2, <2>2 DEF TimestampStarted, AppReturns, IInv, TypeOK
  <2>4. SleepInv' BY <1>2 DEF TimestampStarted, AppReturns, IInv, SleepInv
  <2> QED BY <2>1, <2>3, <2>4 DEF IInv
<1> QED BY <1>1, <1>2

LEMMA SleepStep ==
  ASSUME IInv, NEW u \in SleepArgs, Sleep(u)
  PROVE  IInv'
<1> USE TimerAssumption
        DEF Sleep, At, Goto, timer, locals, sleeping, counting, Contexts, AppLabels, IsrLabels
<1>1. op # "init" BY DEF IInv, ModeInv
<1>2. ReadingInv' /\ ModeInv' /\ CountInv' /\ CompareInv' BY <1>1, ReadsTimeInv
<1>3. TypeOK' BY DEF AppReadsTime, IInv, TypeOK
<1>4. SleepInv' BY DEF AppReadsTime, IInv, TypeOK, SleepInv
<1> QED BY <1>2, <1>3, <1>4 DEF IInv

LEMMA SleepStartedInv ==
  ASSUME IInv, SleepStarted
  PROVE  IInv'
<1> USE TimerAssumption
        DEF SleepStarted, At, Goto, timer, locals, sleeping, counting, Contexts,
            AppLabels, IsrLabels
<1>1. ReadingInv' /\ ModeInv' /\ CountInv' /\ CompareInv' BY ReadsTimeInv
<1>2. Time("app") \in Nat /\ Time("app") \in began["app"] .. mtime BY Targets DEF IInv, ReadingInv
<1>3. MHz * us \in Nat BY DEF IInv, TypeOK
<1>4. Low(MHz * us) \in 0 .. (W - 1) BY <1>3, Words
<1>5. TypeOK' BY <1>2, <1>4 DEF AppReadsTime, IInv, TypeOK
<1>6. SleepInv' BY <1>2 DEF AppReadsTime, IInv, TypeOK, SleepInv
<1> QED BY <1>1, <1>5, <1>6 DEF IInv

LEMMA SpinInv ==
  ASSUME IInv, Spin
  PROVE  IInv'
<1> USE TimerAssumption
        DEF Spin, At, Goto, timer, locals, sleeping, counting, Contexts, AppLabels, IsrLabels
<1>1. ReadingInv' /\ ModeInv' /\ CountInv' /\ CompareInv' BY ReadsTimeInv
<1>2. TypeOK' BY DEF AppReadsTime, IInv, TypeOK
<1>3. SleepInv' BY DEF AppReadsTime, IInv, SleepInv
<1> QED BY <1>1, <1>2, <1>3 DEF IInv

\* A sleep whose length fits in a word ends when that length is over.
LEMMA WokenInv ==
  ASSUME IInv, Woken
  PROVE  IInv'
<1> USE TimerAssumption
        DEF Woken, At, Goto, timer, sleeping, counting, Contexts, AppLabels, IsrLabels
<1>1. ReadingInv' /\ ModeInv' /\ CountInv' /\ CompareInv' BY ReturnsInv
<1>2. MHz * us \in Nat BY DEF IInv, TypeOK
<1>3. short' \in Nat BY <1>2
<1>4. TypeOK' BY <1>3 DEF AppReturns, IInv, TypeOK
<1>5. MHz * us < W => short' = 0
  <2> SUFFICES ASSUME MHz * us < W PROVE mtime - sleptFrom >= MHz * us
    BY <1>2 DEF IInv, TypeOK
  <2>1. Low(MHz * us) = MHz * us
    <3>1. MHz * us = W * 0 + MHz * us /\ MHz * us \in 0 .. (W - 1) BY <1>2
    <3>2. Join(0, MHz * us) = MHz * us BY <3>1, WordsOf
    <3> QED BY <3>1, <3>2, WordsOf
  <2>2. sleptFrom <= offset /\ endTime = MHz * us BY <2>1 DEF IInv, SleepInv
  <2>3. Time("app") \in Nat /\ Time("app") <= mtime /\ Time("app") - offset >= endTime BY Targets
  <2> QED BY <1>2, <2>2, <2>3 DEF IInv, TypeOK
<1>6. SleepInv' BY <1>2, <1>5 DEF AppReturns, SleepInv
<1> QED BY <1>1, <1>4, <1>6 DEF IInv

LEMMA ReadTicksInv ==
  ASSUME IInv, NEW g \in BOOLEAN, NEW f \in {"low_high", "high_low"}, ReadTicks(g, f)
  PROVE  IInv'
<1> USE TimerAssumption
        DEF ReadTicks, At, Goto, timer, locals, sleeping, counting, Contexts, AppLabels, IsrLabels
<1>1. TypeOK' BY DEF IInv, TypeOK
<1>2. ReadingInv' BY DEF IInv, TypeOK, ReadingInv, Time, Setting
<1>3. ModeInv' BY DEF IInv, TypeOK, ModeInv, Loads, Setting
<1>4. CountInv' BY DEF IInv, TypeOK, CountInv
<1>5. CompareInv'
  <2>1. pc'["app"] = f /\ pc'["isr"] = pc["isr"] BY DEF IInv, TypeOK
  <2>2. \A d \in Contexts : Target(d)' = Target(d) BY DEF Target, Time
  <2> QED BY <2>1, <2>2 DEF IInv, CompareInv
<1>6. SleepInv' BY DEF IInv, SleepInv
<1> QED BY <1>1, <1>2, <1>3, <1>4, <1>5, <1>6 DEF IInv

LEMMA LoadTicksInv ==
  ASSUME IInv, LoadTicks
  PROVE  IInv'
<1> USE TimerAssumption
        DEF LoadTicks, LoadFirst, LoadSecond, At, Goto, timer, locals, sleeping, counting,
            Contexts, AppLabels, IsrLabels
<1>1. /\ nticks \in Nat /\ Low(nticks) \in Nat /\ W * High(nticks) \in Nat
      /\ W * High(nticks) + Low(nticks) = nticks
  <2>1. nticks \in Nat BY DEF IInv, TypeOK
  <2>2. Low(nticks) \in 0 .. (W - 1) /\ High(nticks) \in Nat
        /\ nticks = W * High(nticks) + Low(nticks)
    BY <2>1, Words
  <2>3. Low(nticks) \in Nat /\ W * High(nticks) \in Nat BY <2>2
  <2> QED BY <2>1, <2>2, <2>3
<1>2. /\ pc["app"] \in Loads /\ pc'["app"] \in Loads /\ pc'["isr"] = pc["isr"]
      /\ pc' = [pc EXCEPT !["app"] = pc'["app"]]
  BY DEF IInv, TypeOK, Loads
<1>3. UNCHANGED <<timer, nticks, offset, locals, op, sleeping, ticksBefore, began, armedAt>>
  OBVIOUS
<1>4. ticks' \in Nat BY <1>1 DEF IInv, TypeOK
<1>5. TypeOK' BY <1>2, <1>3, <1>4 DEF IInv, TypeOK, Loads
<1>6. ReadingInv' BY <1>2, <1>3 DEF IInv, TypeOK, ReadingInv, Time, Setting, Loads
<1>7. ModeInv' BY <1>2, <1>3 DEF IInv, TypeOK, ModeInv, Loads, Setting
<1>8. CountInv' BY <1>1 DEF IInv, TypeOK, CountInv
<1>9. CompareInv'
  <2>1. \A d \in Contexts : Target(d)' = Target(d) BY <1>3 DEF Target, Time
  <2> QED BY <1>2, <1>3, <2>1 DEF IInv, CompareInv, Loads
<1>10. SleepInv' BY <1>3 DEF IInv, SleepInv
<1> QED BY <1>5, <1>6, <1>7, <1>8, <1>9, <1>10 DEF IInv

LEMMA TicksReadInv ==
  ASSUME IInv, TicksRead
  PROVE  IInv'
<1> USE TimerAssumption
        DEF TicksRead, At, Goto, sleeping, counting, Contexts, AppLabels, IsrLabels
<1>1. op # "init" BY DEF IInv, ModeInv, Loads
<1>2. ReadingInv' /\ ModeInv' /\ CountInv' /\ CompareInv' BY <1>1, ReturnsInv
<1>3. TypeOK' BY DEF AppReturns, IInv, TypeOK
<1>4. SleepInv' BY DEF AppReturns, IInv, SleepInv
<1> QED BY <1>2, <1>3, <1>4 DEF IInv

-----------------------------------------------------------------------------
LEMMA StutterInv ==
  ASSUME IInv, UNCHANGED vars
  PROVE  IInv'
<1> USE DEF vars, timer, locals, sleeping, counting
<1>1. TypeOK' BY DEF IInv, TypeOK
<1>2. ReadingInv' BY DEF IInv, ReadingInv, Time
<1>3. ModeInv' /\ CountInv' /\ SleepInv' BY DEF IInv, ModeInv, CountInv, SleepInv
<1>4. CompareInv' BY DEF IInv, CompareInv, Target, Time
<1> QED BY <1>1, <1>2, <1>3, <1>4 DEF IInv

LEMMA StepInv ==
  ASSUME IInv, [Next]_vars
  PROVE  IInv'
<1>1. CASE UNCHANGED vars BY <1>1, StutterInv
<1>2. ASSUME NEW c \in Contexts, TimeGet(c) PROVE IInv'
  BY <1>2, ReadHighInv, ReadLowInv, ReadAgainInv DEF TimeGet
<1>3. ASSUME NEW c \in Contexts, CompareSet(c) PROVE IInv'
  BY <1>3, SetHighMaxInv, SetLowInv, SetHighInv DEF CompareSet
<1>4. CASE AppCall BY <1>4, TimestampInv, SleepStep, ReadTicksInv DEF AppCall
<1>5. CASE AppStep
  BY <1>2, <1>3, <1>5, EnableTimerInv, TimestampInv, SleepStartedInv, SpinInv, WokenInv,
     LoadTicksInv, TicksReadInv DEF AppStep, Contexts
<1>6. CASE Isr BY <1>2, <1>3, <1>6, TickInv DEF Isr, Contexts
<1> QED BY <1>1, <1>4, <1>5, <1>6, ClockInv, TakeInterruptInv DEF Next

THEOREM Invariance == Spec => []IInv
<1> QED BY InitInv, StepInv, PTL DEF Spec

\* Every variable keeps its type; the compare register keeps two words.
THEOREM TypeCorrect == Spec => []TypeOK
<1>1. IInv => TypeOK BY DEF IInv
<1> QED BY <1>1, Invariance, PTL

\* Read and written a word at a time, with interrupts in between, the clock is sound: the
\* time alt_niosv_mtime_get returns is one it had, alt_niosv_mtimecmp_set triggers nothing on
\* the way, no tick is early, and alt_alarm_start reads the current tick count.
THEOREM ClockSound == Spec => []ClockIsSound
<1>1. IInv => ClockIsSound
  <2> SUFFICES ASSUME IInv PROVE ClockIsSound OBVIOUS
  <2>1. TimeIsReal BY DEF IInv, ReadingInv, TimeIsReal
  <2>2. NoInadvertentTrigger
    <3> SUFFICES ASSUME NEW c \in Contexts, pc[c] \in {"set_low", "set_high"} PROVE ~Due
      BY DEF NoInadvertentTrigger
    <3>1. mtimecmp \in Nat /\ mtimecmp >= W * (W - 1)
      BY LargeHigh, TimerAssumption DEF IInv, TypeOK, CompareInv
    <3> QED BY <3>1, TimerAssumption DEF IInv, TypeOK, Due
  <2>3. NoEarlyTick
    <3>1. nticks * Delta \in Nat BY TimerAssumption DEF IInv, TypeOK
    <3> QED BY <3>1 DEF IInv, TypeOK, CompareInv, NoEarlyTick
  <2>4. AlarmTicksCurrent BY DEF IInv, CountInv, AlarmTicksCurrent
  <2> QED BY <2>1, <2>2, <2>3, <2>4 DEF ClockIsSound
<1> QED BY <1>1, Invariance, PTL

\* usleep() is never short, if the cycles it is asked for fit into a word.
THEOREM SleepsLongEnough == Spec => []SleepLongEnough
<1>1. IInv => SleepLongEnough BY DEF IInv, SleepInv, SleepLongEnough
<1> QED BY <1>1, Invariance, PTL
=============================================================================

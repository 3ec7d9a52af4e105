------------------------------ MODULE Hal_proofs ------------------------------
(***************************************************************************)
(* Proofs about the services of the HAL that share no state. A step of the *)
(* whole is a step of one service, and leaves the variables of the others  *)
(* as they are; so what a service keeps in its own steps is kept.          *)
(***************************************************************************)
EXTENDS Hal, HalParts_proofs, FiniteSetTheorems

-----------------------------------------------------------------------------
(* The processor *)

LEMMA IrqKeeps == HalSpec => []IrqInv
<1>1. HalInit => IrqInv BY IrqInit DEF HalInit
<1>2. [HalNext]_halVars => [Irq!Next]_interrupts BY DEF HalNext, halVars, Only
<1> QED BY <1>1, <1>2, IrqStep, PTL DEF HalSpec

\* Interrupts: a pending interrupt finds the routine registered for it, and calls it with the
\* context it was registered with, however registrations and interrupts interleave.
THEOREM DispatchSound == HalSpec => []DispatchIsSound
<1>1. IrqInv => DispatchIsSound BY IrqSound DEF DispatchIsSound
<1> QED BY <1>1, IrqKeeps, PTL

\* Interrupts: critical sections are not interrupted, and the program is never left with
\* interrupts off outside of them.
THEOREM SectionsHold == HalSpec => []CriticalSectionsHold
<1>1. IrqInv => CriticalSectionsHold BY IrqSound DEF CriticalSectionsHold
<1> QED BY <1>1, IrqKeeps, PTL

\* TrapContext: in the builds without a CLIC, and in the one with a CLIC whose handlers may be
\* interrupted, a trap goes back to the context it interrupted, however deep traps are nested:
\* without a CLIC with its registers and interrupt state, and with one with its registers but a2.
THEOREM TrapsReturn ==
  ASSUME "clic" \notin Builds
  PROVE  HalSpec => []ReturnsWhereInterrupted
<1>1. HalInit => TrapInv BY TrapInit DEF HalInit
<1>2. [HalNext]_halVars => [Trap!Next]_traps BY DEF HalNext, halVars, Only
<1>3. TrapInv => ReturnsWhereInterrupted BY TrapSound DEF ReturnsWhereInterrupted
<1> QED BY <1>1, <1>2, <1>3, TrapStep, PTL DEF HalSpec

\* Clic: outside of calls every interrupt has the level, the priority, the trigger mode, the other
\* attributes and the enable bit last asked for, whoever asked and whatever shares its register,
\* but for the interrupts in a register of a call that a handler came into, or in one that the
\* handler selected then.
THEOREM FieldsKept == HalSpec => []FieldsAsAsked
<1>1. HalInit => ClicInv BY ClicInit DEF HalInit
<1>2. [HalNext]_halVars => [Configuration!Next]_clic BY DEF HalNext, halVars, Only
<1>3. ClicInv => FieldsAsAsked BY ClicSound DEF FieldsAsAsked
<1> QED BY <1>1, <1>2, <1>3, ClicStep, PTL DEF HalSpec

\* Caches: no write is lost but by an invalidation, and when a flush or an invalidation is over
\* the region is in the memory alone, whatever lines the processor evicts meanwhile.
THEOREM CachesSound == HalSpec => []CachesAreSound
<1>1. HalInit => CacheInv BY CacheInit DEF HalInit
<1>2. [HalNext]_halVars => [Cache!Next]_caches BY DEF HalNext, halVars, Only
<1>3. CacheInv => CachesAreSound BY CacheSound DEF CachesAreSound
<1> QED BY <1>1, <1>2, <1>3, CacheStep, PTL DEF HalSpec

\* FeatureList: a scan describes the interfaces of any tree of features once each, with their
\* parameters and the parent of those behind a feature's first branch, and those of a list in its
\* order, unless the tree nests as deeply as the stack's increment and the walk goes past its
\* stack; up to there it stays inside of its stack and of the vector, and leaves nothing behind,
\* after any number of scans and of cleanups.
THEOREM ScanSound == HalSpec => []ScanIsSound
<1>1. HalInit => ScanInv BY ScanInit DEF HalInit
<1>2. [HalNext]_halVars => [Platform!Next]_platform BY DEF HalNext, halVars, Only
<1>3. ScanInv => ScanIsSound BY ScanSoundness DEF ScanIsSound
<1> QED BY <1>1, <1>2, <1>3, ScanStep, PTL DEF HalSpec

-----------------------------------------------------------------------------
(* The time of day *)

\* Each word read is that of a count the clock had since the call began.
WordsInv ==
  /\ ticks \in 0 .. MaxTicks /\ began \in Nat /\ began <= ticks
  /\ DOMAIN nticks = {"low", "high"} /\ nticks.low \in Nat \cup {-1} /\ nticks.high \in Nat \cup {-1}
  /\ todCall # Time!Idle =>
       /\ nticks.low # -1 => \E t \in began .. ticks : nticks.low = t % Word
       /\ nticks.high # -1 => \E t \in began .. ticks : nticks.high = t \div Word

\* What is kept of the time that was set is that time less the ticks counted then, and what is
\* returned is the time that the ticks have made of it.
TimeInv ==
  /\ tick_rate \in TickRates \cup {0}
  /\ todCall.of = "settimeofday" => todCall.t \in Times
  /\ alt_resettime \in [tv_sec : Int, tv_usec : Int]
  /\ set \in [time : Int, at : Int]
  /\ tick_rate = 0 => alt_resettime = [tv_sec |-> 0, tv_usec |-> 0] /\ set = Time!Unset
  /\ tick_rate # 0 =>
       alt_resettime.tv_sec * ALT_US + alt_resettime.tv_usec =
         set.time - set.at * (ALT_US \div tick_rate)
  /\ todCall # Time!Idle => result = Time!Idle
  /\ result.of = "time" => tick_rate # 0 /\ Time!TimeGoesOn

ClockInv == WordsInv /\ TimeInv

\* A count whose words are of different moments is one of the moments in between, or a whole
\* word below or above one.
LEMMA TornCount ==
  ASSUME NEW W \in Nat \ {0}, NEW b \in Nat, NEW e \in Nat, NEW t \in b .. e, NEW u \in b .. e,
         NEW c \in Int, c = (u \div W) * W + (t % W)
  PROVE  \/ c \in b .. e
         \/ b \div W # e \div W /\ (c + W \in b .. e \/ c - W \in b .. e)
<1>1. t \in Nat /\ u \in Nat /\ b <= t /\ t <= e /\ b <= u /\ u <= e OBVIOUS
<1>2. /\ t \div W \in Nat /\ t % W \in 0 .. (W - 1) /\ t = W * (t \div W) + (t % W)
      /\ u \div W \in Nat /\ u % W \in 0 .. (W - 1) /\ u = W * (u \div W) + (u % W)
      /\ b \div W \in Nat /\ e \div W \in Nat
  BY <1>1, Divided
<1>3. /\ b \div W <= t \div W /\ t \div W <= e \div W
      /\ b \div W <= u \div W /\ u \div W <= e \div W
  BY <1>1, DividedInOrder
<1> DEFINE p == t \div W
           q == u \div W
<1>4. c = W * q + (t % W) BY <1>2
<1> HIDE DEF p, q
<1>5. CASE p = q BY <1>1, <1>2, <1>4, <1>5 DEF p, q
<1>6. ASSUME p < q PROVE b \div W # e \div W /\ c >= t /\ c - W >= t /\ c - W <= u
  <2>1. PICK d \in Nat : q = p + 1 + d
    <3>1. p \in Int /\ q \in Int BY <1>2 DEF p, q
    <3> QED BY <1>6, <3>1, Apart
  <2>2. W * q = W * p + W + W * d /\ W * d \in Nat BY <1>2, <2>1 DEF p, q
  <2>3. b \div W # e \div W BY <1>2, <1>3, <1>6 DEF p, q
  <2> QED BY <1>1, <1>2, <1>4, <2>2, <2>3 DEF p, q
<1>7. ASSUME q < p PROVE b \div W # e \div W /\ c + W >= u /\ c + W <= t
  <2>1. PICK d \in Nat : p = q + 1 + d
    <3>1. p \in Int /\ q \in Int BY <1>2 DEF p, q
    <3> QED BY <1>7, <3>1, Apart
  <2>2. W * p = W * q + W + W * d /\ W * d \in Nat BY <1>2, <2>1 DEF p, q
  <2>3. b \div W # e \div W BY <1>2, <1>3, <1>7 DEF p, q
  <2> QED BY <1>1, <1>2, <1>4, <2>2, <2>3 DEF p, q
<1>8. CASE p < q BY <1>1, <1>6, <1>8
<1>9. CASE q < p BY <1>1, <1>7, <1>9
<1> QED BY <1>2, <1>5, <1>8, <1>9 DEF p, q

\* The seconds and microseconds of a count are its time.
LEMMA TimeOfCount ==
  ASSUME NEW US \in Nat \ {0}, NEW rate \in Nat \ {0}, US % rate = 0, NEW c \in Nat
  PROVE  /\ US \div rate \in Nat /\ c * (US \div rate) \in Nat
         /\ c \div rate \in Nat /\ (c * (US \div rate)) % US \in Nat
         /\ (c \div rate) * US + ((c * (US \div rate)) % US) = c * (US \div rate)
<1> DEFINE u == US \div rate
           q == c \div rate
           r == c % rate
<1>1. u \in Nat /\ US = rate * u /\ q \in Nat /\ r \in 0 .. (rate - 1) /\ c = rate * q + r
  <2>1. u \in Nat /\ US = rate * u + (US % rate) BY Divided
  <2>2. US = rate * u BY <2>1
  <2>3. q \in Nat /\ r \in 0 .. (rate - 1) /\ c = rate * q + r BY Divided
  <2> QED BY <2>1, <2>2, <2>3
<1> HIDE DEF u, q, r
<1>2. u > 0
  <2> SUFFICES ASSUME u = 0 PROVE FALSE BY <1>1
  <2> QED BY <1>1
<1>3. c * u = US * q + r * u
  <2>1. c * u = (rate * q) * u + r * u BY <1>1
  <2>2. (rate * q) * u = (rate * u) * q BY <1>1
  <2> QED BY <1>1, <2>1, <2>2
<1>4. r * u \in 0 .. (US - 1)
  <2>1. r + 1 <= rate /\ r \in Nat BY <1>1
  <2>2. PICK d \in Nat : rate = r + 1 + d BY <2>1
  <2>3. rate * u = r * u + u + d * u BY <1>1, <2>1, <2>2
  <2>4. d * u \in Nat /\ r * u \in Nat BY <1>1, <2>1
  <2> QED BY <1>1, <1>2, <2>3, <2>4
<1>5. c * u \in Nat BY <1>1
<1>6. (c * u) % US = r * u
  <2> DEFINE a == c * u
             s == r * u
  <2>1. a \in Int /\ q \in Int /\ s \in 0 .. (US - 1) /\ a = US * q + s BY <1>1, <1>3, <1>4, <1>5
  <2> HIDE DEF a, s
  <2>2. a % US = s BY <2>1, Quotient
  <2> QED BY <2>2 DEF a, s
<1> QED BY <1>1, <1>3, <1>4, <1>5, <1>6 DEF u, q, r

\* Microseconds are carried into seconds and borrowed from them without a loss, unless the time
\* is negative.
LEMMA CarriedTime ==
  ASSUME NEW sec \in Int, NEW usec \in Int, sec * ALT_US + usec >= 0
  PROVE  /\ Time!Carried(sec, usec).tv_sec * ALT_US + Time!Carried(sec, usec).tv_usec =
              sec * ALT_US + usec
         /\ Time!Carried(sec, usec).tv_usec \in 0 .. (ALT_US - 1)
<1> DEFINE q == usec \div ALT_US
           r == usec % ALT_US
<1>1. ALT_US \in Nat \ {0} BY ClockAssumption
<1>2. q \in Int /\ r \in 0 .. (ALT_US - 1) /\ usec = ALT_US * q + r BY <1>1, DividedInt
<1>3. Time!Carried(sec, usec) = IF usec < 0 /\ sec + q < 0 THEN [tv_sec |-> 0, tv_usec |-> 0]
                                ELSE [tv_sec |-> sec + q, tv_usec |-> r]
  BY DEF Time!Carried
<1> HIDE DEF q, r
<1>4. (sec + q) * ALT_US + r = sec * ALT_US + usec BY <1>1, <1>2
<1>5. ~(sec + q < 0)
  <2> SUFFICES ASSUME sec + q < 0 PROVE FALSE OBVIOUS
  <2>1. PICK d \in Nat : 0 = sec + q + 1 + d BY <1>2, Apart
  <2>2. (sec + q) * ALT_US + ALT_US + d * ALT_US = 0
    <3>1. (sec + q + 1 + d) * ALT_US = (sec + q) * ALT_US + ALT_US + d * ALT_US BY <1>1, <1>2
    <3>2. 0 * ALT_US = 0 BY <1>1
    <3> QED BY <2>1, <3>1, <3>2
  <2>3. d * ALT_US \in Nat BY <1>1
  <2> QED BY <1>1, <1>2, <1>4, <2>2, <2>3
<1> QED BY <1>2, <1>3, <1>4, <1>5

LEMMA ClockInit == Time!Init => ClockInv
BY ClockAssumption DEF Time!Init, ClockInv, WordsInv, TimeInv, Time!NotRead, Time!Idle, Time!Unset

LEMMA ClockCallInv ==
  ASSUME ClockInv, NEW c, c.of \in {"gettimeofday", "settimeofday", "times"},
         c.of = "settimeofday" => c.t \in Times, Time!Call(c)
  PROVE  ClockInv'
<1> USE DEF Time!Call, Time!Idle
<1>1. WordsInv' BY ClockAssumption DEF ClockInv, WordsInv, Time!NotRead
<1>2. TimeInv' BY DEF ClockInv, TimeInv
<1> QED BY <1>1, <1>2 DEF ClockInv

LEMMA SysclkInitInv ==
  ASSUME ClockInv, Time!SysclkInit
  PROVE  ClockInv'
<1>1. WordsInv' BY DEF Time!SysclkInit, ClockInv, WordsInv
<1>2. tick_rate = 0 /\ tick_rate' \in Nat \ {0} /\ ALT_US \div tick_rate' \in Nat
  <2>1. tick_rate = 0 /\ tick_rate' \in TickRates BY DEF Time!SysclkInit
  <2>2. tick_rate' \in Nat \ {0} /\ ALT_US \in Nat BY <2>1, ClockAssumption
  <2> QED BY <2>1, <2>2, Divided
<1>3. TimeInv'
  <2>1. alt_resettime.tv_sec * ALT_US + alt_resettime.tv_usec =
          set.time - set.at * (ALT_US \div tick_rate')
    BY <1>2, ClockAssumption DEF ClockInv, TimeInv, Time!Unset
  <2> QED BY <1>2, <2>1 DEF Time!SysclkInit, ClockInv, TimeInv
<1> QED BY <1>1, <1>3 DEF ClockInv

\* What was returned does not depend on the count that goes on.
LEMMA ReturnedKept ==
  ASSUME UNCHANGED <<tick_rate, nticks, result, set>>
  PROVE  Time!TimeGoesOn' <=> Time!TimeGoesOn
BY DEF Time!TimeGoesOn, Time!Elapsed, Time!n

LEMMA TickInv ==
  ASSUME ClockInv, Time!Tick
  PROVE  ClockInv'
<1>1. ticks' = ticks + 1 /\ ticks' \in 0 .. MaxTicks
  BY ClockAssumption DEF Time!Tick, ClockInv, WordsInv
<1>2. began .. ticks \subseteq began .. ticks' BY <1>1 DEF ClockInv, WordsInv
<1>3. WordsInv' BY <1>1, <1>2 DEF Time!Tick, ClockInv, WordsInv
<1>4. TimeInv' BY ReturnedKept DEF Time!Tick, ClockInv, TimeInv
<1> QED BY <1>3, <1>4 DEF ClockInv

LEMMA ReadInv ==
  ASSUME ClockInv, Time!ReadLow \/ Time!ReadHigh
  PROVE  ClockInv'
<1>1. todCall # Time!Idle /\ UNCHANGED <<ticks, tick_rate, alt_resettime, todCall, result, began, set>>
  BY DEF Time!ReadLow, Time!ReadHigh, Time!ReadWord
<1>2. ticks \in Nat /\ ticks \in began .. ticks /\ ticks % Word \in Nat /\ ticks \div Word \in Nat
  <2>1. ticks \in Nat /\ ticks \in began .. ticks BY ClockAssumption DEF ClockInv, WordsInv
  <2>2. ticks % Word \in 0 .. (Word - 1) /\ ticks \div Word \in Nat
    BY <2>1, ClockAssumption, Divided
  <2> QED BY <2>1, <2>2, ClockAssumption
<1>3. WordsInv'
  <2>1. CASE nticks' = [nticks EXCEPT !["low"] = ticks % Word]
    BY <1>1, <1>2, <2>1 DEF ClockInv, WordsInv
  <2>2. CASE nticks' = [nticks EXCEPT !["high"] = ticks \div Word]
    BY <1>1, <1>2, <2>2 DEF ClockInv, WordsInv
  <2> QED BY <2>1, <2>2 DEF Time!ReadLow, Time!ReadHigh, Time!ReadWord
<1>4. TimeInv' BY <1>1 DEF ClockInv, TimeInv, Time!Idle
<1> QED BY <1>3, <1>4 DEF ClockInv

\* The count of a call that has read both words.
LEMMA CountRead ==
  ASSUME WordsInv, NEW name, Time!HaveRead(name)
  PROVE  Time!n \in Nat
BY ClockAssumption DEF WordsInv, Time!HaveRead, Time!n

LEMMA ReturnWords ==
  ASSUME WordsInv, NEW r, Time!Return(r)
  PROVE  WordsInv'
BY DEF WordsInv, Time!Return, Time!Idle

LEMMA GetTimeInv ==
  ASSUME ClockInv, Time!gettimeofday
  PROVE  ClockInv'
<1>1. WordsInv' BY ReturnWords DEF Time!gettimeofday, ClockInv
<1>2. /\ UNCHANGED <<ticks, tick_rate, nticks, began, alt_resettime, set>> /\ todCall' = Time!Idle
      /\ Time!n \in Nat
  BY CountRead DEF Time!gettimeofday, Time!Return, ClockInv
<1>3. CASE tick_rate = 0
  <2>1. result' = [of |-> "error"] BY <1>3 DEF Time!gettimeofday, Time!Return
  <2> QED BY <1>1, <1>2, <2>1 DEF ClockInv, TimeInv, Time!Idle
<1>4. CASE tick_rate # 0
  <2> DEFINE S == alt_resettime.tv_sec + Time!seconds
             U == alt_resettime.tv_usec + Time!microseconds
  <2>1. result' = [of |-> "time", time |-> Time!Carried(S, U)]
    BY <1>4 DEF Time!gettimeofday, Time!Return
  <2>2. tick_rate \in Nat \ {0} /\ ALT_US \in Nat \ {0} /\ ALT_US % tick_rate = 0
    BY <1>4, ClockAssumption DEF ClockInv, TimeInv
  <2>3. /\ ALT_US \div tick_rate \in Nat /\ Time!n * (ALT_US \div tick_rate) \in Nat
        /\ Time!seconds \in Nat /\ Time!microseconds \in Nat
        /\ Time!seconds * ALT_US + Time!microseconds = Time!n * (ALT_US \div tick_rate)
    BY <1>2, <2>2, TimeOfCount DEF Time!seconds, Time!microseconds
  <2>4. /\ alt_resettime.tv_sec \in Int /\ alt_resettime.tv_usec \in Int
        /\ set.time \in Int /\ set.at \in Int
        /\ alt_resettime.tv_sec * ALT_US + alt_resettime.tv_usec =
             set.time - set.at * (ALT_US \div tick_rate)
    BY <1>4 DEF ClockInv, TimeInv
  <2>5. S \in Int /\ U \in Int /\ S * ALT_US + U = set.time + Time!Elapsed
    <3>1. S * ALT_US + U = alt_resettime.tv_sec * ALT_US + alt_resettime.tv_usec
                             + (Time!seconds * ALT_US + Time!microseconds)
      <4> DEFINE a == alt_resettime.tv_sec
                 b == alt_resettime.tv_usec
                 c == Time!seconds
                 d == Time!microseconds
      <4>1. a \in Int /\ b \in Int /\ c \in Int /\ d \in Int /\ ALT_US \in Int
        BY <2>2, <2>3, <2>4
      <4> HIDE DEF a, b, c, d
      <4>2. (a + c) * ALT_US + (b + d) = a * ALT_US + b + (c * ALT_US + d) BY <4>1
      <4> QED BY <4>2 DEF a, b, c, d
    <3>2. Time!Elapsed = Time!n * (ALT_US \div tick_rate) - set.at * (ALT_US \div tick_rate)
      BY <1>2, <2>3, <2>4 DEF Time!Elapsed
    <3>3. /\ S \in Int /\ U \in Int /\ set.at * (ALT_US \div tick_rate) \in Int
          /\ alt_resettime.tv_sec * ALT_US + alt_resettime.tv_usec \in Int
      BY <2>2, <2>3, <2>4
    <3> QED BY <2>3, <2>4, <3>1, <3>2, <3>3
  <2> HIDE DEF S, U
  <2>6. Time!TimeGoesOn'
    <3>1. Time!Elapsed' = Time!Elapsed BY <1>2 DEF Time!Elapsed, Time!n
    <3> SUFFICES ASSUME set.time + Time!Elapsed >= 0
                 PROVE  /\ result'.time.tv_sec * ALT_US + result'.time.tv_usec =
                             set.time + Time!Elapsed
                        /\ result'.time.tv_usec \in 0 .. (ALT_US - 1)
      BY <1>2, <3>1 DEF Time!TimeGoesOn
    <3> QED BY <2>1, <2>5, CarriedTime
  <2>7. TimeInv' BY <1>2, <1>4, <2>6 DEF ClockInv, TimeInv, Time!Idle
  <2> QED BY <1>1, <2>7 DEF ClockInv
<1> QED BY <1>3, <1>4

LEMMA SetTimeInv ==
  ASSUME ClockInv, Time!settimeofday
  PROVE  ClockInv'
<1>1. WordsInv' BY ReturnWords DEF Time!settimeofday, ClockInv
<1>2. UNCHANGED <<ticks, tick_rate, nticks, began>> /\ todCall' = Time!Idle /\ Time!n \in Nat
  BY CountRead DEF Time!settimeofday, Time!Return, ClockInv
<1>3. CASE tick_rate = 0
  <2>1. result' = [of |-> "error"] /\ UNCHANGED <<alt_resettime, set>>
    BY <1>3 DEF Time!settimeofday, Time!Return
  <2> QED BY <1>1, <1>2, <2>1 DEF ClockInv, TimeInv, Time!Idle
<1>4. CASE tick_rate # 0
  <2>1. /\ result' = Time!Idle
        /\ alt_resettime' = [tv_sec |-> todCall.t.tv_sec - Time!seconds,
                             tv_usec |-> todCall.t.tv_usec - Time!microseconds]
        /\ set' = [time |-> todCall.t.tv_sec * ALT_US + todCall.t.tv_usec, at |-> Time!n]
    BY <1>4 DEF Time!settimeofday, Time!Return, Time!ResetTime
  <2>2. tick_rate \in Nat \ {0} /\ ALT_US \in Nat \ {0} /\ ALT_US % tick_rate = 0
    BY <1>4, ClockAssumption DEF ClockInv, TimeInv
  <2>3. /\ ALT_US \div tick_rate \in Nat /\ Time!n * (ALT_US \div tick_rate) \in Nat
        /\ Time!seconds \in Nat /\ Time!microseconds \in Nat
        /\ Time!seconds * ALT_US + Time!microseconds = Time!n * (ALT_US \div tick_rate)
    BY <1>2, <2>2, TimeOfCount DEF Time!seconds, Time!microseconds
  <2>4. todCall.t.tv_sec \in Int /\ todCall.t.tv_usec \in Int
    BY ClockAssumption DEF Time!settimeofday, Time!HaveRead, ClockInv, TimeInv
  <2>5. alt_resettime' \in [tv_sec : Int, tv_usec : Int] /\ set' \in [time : Int, at : Int]
    BY <1>2, <2>1, <2>2, <2>3, <2>4
  <2>6. alt_resettime'.tv_sec * ALT_US + alt_resettime'.tv_usec =
          set'.time - set'.at * (ALT_US \div tick_rate)
    <3>1. (todCall.t.tv_sec - Time!seconds) * ALT_US + (todCall.t.tv_usec - Time!microseconds) =
            todCall.t.tv_sec * ALT_US + todCall.t.tv_usec
              - (Time!seconds * ALT_US + Time!microseconds)
      BY <2>2, <2>3, <2>4
    <3>2. /\ alt_resettime'.tv_sec = todCall.t.tv_sec - Time!seconds
          /\ alt_resettime'.tv_usec = todCall.t.tv_usec - Time!microseconds
          /\ set'.time = todCall.t.tv_sec * ALT_US + todCall.t.tv_usec /\ set'.at = Time!n
      BY <2>1
    <3>3. todCall.t.tv_sec * ALT_US \in Int BY <2>2, <2>4
    <3> QED BY <2>3, <2>4, <3>1, <3>2, <3>3
  <2>7. TimeInv' BY <1>2, <1>4, <2>1, <2>5, <2>6 DEF ClockInv, TimeInv, Time!Idle
  <2> QED BY <1>1, <2>7 DEF ClockInv
<1> QED BY <1>3, <1>4

LEMMA TimesInv ==
  ASSUME ClockInv, Time!times
  PROVE  ClockInv'
<1>1. WordsInv' BY ReturnWords DEF Time!times, ClockInv
<1>2. TimeInv' BY DEF Time!times, Time!Return, ClockInv, TimeInv, Time!Idle
<1> QED BY <1>1, <1>2 DEF ClockInv

LEMMA ClockStep == ClockInv /\ [Time!Next]_times => ClockInv'
<1> SUFFICES ASSUME ClockInv, [Time!Next]_times PROVE ClockInv' OBVIOUS
<1>1. CASE UNCHANGED times
  <2>1. Time!TimeGoesOn' <=> Time!TimeGoesOn BY <1>1, ReturnedKept DEF times
  <2> QED BY <1>1, <2>1 DEF times, ClockInv, WordsInv, TimeInv
<1>2. CASE Time!SysclkInit BY <1>2, SysclkInitInv
<1>3. CASE Time!Tick BY <1>3, TickInv
<1>4. CASE Time!ReadLow \/ Time!ReadHigh BY <1>4, ReadInv
<1>5. ASSUME NEW c \in {[of |-> "gettimeofday"], [of |-> "times"]}
                         \cup [of : {"settimeofday"}, t : Times], Time!Call(c)
      PROVE  ClockInv'
  BY <1>5, ClockCallInv
<1>6. CASE Time!gettimeofday BY <1>6, GetTimeInv
<1>7. CASE Time!settimeofday BY <1>7, SetTimeInv
<1>8. CASE Time!times BY <1>8, TimesInv
<1> QED BY <1>1, <1>2, <1>3, <1>4, <1>5, <1>6, <1>7, <1>8 DEF Time!Next

LEMMA ClockKeeps == HalSpec => []ClockInv
<1>1. HalInit => ClockInv BY ClockInit DEF HalInit
<1>2. [HalNext]_halVars => [Time!Next]_times BY DEF HalNext, halVars, Only
<1> QED BY <1>1, <1>2, ClockStep, PTL DEF HalSpec

\* TimeOfDay: a call's count is one that the clock had meanwhile, or a whole word off where the
\* low word wrapped around, whatever ticks come between the reads of its words; and the time
\* goes on by the ticks from what was set.
THEOREM ClockKept == HalSpec => []ClockIsKept
<1>1. ClockInv => ClockIsKept
  <2> SUFFICES ASSUME ClockInv PROVE ClockIsKept OBVIOUS
  <2>1. Time!CountIsReal
    <3> SUFFICES ASSUME nticks.low # -1, nticks.high # -1, todCall # Time!Idle
                 PROVE  \/ Time!n \in began .. ticks
                        \/ /\ began \div Word # ticks \div Word
                           /\ Time!n + Word \in began .. ticks \/ Time!n - Word \in began .. ticks
      BY DEF Time!CountIsReal, Time!During
    <3>1. PICK t \in began .. ticks : nticks.low = t % Word BY DEF ClockInv, WordsInv
    <3>2. PICK u \in began .. ticks : nticks.high = u \div Word BY DEF ClockInv, WordsInv
    <3>3. Time!n = (u \div Word) * Word + (t % Word) BY <3>1, <3>2 DEF Time!n
    <3>4. began \in Nat /\ ticks \in Nat /\ Word \in Nat \ {0} /\ Time!n \in Int
      BY ClockAssumption DEF ClockInv, WordsInv, Time!n
    <3> HIDE DEF Time!n
    <3> QED BY <3>3, <3>4, TornCount
  <2>2. Time!TimeGoesOn
    <3>1. CASE result.of = "time" BY <3>1 DEF ClockInv, TimeInv
    <3>2. CASE result.of # "time" BY <3>2 DEF Time!TimeGoesOn
    <3> QED BY <3>1, <3>2
  <2> QED BY <2>1, <2>2 DEF ClockIsKept, Time!ClockIsKept
<1> QED BY <1>1, ClockKeeps, PTL

-----------------------------------------------------------------------------
(* DMA channels, flash devices and filesystems *)

Text == Seq(Nat \ {0})

\* Where a text ends.
LEMMA TextEnds ==
  ASSUME NEW a \in Text, NEW i \in Nat \ {0}
  PROVE  Channel!At(a, i) = 0 <=> i > Len(a)
BY DEF Channel!At, Text

\* alt_find_dev compares names to their end.
LEMMA NamesMatch ==
  ASSUME NEW a \in Text, NEW b \in Text, Len(b) <= MAX_STRING_LENGTH
  PROVE  Channel!Match(a, b) <=> a = b
<1> DEFINE stops(i) == \/ Channel!At(a, i) = 0 \/ Channel!At(b, i) = 0
                       \/ Channel!At(a, i) # Channel!At(b, i) \/ i > MAX_STRING_LENGTH
           len == CHOOSE i \in 1 .. (Len(a) + 1) : stops(i) /\ \A j \in 1 .. (i - 1) : ~stops(j)
           T == {i \in 1 .. (Len(a) + 1) : stops(i)}
<1>1. Len(a) \in Nat /\ Len(b) \in Nat /\ MAX_STRING_LENGTH \in Nat
  BY ChannelsAssumption DEF Text
<1>2. PICK m \in T : \A k \in T : m <= k
  <2>1. T \subseteq Nat BY <1>1
  <2>2. stops(Len(a) + 1) BY <1>1, TextEnds
  <2>3. T # {} BY <1>1, <2>2
  <2> HIDE DEF T
  <2> QED BY <2>1, <2>3, Least
<1>3. m \in 1 .. (Len(a) + 1) /\ stops(m) /\ \A j \in 1 .. (m - 1) : ~stops(j)
  <2>1. m \in 1 .. (Len(a) + 1) /\ stops(m) BY <1>2
  <2>2. ASSUME NEW j \in 1 .. (m - 1), stops(j) PROVE FALSE
    <3>1. j \in 1 .. (Len(a) + 1) /\ j < m BY <1>1, <2>1
    <3>2. j \in T BY <2>2, <3>1
    <3> HIDE DEF T
    <3> QED BY <1>1, <1>2, <2>1, <3>1, <3>2
  <2> QED BY <2>1, <2>2
<1> HIDE DEF stops
<1>4. len \in 1 .. (Len(a) + 1) /\ stops(len) /\ \A j \in 1 .. (len - 1) : ~stops(j) BY <1>3
<1>5. Channel!Match(a, b) <=> Channel!At(a, len) = 0 /\ Channel!At(b, len) = 0
  BY DEF Channel!Match, stops
<1> HIDE DEF len
<1>6. ASSUME Channel!At(a, len) = 0, Channel!At(b, len) = 0 PROVE a = b
  <2>1. len = Len(a) + 1 /\ Len(b) < len BY <1>1, <1>4, <1>6, TextEnds
  <2>2. ASSUME NEW j \in 1 .. Len(a) PROVE j <= Len(b) /\ a[j] = b[j]
    <3>1. ~stops(j) BY <1>1, <1>4, <2>1
    <3>2. Channel!At(b, j) # 0 /\ Channel!At(a, j) = Channel!At(b, j) BY <3>1 DEF stops
    <3>3. j <= Len(b) BY <1>1, <3>2, TextEnds
    <3> QED BY <1>1, <3>2, <3>3 DEF Channel!At
  <2>3. Len(a) = Len(b)
    <3>1. Len(a) = 0 \/ Len(a) \in 1 .. Len(a) BY <1>1
    <3> QED BY <1>1, <2>1, <2>2, <3>1
  <2>4. a = [j \in 1 .. Len(a) |-> a[j]] /\ b = [j \in 1 .. Len(b) |-> b[j]] BY DEF Text
  <2> QED BY <2>2, <2>3, <2>4
<1>7. ASSUME a = b PROVE Channel!At(a, len) = 0 /\ Channel!At(b, len) = 0
  <2>1. Channel!At(a, len) = 0 \/ len > MAX_STRING_LENGTH BY <1>4, <1>7 DEF stops
  <2>2. len > Len(a) BY <1>1, <1>4, <1>7, <2>1, TextEnds
  <2> QED BY <1>1, <1>4, <1>7, <2>2, TextEnds
<1> QED BY <1>5, <1>6, <1>7

\* alt_find_file compares the name of a filesystem, up to a '/' at its end, with as much of the
\* name of the file, which goes on with a '/' or ends there.
LEMMA FilesMatch ==
  ASSUME NEW fs \in Text, NEW name \in Text,
         \/ Len(fs) < MAX_STRING_LENGTH
         \/ Len(fs) = MAX_STRING_LENGTH /\ fs[MAX_STRING_LENGTH] = Channel!Slash
  PROVE  Channel!FileMatch(fs, name) <=> Channel!Owns(fs, name)
<1> DEFINE ends(i) == \/ Channel!At(fs, i) = 0
                      \/ Channel!At(fs, i) = Channel!Slash /\ Channel!At(fs, i + 1) = 0
           stops(i) == \/ ends(i) \/ Channel!At(fs, i) # Channel!At(name, i)
                       \/ i > MAX_STRING_LENGTH
           len == CHOOSE i \in 1 .. (Len(fs) + 1) : stops(i) /\ \A j \in 1 .. (i - 1) : ~stops(j)
           T == {i \in 1 .. (Len(fs) + 1) : stops(i)}
           mount == IF fs # <<>> /\ Channel!Last(fs) = Channel!Slash THEN Channel!Front(fs) ELSE fs
           n == Len(mount)
<1>1. Len(fs) \in Nat /\ Len(name) \in Nat /\ MAX_STRING_LENGTH \in Nat
  BY ChannelsAssumption DEF Text
<1>2. PICK m \in T : \A k \in T : m <= k
  <2>1. T \subseteq Nat BY <1>1
  <2>2. stops(Len(fs) + 1) BY <1>1, TextEnds
  <2>3. T # {} BY <1>1, <2>2
  <2> HIDE DEF T
  <2> QED BY <2>1, <2>3, Least
<1>3. m \in 1 .. (Len(fs) + 1) /\ stops(m) /\ \A j \in 1 .. (m - 1) : ~stops(j)
  <2>1. m \in 1 .. (Len(fs) + 1) /\ stops(m) BY <1>2
  <2>2. ASSUME NEW j \in 1 .. (m - 1), stops(j) PROVE FALSE
    <3>1. j \in 1 .. (Len(fs) + 1) /\ j < m BY <1>1, <2>1
    <3>2. j \in T BY <2>2, <3>1
    <3> HIDE DEF T
    <3> QED BY <1>1, <1>2, <2>1, <3>1, <3>2
  <2> QED BY <2>1, <2>2
<1>4. n \in Nat /\ mount \in Text /\ n < MAX_STRING_LENGTH /\ (\A i \in 1 .. n : mount[i] = fs[i])
      /\ \/ n = Len(fs)
         \/ n + 1 = Len(fs) /\ fs[Len(fs)] = Channel!Slash
  <2>1. CASE fs # <<>> /\ Channel!Last(fs) = Channel!Slash
    <3>1. mount = SubSeq(fs, 1, Len(fs) - 1) /\ fs[Len(fs)] = Channel!Slash
      BY <2>1 DEF Channel!Front, Channel!Last
    <3>2. Len(fs) \in Nat \ {0} BY <2>1 DEF Text
    <3> DEFINE k == Len(fs) - 1
    <3>3. k \in Nat /\ k <= Len(fs) /\ fs \in Seq(Nat \ {0}) /\ Len(fs) = k + 1
      BY <3>2 DEF Text
    <3> HIDE DEF k
    <3>4. /\ SubSeq(fs, 1, k) \in Seq(Nat \ {0}) /\ Len(SubSeq(fs, 1, k)) = k
          /\ \A i \in 1 .. k : SubSeq(fs, 1, k)[i] = fs[i]
      BY <3>3
    <3>5. mount = SubSeq(fs, 1, k) BY <3>1 DEF k
    <3> HIDE DEF mount
    <3> QED BY <1>1, <3>1, <3>3, <3>4, <3>5 DEF Text
  <2>2. CASE fs = <<>> \/ Channel!Last(fs) # Channel!Slash
    <3>1. mount = fs BY <2>2
    <3>2. Len(fs) < MAX_STRING_LENGTH
      <4>1. CASE fs = <<>> BY <4>1, ChannelsAssumption
      <4>2. CASE Channel!Last(fs) # Channel!Slash BY <4>2 DEF Channel!Last
      <4> QED BY <2>2, <4>1, <4>2
    <3> QED BY <1>1, <3>1, <3>2
  <2> QED BY <2>1, <2>2
<1>5. ends(n + 1) /\ \A i \in 1 .. n : ~ends(i)
  <2> HIDE DEF mount
  <2>1. CASE n = Len(fs)
    <3>1. Channel!At(fs, n + 1) = 0 BY <1>1, <2>1, TextEnds
    <3>2. ASSUME NEW i \in 1 .. n, ends(i) PROVE FALSE
      <4>1. Channel!At(fs, i) # 0 BY <1>1, <2>1, TextEnds
      <4>2. Channel!At(fs, i) = Channel!Slash /\ i + 1 > Len(fs) BY <1>1, <3>2, <4>1, TextEnds
      <4>3. i = Len(fs) /\ fs[Len(fs)] = Channel!Slash BY <1>1, <2>1, <4>2 DEF Channel!At
      <4> QED BY <1>1, <4>3, <2>1 DEF mount, Channel!Last, Channel!Front, Text
    <3> QED BY <3>1, <3>2
  <2>2. CASE n + 1 = Len(fs) /\ fs[Len(fs)] = Channel!Slash
    <3>1. Channel!At(fs, n + 1) = Channel!Slash /\ Channel!At(fs, n + 2) = 0
      BY <1>1, <1>4, <2>2 DEF Channel!At
    <3>2. ASSUME NEW i \in 1 .. n, ends(i) PROVE FALSE
      BY <1>1, <1>4, <2>2, <3>2, TextEnds
    <3> QED BY <1>4, <3>1, <3>2
  <2> QED BY <1>4, <2>1, <2>2
<1> HIDE DEF stops, ends, mount
<1>6. len \in 1 .. (Len(fs) + 1) /\ stops(len) /\ \A j \in 1 .. (len - 1) : ~stops(j) BY <1>3
<1>7. Channel!FileMatch(fs, name) <=>
        len <= MAX_STRING_LENGTH /\ ends(len) /\ Channel!At(name, len) \in {Channel!Slash, 0}
  BY DEF Channel!FileMatch, stops, ends
<1>8. Channel!Owns(fs, name) <=>
        mount = name \/ Channel!IsPrefix(Append(mount, Channel!Slash), name)
  BY DEF Channel!Owns, mount
<1> HIDE DEF len
<1>9. len <= n + 1
  <2>1. stops(n + 1) BY <1>5 DEF stops
  <2> QED BY <1>4, <1>6, <2>1
<1>10. \A i \in 1 .. n : Channel!At(fs, i) = mount[i] /\ mount[i] # 0
  BY <1>1, <1>4, SMTT(30) DEF Channel!At, Text
<1>11. ASSUME ends(len), Channel!At(name, len) \in {Channel!Slash, 0}
       PROVE  mount = name \/ Channel!IsPrefix(Append(mount, Channel!Slash), name)
  <2>1. len = n + 1 BY <1>4, <1>5, <1>6, <1>9, <1>11
  <2>2. ASSUME NEW j \in 1 .. n PROVE j <= Len(name) /\ name[j] = mount[j]
    <3>1. ~stops(j) BY <1>4, <1>6, <2>1
    <3>2. Channel!At(name, j) = mount[j] /\ mount[j] # 0 BY <1>10, <3>1 DEF stops
    <3>3. j <= Len(name) BY <1>1, <1>4, <3>2, TextEnds
    <3> QED BY <1>1, <3>2, <3>3 DEF Channel!At
  <2>3. n <= Len(name)
    <3>1. n = 0 \/ n \in 1 .. n BY <1>4
    <3> QED BY <1>1, <2>2, <3>1
  <2>4. CASE Channel!At(name, len) = 0
    <3>1. Len(name) = n BY <1>1, <1>4, <2>1, <2>3, <2>4, TextEnds
    <3>2. mount = [j \in 1 .. n |-> mount[j]] /\ name = [j \in 1 .. Len(name) |-> name[j]]
      BY <1>4 DEF Text
    <3> QED BY <2>2, <3>1, <3>2
  <2>5. CASE Channel!At(name, len) = Channel!Slash
    <3>1. n + 1 <= Len(name) /\ name[n + 1] = Channel!Slash
      BY <1>1, <1>4, <2>1, <2>5 DEF Channel!At, Channel!Slash
    <3> DEFINE p == Append(mount, Channel!Slash)
    <3>5. /\ p \in Seq(Nat) /\ Len(p) = n + 1 /\ p[n + 1] = Channel!Slash
          /\ \A j \in 1 .. n : p[j] = mount[j]
      BY <1>4 DEF Text, Channel!Slash
    <3>2. /\ Len(p) = n + 1 /\ p = [j \in 1 .. (n + 1) |-> name[j]]
      <4> HIDE DEF p
      <4>1. ASSUME NEW j \in 1 .. (n + 1) PROVE p[j] = name[j]
        <5>1. j \in 1 .. n \/ j = n + 1
          <6>1. n \in Nat BY <1>4
          <6> HIDE DEF n
          <6> QED BY <6>1
        <5> QED BY <2>2, <3>1, <3>5, <5>1
      <4>2. p = [j \in 1 .. Len(p) |-> p[j]] BY <3>5
      <4> QED BY <3>5, <4>1, <4>2
    <3>3. SubSeq(name, 1, n + 1) = [j \in 1 .. (n + 1) |-> name[j]]
      BY <1>1, <1>4, <3>1 DEF Text
    <3>4. SubSeq(p, 1, n + 1) = [j \in 1 .. (n + 1) |-> p[j]]
      BY <1>4 DEF Text
    <3> QED BY <3>1, <3>2, <3>3, <3>4 DEF Channel!IsPrefix
  <2> QED BY <1>11, <2>4, <2>5
<1>12. ASSUME mount = name \/ Channel!IsPrefix(Append(mount, Channel!Slash), name)
       PROVE  /\ len <= MAX_STRING_LENGTH /\ ends(len)
              /\ Channel!At(name, len) \in {Channel!Slash, 0}
  <2>1. /\ n <= Len(name) /\ \A i \in 1 .. n : name[i] = mount[i]
        /\ Channel!At(name, n + 1) \in {Channel!Slash, 0}
    <3>1. CASE mount = name BY <1>1, <1>4, <3>1 DEF Channel!At
    <3>2. CASE Channel!IsPrefix(Append(mount, Channel!Slash), name)
      <4> DEFINE p == Append(mount, Channel!Slash)
      <4>1. /\ Len(p) = n + 1 /\ p[n + 1] = Channel!Slash /\ \A i \in 1 .. n : p[i] = mount[i]
            /\ p \in Seq(Nat)
        BY <1>4 DEF Text, Channel!Slash
      <4> HIDE DEF p
      <4>2. n + 1 <= Len(name) /\ SubSeq(p, 1, n + 1) = SubSeq(name, 1, n + 1)
        BY <3>2, <4>1 DEF Channel!IsPrefix, p
      <4>3. \A i \in 1 .. (n + 1) : SubSeq(p, 1, n + 1)[i] = p[i]
                                    /\ SubSeq(name, 1, n + 1)[i] = name[i]
        BY <1>1, <1>4, <4>1, <4>2 DEF Text
      <4>4. \A i \in 1 .. (n + 1) : p[i] = name[i] BY <4>2, <4>3
      <4> QED BY <1>1, <1>4, <4>1, <4>2, <4>4 DEF Channel!At
    <3> QED BY <1>12, <3>1, <3>2
  <2>2. \A i \in 1 .. n : ~stops(i)
    BY <1>1, <1>4, <1>5, <1>10, <2>1 DEF stops, Channel!At
  <2>3. len = n + 1 BY <1>4, <1>6, <1>9, <2>2
  <2> QED BY <1>1, <1>4, <1>5, <2>1, <2>3
<1> QED BY <1>7, <1>8, <1>11, <1>12

\* The i-th node of a list's circle: the head, its devices, and the head again.
Nth(l, i) == IF i \in 1 .. Len(order[l]) THEN order[l][i] ELSE l
After(l) == 0 .. Len(order[l])

\* Every device is at most once in one list.
ListsInv ==
  /\ following \in [Channel!Nodes -> Channel!Nodes \cup {NULL}]
  /\ previous \in [Channel!Nodes -> Channel!Nodes \cup {NULL}]
  /\ order \in [Channel!Lists -> Seq(Channel!Devices)]
  /\ \A l, m \in Channel!Lists : \A i \in 1 .. Len(order[l]), j \in 1 .. Len(order[m]) :
       order[l][i] = order[m][j] => l = m /\ i = j
  /\ \A l \in Channel!Lists : \A i \in After(l) :
       following[Nth(l, i)] = Nth(l, i + 1) /\ previous[Nth(l, i + 1)] = Nth(l, i)

\* A search is at a node of its list, and none of the devices before has the name.
SearchInv ==
  /\ search # NULL =>
       /\ search \in [list : Channel!Lists, name : Text, at : Channel!Nodes]
       /\ opened = [list |-> search.list, name |-> search.name] /\ fd = NULL
       /\ \E i \in After(search.list) :
            /\ search.at = Nth(search.list, i + 1)
            /\ \A j \in 1 .. i :
                 ~Channel!Named(search.list, search.name, order[search.list][j])
  /\ opened # NULL => opened \in [list : Channel!Lists, name : Text]
  /\ fd # NULL => /\ opened \in [list : Channel!Lists, name : Text]
                  /\ \E i \in 1 .. Len(order[opened.list]) : order[opened.list][i] = fd
                  /\ Channel!Named(opened.list, opened.name, fd)
  /\ reached # NULL /\ reached.driver # NULL =>
       \E l \in Channel!Lists :
         /\ \E i \in 1 .. Len(order[l]) : order[l][i] = reached.driver
         /\ reached.function \in Channel!Functions(l)

ChannelTypes ==
  /\ errno \in {"0", "EINVAL", "ENODEV"} /\ fd \in Channel!Devices \cup {NULL}
  /\ reached # NULL => reached.driver \in Channel!Devices \cup {NULL}

ChannelInv == ListsInv /\ SearchInv /\ ChannelTypes

LEMMA ListNodes ==
  ASSUME ListsInv, NEW l \in Channel!Lists
  PROVE  /\ Len(order[l]) \in Nat /\ order[l] \in Seq(Channel!Devices) /\ l \notin Channel!Devices
         /\ \A i \in 1 .. Len(order[l]) :
              /\ order[l][i] \in Channel!Devices /\ order[l][i] \notin Channel!Lists
              /\ Nth(l, i) = order[l][i]
         /\ Nth(l, 0) = l /\ Nth(l, Len(order[l]) + 1) = l
         /\ \A i \in 0 .. (Len(order[l]) + 1) : Nth(l, i) \in Channel!Nodes
<1>1. order[l] \in Seq(Channel!Devices) BY DEF ListsInv
<1>2. \A d \in Channel!Devices : d \notin Channel!Lists BY ChannelsAssumption DEF Channel!Devices
<1> QED BY <1>1, <1>2 DEF Nth, Channel!Nodes

\* alt_llist_insert leaves every list a circle.
LEMMA InsertInv ==
  ASSUME ListsInv, NEW chain \in Channel!Lists, NEW d \in Channel!Devices,
         \A l \in Channel!Lists : \A i \in 1 .. Len(order[l]) : order[l][i] # d,
         Channel!Inserted(chain, d)
  PROVE  ListsInv'
<1> DEFINE n == Len(order[chain])
           first == following[chain]
<1>1. /\ following' = [following EXCEPT ![chain] = d, ![d] = first]
      /\ previous' = [previous EXCEPT ![d] = chain, ![first] = d]
      /\ order' = [order EXCEPT ![chain] = <<d>> \o @]
  BY DEF Channel!Inserted, Channel!Insert
<1>2. /\ following \in [Channel!Nodes -> Channel!Nodes \cup {NULL}]
      /\ previous \in [Channel!Nodes -> Channel!Nodes \cup {NULL}]
      /\ order \in [Channel!Lists -> Seq(Channel!Devices)]
      /\ chain \in Channel!Nodes /\ d \in Channel!Nodes /\ d # chain
  BY ListNodes DEF ListsInv, Channel!Nodes
<1>3. n \in Nat /\ first = Nth(chain, 1) /\ first \in Channel!Nodes
      /\ \A i \in After(chain) : following[Nth(chain, i)] = Nth(chain, i + 1)
                                /\ previous[Nth(chain, i + 1)] = Nth(chain, i)
  <2>1. n \in Nat /\ 0 \in After(chain) BY ListNodes DEF After
  <2>2. \A i \in After(chain) : following[Nth(chain, i)] = Nth(chain, i + 1)
                               /\ previous[Nth(chain, i + 1)] = Nth(chain, i)
    BY DEF ListsInv
  <2>3. first = Nth(chain, 1) BY <2>1, <2>2, ListNodes
  <2>4. 1 \in 0 .. (n + 1) BY <2>1
  <2> QED BY <2>1, <2>2, <2>3, <2>4, ListNodes
<1>4. /\ order'[chain] \in Seq(Channel!Devices) /\ Len(order'[chain]) = n + 1
      /\ order'[chain][1] = d /\ \A i \in 2 .. (n + 1) : order'[chain][i] = order[chain][i - 1]
      /\ \A l \in Channel!Lists : l # chain => order'[l] = order[l]
      /\ order' \in [Channel!Lists -> Seq(Channel!Devices)]
  <2>1. order'[chain] = <<d>> \o order[chain] /\ order[chain] \in Seq(Channel!Devices) BY <1>1, <1>2
  <2>2. <<d>> \in Seq(Channel!Devices) /\ Len(<<d>>) = 1 /\ <<d>>[1] = d OBVIOUS
  <2>3. /\ <<d>> \o order[chain] \in Seq(Channel!Devices) /\ Len(<<d>> \o order[chain]) = n + 1
        /\ (<<d>> \o order[chain])[1] = d
        /\ \A i \in 2 .. (n + 1) : (<<d>> \o order[chain])[i] = order[chain][i - 1]
    BY <1>3, <2>1, <2>2
  <2> QED BY <1>1, <1>2, <2>1, <2>3
<1> DEFINE Old(i) == Nth(chain, i)
           New(i) == IF i = 0 THEN chain ELSE IF i = 1 THEN d ELSE Nth(chain, i - 1)
<1>5. \A i \in 0 .. (n + 2) : Nth(chain, i)' = New(i)
  <2>1. ASSUME NEW i \in 0 .. (n + 2) PROVE Nth(chain, i)' = New(i)
    <3> HIDE DEF n
    <3>1. CASE i = 0 BY <1>3, <1>4, <3>1 DEF Nth
    <3>2. CASE i = 1 BY <1>3, <1>4, <3>2 DEF Nth
    <3>3. CASE i \in 2 .. (n + 1)
      <4>1. i - 1 \in 1 .. n /\ i \in 1 .. (n + 1) /\ i # 0 /\ i # 1 BY <1>3, <3>3
      <4> QED BY <1>4, <3>3, <4>1 DEF Nth, n
    <3>4. CASE i = n + 2
      <4>1. i - 1 \notin 1 .. n /\ i \notin 1 .. (n + 1) /\ i # 0 /\ i # 1 BY <1>3, <3>4
      <4> QED BY <1>4, <4>1 DEF Nth, n
    <3> QED BY <1>3, <3>1, <3>2, <3>3, <3>4
  <2> QED BY <2>1
<1>6. \A l \in Channel!Lists : l # chain => \A i \in Nat : Nth(l, i)' = Nth(l, i)
  BY <1>4 DEF Nth
<1>7. \A l \in Channel!Lists, i \in Nat : Nth(l, i) # d
  BY ListNodes DEF Nth
<1>8. ASSUME NEW l \in Channel!Lists, NEW i \in After(l)'
      PROVE  /\ following'[Nth(l, i)'] = Nth(l, i + 1)'
             /\ previous'[Nth(l, i + 1)'] = Nth(l, i)'
  <2>1. CASE l = chain
    <3>1. i \in 0 .. (n + 1) /\ i \in 0 .. (n + 2) /\ i + 1 \in 0 .. (n + 2)
      BY <1>3, <1>4, <2>1 DEF After
    <3>2. Nth(l, i)' = New(i) /\ Nth(l, i + 1)' = New(i + 1) BY <1>5, <2>1, <3>1
    <3> HIDE DEF n
    <3>3. CASE i = 0
      <4>1. New(i) = chain /\ New(i + 1) = d BY <3>3
      <4> HIDE DEF New
      <4>2. following'[chain] = d BY <1>1, <1>2
      <4>3. previous'[d] = chain BY <1>1, <1>2, <1>3, <1>7
      <4> QED BY <3>2, <4>1, <4>2, <4>3
    <3>4. CASE i = 1
      <4>1. New(i) = d /\ New(i + 1) = first BY <1>3, <3>4
      <4> HIDE DEF New, first
      <4>2. following'[d] = first BY <1>1, <1>2
      <4>3. previous'[first] = d BY <1>1, <1>2, <1>3
      <4> QED BY <3>2, <4>1, <4>2, <4>3
    <3>5. CASE i \in 2 .. (n + 1)
      <4> DEFINE k == i - 1
      <4>1. k \in 1 .. n /\ k + 1 \in 0 .. (n + 1) /\ k \in 0 .. (n + 1) /\ i = k + 1
            /\ k \in 0 .. n
        BY <1>3, <3>5
      <4>2. New(i) = Nth(chain, k) /\ New(i + 1) = Nth(chain, k + 1) BY <3>1, <3>5
      <4> HIDE DEF k, New
      <4>3. /\ following[Nth(chain, k)] = Nth(chain, k + 1)
            /\ previous[Nth(chain, k + 1)] = Nth(chain, k)
            /\ Nth(chain, k) \in Channel!Nodes /\ Nth(chain, k + 1) \in Channel!Nodes
        BY <1>3, <4>1, ListNodes DEF After, n
      <4>4. Nth(chain, k) # chain /\ Nth(chain, k) # d /\ Nth(chain, k + 1) # d
        <5>1. k \in 1 .. Len(order[chain]) /\ k \in Nat /\ k + 1 \in Nat BY <1>3, <4>1 DEF n
        <5>2. Nth(chain, k) \notin Channel!Lists BY <5>1, ListNodes
        <5> QED BY <1>7, <5>1, <5>2
      <4>5. Nth(chain, k + 1) # first
        <5>1. CASE k = n BY <1>3, <4>1, <5>1, ListNodes DEF n
        <5>2. CASE k # n
          <6>1. k + 1 \in 1 .. n /\ 1 \in 1 .. n /\ k + 1 # 1 BY <1>3, <4>1, <5>2
          <6>2. order[chain][k + 1] # order[chain][1] BY <6>1 DEF ListsInv, n
          <6> QED BY <1>3, <6>1, <6>2, ListNodes DEF n
        <5> QED BY <5>1, <5>2
      <4> HIDE DEF first
      <4>6. following'[Nth(chain, k)] = following[Nth(chain, k)] BY <1>1, <1>2, <4>3, <4>4
      <4>7. previous'[Nth(chain, k + 1)] = previous[Nth(chain, k + 1)]
        BY <1>1, <1>2, <4>3, <4>4, <4>5
      <4> QED BY <3>2, <4>2, <4>3, <4>6, <4>7
    <3> QED BY <1>3, <3>1, <3>3, <3>4, <3>5
  <2>2. CASE l # chain
    <3>1. i \in After(l) /\ i \in Nat /\ i + 1 \in Nat BY <1>4, <2>2, ListNodes DEF After
    <3>2. Nth(l, i)' = Nth(l, i) /\ Nth(l, i + 1)' = Nth(l, i + 1) BY <1>6, <2>2, <3>1
    <3>3. following[Nth(l, i)] = Nth(l, i + 1) /\ previous[Nth(l, i + 1)] = Nth(l, i)
          /\ Nth(l, i) \in Channel!Nodes /\ Nth(l, i + 1) \in Channel!Nodes
      <4>1. i \in 0 .. (Len(order[l]) + 1) /\ i + 1 \in 0 .. (Len(order[l]) + 1)
        BY <3>1, ListNodes DEF After
      <4> QED BY <3>1, <4>1, ListNodes DEF ListsInv
    <3>4. \A j \in Nat : Nth(l, j) # chain /\ Nth(l, j) # d /\ Nth(l, j) # first
      <4>1. ASSUME NEW j \in Nat PROVE Nth(l, j) # chain BY <2>2, ListNodes DEF Nth
      <4>2. ASSUME NEW j \in Nat PROVE Nth(l, j) # first
        <5>1. first = chain \/ (1 \in 1 .. n /\ first = order[chain][1]) BY <1>3 DEF Nth
        <5>2. CASE first = chain BY <4>1, <5>2
        <5>3. CASE 1 \in 1 .. n /\ first = order[chain][1]
          <6>1. first \notin Channel!Lists BY <5>3, ListNodes
          <6>2. CASE j \in 1 .. Len(order[l])
            BY <2>2, <5>3, <6>2 DEF Nth, ListsInv
          <6>3. CASE j \notin 1 .. Len(order[l]) BY <6>1, <6>3 DEF Nth
          <6> QED BY <6>2, <6>3
        <5> QED BY <5>1, <5>2, <5>3
      <4> QED BY <1>7, <4>1, <4>2
    <3> HIDE DEF first
    <3>5. following'[Nth(l, i)] = following[Nth(l, i)] BY <1>1, <1>2, <3>1, <3>3, <3>4
    <3>6. previous'[Nth(l, i + 1)] = previous[Nth(l, i + 1)] BY <1>1, <1>2, <3>1, <3>3, <3>4
    <3> QED BY <3>2, <3>3, <3>5, <3>6
  <2> QED BY <2>1, <2>2
<1>9. ASSUME NEW l \in Channel!Lists, NEW m \in Channel!Lists,
             NEW i \in 1 .. Len(order'[l]), NEW j \in 1 .. Len(order'[m]),
             order'[l][i] = order'[m][j]
      PROVE  l = m /\ i = j
  <2>1. ASSUME NEW p \in Channel!Lists, NEW k \in 1 .. Len(order'[p])
        PROVE  \/ p = chain /\ k = 1 /\ order'[p][k] = d
               \/ p = chain /\ k - 1 \in 1 .. n /\ order'[p][k] = order[chain][k - 1]
               \/ p # chain /\ k \in 1 .. Len(order[p]) /\ order'[p][k] = order[p][k]
    <3>1. CASE p = chain
      <4>1. k \in 1 .. (n + 1) BY <1>4, <2>1, <3>1
      <4>2. k = 1 \/ (k \in 2 .. (n + 1) /\ k - 1 \in 1 .. n)
        <5> HIDE DEF n
        <5> QED BY <1>3, <4>1
      <4> QED BY <1>4, <3>1, <4>2
    <3>2. CASE p # chain BY <1>4, <3>2
    <3> QED BY <3>1, <3>2
  <2>2. i \in Nat /\ j \in Nat BY <2>1
  <2>3. \A p \in Channel!Lists : \A k \in 1 .. Len(order[p]) : order[p][k] # d OBVIOUS
  <2>4. \A p, q \in Channel!Lists : \A k \in 1 .. Len(order[p]), e \in 1 .. Len(order[q]) :
          order[p][k] = order[q][e] => p = q /\ k = e
    BY DEF ListsInv
  <2>5. CASE l = chain /\ i = 1
    <3>1. order'[m][j] = d BY <1>4, <1>9, <2>5
    <3>2. \/ m = chain /\ j = 1
          \/ j - 1 \in 1 .. n /\ order'[m][j] = order[chain][j - 1]
          \/ j \in 1 .. Len(order[m]) /\ order'[m][j] = order[m][j]
      BY <2>1
    <3> QED BY <2>3, <2>5, <3>1, <3>2
  <2>6. CASE m = chain /\ j = 1
    <3>1. order'[l][i] = d BY <1>4, <1>9, <2>6
    <3>2. \/ l = chain /\ i = 1
          \/ i - 1 \in 1 .. n /\ order'[l][i] = order[chain][i - 1]
          \/ i \in 1 .. Len(order[l]) /\ order'[l][i] = order[l][i]
      BY <2>1
    <3> QED BY <2>3, <2>6, <3>1, <3>2
  <2>7. CASE ~(l = chain /\ i = 1) /\ ~(m = chain /\ j = 1)
    <3>1. CASE l = chain /\ m = chain
      <4>1. /\ i - 1 \in 1 .. n /\ order'[l][i] = order[chain][i - 1]
            /\ j - 1 \in 1 .. n /\ order'[m][j] = order[chain][j - 1]
        BY <2>1, <2>7, <3>1
      <4>2. i - 1 = j - 1
        <5>1. order[chain][i - 1] = order[chain][j - 1] BY <1>9, <4>1
        <5> DEFINE x == i - 1
                   y == j - 1
        <5>2. /\ x \in 1 .. Len(order[chain]) /\ y \in 1 .. Len(order[chain])
              /\ order[chain][x] = order[chain][y]
          BY <4>1, <5>1
        <5> HIDE DEF x, y
        <5>3. x = y BY <2>4, <5>2
        <5> QED BY <5>3 DEF x, y
      <4> QED BY <2>2, <3>1, <4>2
    <3>2. CASE l = chain /\ m # chain BY <1>9, <2>1, <2>4, <2>7, <3>2
    <3>3. CASE l # chain /\ m = chain BY <1>9, <2>1, <2>4, <2>7, <3>3
    <3>4. CASE l # chain /\ m # chain BY <1>9, <2>1, <2>4, <2>7, <3>4
    <3> QED BY <3>1, <3>2, <3>3, <3>4
  <2> QED BY <2>5, <2>6, <2>7
<1>10. /\ following' \in [Channel!Nodes -> Channel!Nodes \cup {NULL}]
       /\ previous' \in [Channel!Nodes -> Channel!Nodes \cup {NULL}]
  BY <1>1, <1>2, <1>3
<1> QED BY <1>4, <1>8, <1>9, <1>10 DEF ListsInv

LEMMA ChannelInit == Channel!Init => ChannelInv
<1> SUFFICES ASSUME Channel!Init PROVE ChannelInv OBVIOUS
<1> USE DEF Channel!Init
<1>1. \A l \in Channel!Lists : order[l] = <<>> /\ Len(order[l]) = 0 OBVIOUS
<1>2. /\ following \in [Channel!Nodes -> Channel!Nodes \cup {NULL}]
      /\ previous \in [Channel!Nodes -> Channel!Nodes \cup {NULL}]
      /\ order \in [Channel!Lists -> Seq(Channel!Devices)]
  BY DEF Channel!Nodes
<1>3. \A l \in Channel!Lists : following[l] = l /\ previous[l] = l BY DEF Channel!Nodes
<1>4. \A l \in Channel!Lists : \A i \in After(l) :
        following[Nth(l, i)] = Nth(l, i + 1) /\ previous[Nth(l, i + 1)] = Nth(l, i)
  BY <1>1, <1>3 DEF After, Nth
<1>5. ListsInv BY <1>1, <1>2, <1>4 DEF ListsInv
<1>6. SearchInv /\ ChannelTypes BY DEF SearchInv, ChannelTypes
<1> QED BY <1>5, <1>6 DEF ChannelInv

\* What was found stays in its list when devices are registered; nobody searches meanwhile.
LEMMA RegisteredInv ==
  ASSUME ChannelInv, ListsInv', search = NULL, UNCHANGED <<search, fd, opened, reached>>,
         errno' \in {"0", "EINVAL", "ENODEV"},
         \A l \in Channel!Lists : \A i \in 1 .. Len(order[l]) :
           \E j \in 1 .. Len(order'[l]) : order'[l][j] = order[l][i]
  PROVE  ChannelInv'
<1>1. ChannelTypes' BY DEF ChannelInv, ChannelTypes
<1>2. opened' # NULL => opened' \in [list : Channel!Lists, name : Text]
  BY DEF ChannelInv, SearchInv
<1>3. fd' # NULL => /\ opened' \in [list : Channel!Lists, name : Text]
                    /\ \E i \in 1 .. Len(order'[opened'.list]) : order'[opened'.list][i] = fd'
                    /\ Channel!Named(opened'.list, opened'.name, fd')
  <2> SUFFICES ASSUME fd' # NULL
               PROVE  /\ opened' \in [list : Channel!Lists, name : Text]
                      /\ \E i \in 1 .. Len(order'[opened'.list]) :
                           order'[opened'.list][i] = fd'
                      /\ Channel!Named(opened'.list, opened'.name, fd')
    OBVIOUS
  <2>1. /\ opened \in [list : Channel!Lists, name : Text]
        /\ Channel!Named(opened.list, opened.name, fd)
        /\ opened.list \in Channel!Lists
    BY DEF ChannelInv, SearchInv
  <2>2. PICK i \in 1 .. Len(order[opened.list]) : order[opened.list][i] = fd
    BY DEF ChannelInv, SearchInv
  <2>3. PICK j \in 1 .. Len(order'[opened.list]) : order'[opened.list][j] = order[opened.list][i]
    BY <2>1
  <2> QED BY <2>1, <2>2, <2>3
<1>4. reached' # NULL /\ reached'.driver # NULL =>
        \E l \in Channel!Lists :
          /\ \E i \in 1 .. Len(order'[l]) : order'[l][i] = reached'.driver
          /\ reached'.function \in Channel!Functions(l)
  <2> SUFFICES ASSUME reached # NULL, reached.driver # NULL
               PROVE  \E l \in Channel!Lists :
                        /\ \E i \in 1 .. Len(order'[l]) : order'[l][i] = reached.driver
                        /\ reached.function \in Channel!Functions(l)
    OBVIOUS
  <2>1. PICK l \in Channel!Lists :
          /\ \E i \in 1 .. Len(order[l]) : order[l][i] = reached.driver
          /\ reached.function \in Channel!Functions(l)
    BY DEF ChannelInv, SearchInv
  <2>2. PICK i \in 1 .. Len(order[l]) : order[l][i] = reached.driver BY <2>1
  <2>3. PICK j \in 1 .. Len(order'[l]) : order'[l][j] = order[l][i] OBVIOUS
  <2> QED BY <2>1, <2>2, <2>3
<1>5. \A l, n, d : Channel!Named(l, n, d)' <=> Channel!Named(l, n, d) BY DEF Channel!Named
<1> QED BY <1>1, <1>2, <1>3, <1>4 DEF ChannelInv, SearchInv

LEMMA RegisterInv ==
  ASSUME ChannelInv, NEW chain \in Channel!Lists, NEW d \in Channel!Devices,
         Channel!Fresh(d), Channel!Inserted(chain, d) \/ UNCHANGED <<following, previous, order>>,
         UNCHANGED <<search, fd, opened, reached>>, errno' \in {"0", "EINVAL", "ENODEV"}
  PROVE  ChannelInv'
<1>1. search = NULL BY DEF Channel!Fresh
<1>2. ListsInv BY DEF ChannelInv
<1>3. CASE UNCHANGED <<following, previous, order>>
  <2>1. ListsInv' BY <1>2, <1>3 DEF ListsInv, Nth, After
  <2> QED BY <1>1, <1>3, <2>1, RegisteredInv
<1>4. CASE Channel!Inserted(chain, d)
  <2>1. \A l \in Channel!Lists : \A i \in 1 .. Len(order[l]) : order[l][i] # d
    <3>1. \A l \in Channel!Lists : order[l] \in Seq(Channel!Devices) BY <1>2 DEF ListsInv
    <3> QED BY <3>1 DEF Channel!Fresh
  <2>2. ListsInv' BY <1>2, <1>4, <2>1, InsertInv
  <2>3. ASSUME NEW l \in Channel!Lists, NEW i \in 1 .. Len(order[l])
        PROVE  \E j \in 1 .. Len(order'[l]) : order'[l][j] = order[l][i]
    <3>1. order' = [order EXCEPT ![chain] = <<d>> \o @] /\ order[l] \in Seq(Channel!Devices)
          /\ order \in [Channel!Lists -> Seq(Channel!Devices)]
      BY <1>2, <1>4 DEF Channel!Inserted, ListsInv
    <3>2. CASE l = chain
      <4> DEFINE o == order[chain]
      <4>1. o \in Seq(Channel!Devices) /\ i \in 1 .. Len(o) BY <3>1, <3>2
      <4>2. order'[l] = <<d>> \o o BY <3>1, <3>2
      <4> HIDE DEF o
      <4>3. i + 1 \in 1 .. Len(<<d>> \o o) /\ (<<d>> \o o)[i + 1] = o[i] BY <4>1
      <4> QED BY <3>2, <4>2, <4>3 DEF o
    <3>3. CASE l # chain BY <3>1, <3>3
    <3> QED BY <3>2, <3>3
  <2> QED BY <1>1, <2>2, <2>3, RegisteredInv
<1> QED BY <1>3, <1>4

\* What a search looks for is a text, which is the name of a device exactly if it matches.
LEMMA MatchesNamed ==
  ASSUME NEW chain \in Channel!Lists, NEW name \in Text, NEW d \in Channel!Devices
  PROVE  Channel!Matches(chain, name, d) <=> Channel!Named(chain, name, d)
<1>1. /\ Names[d] \in Text /\ Len(Names[d]) <= MAX_STRING_LENGTH
      /\ \/ Len(Names[d]) < MAX_STRING_LENGTH
         \/ Len(Names[d]) = MAX_STRING_LENGTH /\ Names[d][MAX_STRING_LENGTH] = Channel!Slash
  BY ChannelsAssumption DEF Channel!Devices, Text
<1>2. Channel!FileMatch(Names[d], name) <=> Channel!Owns(Names[d], name) BY <1>1, FilesMatch
<1>3. Channel!Match(name, Names[d]) <=> name = Names[d] BY <1>1, NamesMatch
<1> QED BY <1>2, <1>3 DEF Channel!Matches, Channel!Named

LEMMA OpenInv ==
  ASSUME ChannelInv, NEW chain \in Channel!Lists, NEW name \in Text, Channel!Open(chain, name)
  PROVE  ChannelInv'
<1>1. /\ search' = [list |-> chain, name |-> name, at |-> following[chain]]
      /\ opened' = [list |-> chain, name |-> name] /\ fd' = NULL /\ reached' = NULL
      /\ UNCHANGED <<following, previous, order, errno>>
  BY DEF Channel!Open, Channel!lists
<1>2. ListsInv' BY <1>1 DEF ChannelInv, ListsInv, Nth, After
<1>3. ChannelTypes' BY <1>1 DEF ChannelInv, ChannelTypes
<1>4. ListsInv BY DEF ChannelInv
<1>5. 0 \in After(chain) /\ following[chain] = Nth(chain, 0 + 1) /\ following[chain] \in Channel!Nodes
  <2>1. 0 \in After(chain) /\ Nth(chain, 0) = chain BY <1>4, ListNodes DEF After
  <2>2. following[Nth(chain, 0)] = Nth(chain, 0 + 1) BY <1>4, <2>1 DEF ListsInv
  <2>3. 0 + 1 \in 0 .. (Len(order[chain]) + 1) BY <1>4, ListNodes
  <2> QED BY <1>4, <2>1, <2>2, <2>3, ListNodes
<1>6. /\ After(chain)' = After(chain) /\ Nth(chain, 0 + 1)' = Nth(chain, 0 + 1)
  BY <1>1 DEF After, Nth
<1>7. /\ search'.list = chain /\ search'.name = name /\ search'.at = following[chain]
      /\ search' \in [list : Channel!Lists, name : Text, at : Channel!Nodes]
  BY <1>1, <1>5
<1>8. \E i \in After(chain)' :
        /\ search'.at = Nth(chain, i + 1)'
        /\ \A j \in 1 .. i : ~Channel!Named(chain, name, order'[chain][j])
  BY <1>5, <1>6, <1>7
<1>9. SearchInv' BY <1>1, <1>7, <1>8 DEF SearchInv
<1> QED BY <1>2, <1>3, <1>9 DEF ChannelInv

\* A search that is not back at its head is at a device of its list.
LEMMA SearchedDevice ==
  ASSUME ChannelInv, search # NULL, search.at # search.list
  PROVE  /\ search.list \in Channel!Lists /\ search.name \in Text
         /\ \E i \in 1 .. Len(order[search.list]) :
              /\ search.at = order[search.list][i] /\ search.at \in Channel!Devices
              /\ following[search.at] = Nth(search.list, i + 1)
              /\ \A j \in 1 .. (i - 1) :
                   ~Channel!Named(search.list, search.name, order[search.list][j])
<1> DEFINE l == search.list
<1>1. search \in [list : Channel!Lists, name : Text, at : Channel!Nodes]
  BY DEF ChannelInv, SearchInv
<1>2. l \in Channel!Lists /\ search.name \in Text BY <1>1
<1>3. PICK i \in After(l) :
        /\ search.at = Nth(l, i + 1)
        /\ \A j \in 1 .. i : ~Channel!Named(l, search.name, order[l][j])
  BY DEF ChannelInv, SearchInv
<1>4. ListsInv BY DEF ChannelInv
<1> DEFINE n == Len(order[l])
           k == i + 1
<1>5. n \in Nat /\ i \in 0 .. n BY <1>2, <1>3, <1>4, ListNodes DEF After
<1>6. k \in 1 .. n /\ k \in After(l) /\ k - 1 = i
  <2>1. i # n BY <1>2, <1>3, <1>4, ListNodes
  <2> HIDE DEF n
  <2>2. i + 1 \in 1 .. n /\ i + 1 \in 0 .. n /\ (i + 1) - 1 = i BY <1>5, <2>1
  <2> QED BY <2>2 DEF n, After
<1>7. search.at = Nth(l, k) BY <1>3
<1> HIDE DEF k
<1>8. search.at = order[l][k] /\ search.at \in Channel!Devices
  BY <1>2, <1>4, <1>6, <1>7, ListNodes
<1>9. following[search.at] = Nth(l, k + 1) BY <1>2, <1>4, <1>6, <1>7 DEF ListsInv
<1> QED BY <1>2, <1>3, <1>6, <1>8, <1>9

LEMMA AdvanceInv == ASSUME ChannelInv, Channel!Advance PROVE ChannelInv'
<1> DEFINE l == search.list
           name == search.name
<1>1. /\ search # NULL /\ search.at # l /\ ~Channel!Matches(l, name, search.at)
      /\ search' = [search EXCEPT !.at = following[@]]
      /\ UNCHANGED <<following, previous, order, fd, opened, errno, reached>>
  BY DEF Channel!Advance, Channel!lists
<1>2. l \in Channel!Lists /\ name \in Text BY <1>1, SearchedDevice
<1>3. PICK i \in 1 .. Len(order[l]) :
        /\ search.at = order[l][i] /\ search.at \in Channel!Devices
        /\ following[search.at] = Nth(l, i + 1)
        /\ \A j \in 1 .. (i - 1) : ~Channel!Named(l, name, order[l][j])
  BY <1>1, SearchedDevice
<1>4. ListsInv /\ ListsInv' /\ ChannelTypes' BY <1>1 DEF ChannelInv, ListsInv, Nth, After, ChannelTypes
<1>5. ~Channel!Named(l, name, order[l][i]) BY <1>1, <1>2, <1>3, MatchesNamed
<1>6. i \in After(l) /\ \A j \in 1 .. i : ~Channel!Named(l, name, order[l][j])
  <2>1. Len(order[l]) \in Nat BY <1>2, <1>4, ListNodes
  <2>2. \A j \in 1 .. i : j = i \/ j \in 1 .. (i - 1) BY <2>1
  <2> QED BY <1>3, <1>5, <2>1, <2>2 DEF After
<1>7. Nth(l, i + 1) \in Channel!Nodes
  <2>1. i + 1 \in 0 .. (Len(order[l]) + 1) BY <1>2, <1>4, ListNodes
  <2> QED BY <1>2, <1>4, <2>1, ListNodes
<1>8. /\ search \in [list : Channel!Lists, name : Text, at : Channel!Nodes]
      /\ opened = [list |-> l, name |-> name] /\ fd = NULL
  BY <1>1 DEF ChannelInv, SearchInv
<1>9. /\ search'.list = l /\ search'.name = name /\ search'.at = Nth(l, i + 1)
      /\ search' \in [list : Channel!Lists, name : Text, at : Channel!Nodes]
  BY <1>1, <1>3, <1>7, <1>8
<1>10. After(l)' = After(l) /\ Nth(l, i + 1)' = Nth(l, i + 1) BY <1>1 DEF After, Nth
<1>11. search' # NULL =>
         /\ search' \in [list : Channel!Lists, name : Text, at : Channel!Nodes]
         /\ opened' = [list |-> search'.list, name |-> search'.name] /\ fd' = NULL
         /\ \E k \in After(search.list)' :
              /\ search'.at = Nth(search.list, k + 1)'
              /\ \A j \in 1 .. k : ~Channel!Named(l, name, order'[l][j])
  <2>1. opened' = [list |-> search'.list, name |-> search'.name] /\ fd' = NULL
    <3> HIDE DEF l, name
    <3> QED BY <1>1, <1>8, <1>9
  <2>2. \E k \in After(l) :
          search'.at = Nth(l, k + 1) /\ \A j \in 1 .. k : ~Channel!Named(l, name, order[l][j])
    BY <1>6, <1>9
  <2>3. order' = order BY <1>1
  <2> QED BY <1>9, <2>1, <2>2, <2>3 DEF After, Nth
<1>12. SearchInv'
  <2>1. /\ fd' = fd /\ opened' = opened /\ reached' = reached /\ order' = order
    BY <1>1
  <2>2. fd = NULL BY <1>8
  <2>3. /\ opened # NULL => opened \in [list : Channel!Lists, name : Text]
        /\ reached # NULL /\ reached.driver # NULL =>
             \E m \in Channel!Lists :
               /\ \E k \in 1 .. Len(order[m]) : order[m][k] = reached.driver
               /\ reached.function \in Channel!Functions(m)
    BY DEF ChannelInv, SearchInv
  <2>4. search' # NULL =>
          /\ search' \in [list : Channel!Lists, name : Text, at : Channel!Nodes]
          /\ opened' = [list |-> search'.list, name |-> search'.name] /\ fd' = NULL
          /\ \E k \in After(search.list)' :
               /\ search'.at = Nth(search.list, k + 1)'
               /\ \A j \in 1 .. k :
                    ~Channel!Named(search'.list, search'.name, order'[search'.list][j])
    BY <1>9, <1>11
  <2> HIDE DEF l, name
  <2> QED BY <2>1, <2>2, <2>3, <2>4 DEF SearchInv
<1> QED BY <1>4, <1>12 DEF ChannelInv

LEMMA FoundInv == ASSUME ChannelInv, Channel!Found PROVE ChannelInv'
<1> DEFINE l == search.list
           name == search.name
<1>1. /\ search # NULL /\ search.at # l /\ Channel!Matches(l, name, search.at)
      /\ search' = NULL /\ fd' \in {search.at, NULL}
      /\ UNCHANGED <<following, previous, order, opened, errno, reached>>
  BY DEF Channel!Found, Channel!lists
<1>2. l \in Channel!Lists /\ name \in Text BY <1>1, SearchedDevice
<1>3. PICK i \in 1 .. Len(order[l]) : search.at = order[l][i] /\ search.at \in Channel!Devices
  BY <1>1, SearchedDevice
<1>4. Channel!Named(l, name, search.at) BY <1>1, <1>2, <1>3, MatchesNamed
<1>5. opened = [list |-> l, name |-> name] BY <1>1 DEF ChannelInv, SearchInv
<1>6. ListsInv' /\ ChannelTypes'
  BY <1>1, <1>3 DEF ChannelInv, ListsInv, Nth, After, ChannelTypes
<1>7. fd' # NULL => /\ opened \in [list : Channel!Lists, name : Text]
                    /\ \E j \in 1 .. Len(order[opened.list]) : order[opened.list][j] = fd'
                    /\ Channel!Named(opened.list, opened.name, fd')
  BY <1>1, <1>2, <1>3, <1>4, <1>5
<1>8. SearchInv'
  <2>1. /\ opened # NULL => opened \in [list : Channel!Lists, name : Text]
        /\ reached # NULL /\ reached.driver # NULL =>
             \E m \in Channel!Lists :
               /\ \E k \in 1 .. Len(order[m]) : order[m][k] = reached.driver
               /\ reached.function \in Channel!Functions(m)
    BY DEF ChannelInv, SearchInv
  <2> HIDE DEF l, name
  <2> QED BY <1>1, <1>7, <2>1 DEF SearchInv
<1> QED BY <1>6, <1>8 DEF ChannelInv

LEMMA NotFoundInv == ASSUME ChannelInv, Channel!NotFound PROVE ChannelInv'
<1>1. /\ search # NULL /\ search' = NULL /\ fd' = NULL
      /\ errno' \in {errno, "ENODEV"}
      /\ UNCHANGED <<following, previous, order, opened, reached>>
  BY DEF Channel!NotFound, Channel!lists
<1>2. ListsInv' /\ ChannelTypes' BY <1>1 DEF ChannelInv, ListsInv, Nth, After, ChannelTypes
<1>3. SearchInv' BY <1>1 DEF ChannelInv, SearchInv
<1> QED BY <1>2, <1>3 DEF ChannelInv

\* A function of the kind of device that was opened is called.
LEMMA CallInv ==
  ASSUME ChannelInv, NEW chain \in Channel!Lists, NEW function \in Channel!Functions(chain),
         Channel!Ready(chain), Channel!Reach(function), UNCHANGED <<following, previous, order,
         search, errno>>,
         UNCHANGED <<fd, opened>> \/ (fd' = NULL /\ opened' = NULL)
  PROVE  ChannelInv'
<1>1. /\ reached' = [driver |-> fd, function |-> function] /\ search = NULL
      /\ opened.list = chain
  BY DEF Channel!Reach, Channel!Ready
<1>2. ListsInv' BY DEF ChannelInv, ListsInv, Nth, After
<1>3. ChannelTypes'
  <2>1. reached'.driver = fd BY <1>1
  <2> QED BY <2>1 DEF ChannelInv, ChannelTypes
<1>4. fd # NULL => /\ opened \in [list : Channel!Lists, name : Text]
                   /\ \E i \in 1 .. Len(order[chain]) : order[chain][i] = fd
                   /\ Channel!Named(opened.list, opened.name, fd)
  BY <1>1 DEF ChannelInv, SearchInv
<1>5. opened # NULL => opened \in [list : Channel!Lists, name : Text]
  BY DEF ChannelInv, SearchInv
<1>6. reached'.driver = fd /\ reached'.function = function BY <1>1
<1>7. reached'.driver # NULL =>
        \E l \in Channel!Lists :
          /\ \E i \in 1 .. Len(order'[l]) : order'[l][i] = reached'.driver
          /\ reached'.function \in Channel!Functions(l)
  BY <1>4, <1>6
<1>8. search' = NULL BY <1>1
<1>9. fd' # NULL => /\ opened' \in [list : Channel!Lists, name : Text]
                    /\ \E i \in 1 .. Len(order'[opened'.list]) : order'[opened'.list][i] = fd'
                    /\ Channel!Named(opened'.list, opened'.name, fd')
  BY <1>1, <1>4
<1>10. opened' # NULL => opened' \in [list : Channel!Lists, name : Text] BY <1>5
<1>11. SearchInv' BY <1>7, <1>8, <1>9, <1>10 DEF SearchInv
<1> QED BY <1>2, <1>3, <1>11 DEF ChannelInv

LEMMA CloseNoneInv ==
  ASSUME ChannelInv, fd' = NULL, opened' = NULL, search = NULL,
         UNCHANGED <<following, previous, order, search, errno, reached>>
  PROVE  ChannelInv'
<1>1. ListsInv' BY DEF ChannelInv, ListsInv, Nth, After
<1>2. ChannelTypes' BY DEF ChannelInv, ChannelTypes
<1>3. SearchInv' BY DEF ChannelInv, SearchInv
<1> QED BY <1>1, <1>2, <1>3 DEF ChannelInv

LEMMA ChannelStep == ChannelInv /\ [Channel!Next]_channels => ChannelInv'
<1> SUFFICES ASSUME ChannelInv, [Channel!Next]_channels PROVE ChannelInv' OBVIOUS
<1> USE DEF Channel!lists
<1>1. CASE UNCHANGED channels
  BY <1>1 DEF channels, ChannelInv, ListsInv, SearchInv, ChannelTypes, Nth, After
<1>2. /\ Channel!alt_dma_txchan_list \in Channel!Lists /\ Channel!alt_dma_rxchan_list \in Channel!Lists
      /\ Channel!alt_flash_dev_list \in Channel!Lists /\ Channel!alt_fs_list \in Channel!Lists
  BY DEF Channel!Lists
<1>3. ASSUME NEW chain \in Channel!Lists, NEW d \in Channel!Devices, Channel!Register(chain, d)
      PROVE  ChannelInv'
  <2>1. errno' \in {"0", "EINVAL", "ENODEV"} BY <1>3 DEF Channel!Register, ChannelInv, ChannelTypes
  <2> QED BY <1>3, <2>1, RegisterInv DEF Channel!Register
<1>4. ASSUME NEW d \in Channel!Devices,
             \/ Channel!alt_dma_txchan_reg(d) \/ Channel!alt_dma_rxchan_reg(d)
             \/ Channel!alt_flash_device_register(d)
      PROVE  ChannelInv'
  BY <1>2, <1>3, <1>4 DEF Channel!alt_dma_txchan_reg, Channel!alt_dma_rxchan_reg,
    Channel!alt_flash_device_register
<1>5. ASSUME NEW d \in Channel!Devices, Channel!alt_fs_reg(d) PROVE ChannelInv'
  <2>1. errno' \in {"0", "EINVAL", "ENODEV"} BY <1>5 DEF Channel!alt_fs_reg, ChannelInv, ChannelTypes
  <2> QED BY <1>2, <1>5, <2>1, RegisterInv DEF Channel!alt_fs_reg
<1>6. ASSUME NEW chain \in Channel!Lists,
             NEW name \in IF chain = Channel!alt_fs_list THEN Files ELSE Wanted,
             Channel!Open(chain, name)
      PROVE  ChannelInv'
  <2>1. name \in Text BY ChannelsAssumption DEF Text
  <2> QED BY <1>6, <2>1, OpenInv
<1>7. CASE Channel!Advance BY <1>7, AdvanceInv
<1>8. CASE Channel!Found BY <1>8, FoundInv
<1>9. CASE Channel!NotFound BY <1>9, NotFoundInv
<1>10. /\ Channel!Functions(Channel!alt_dma_txchan_list) = Channel!alt_dma_txchan_dev
       /\ Channel!Functions(Channel!alt_dma_rxchan_list) = Channel!alt_dma_rxchan_dev
       /\ Channel!Functions(Channel!alt_flash_dev_list) = Channel!alt_flash_dev
  BY DEF Channel!Functions, Channel!alt_dma_txchan_list, Channel!alt_dma_rxchan_list,
    Channel!alt_flash_dev_list
<1>11. ASSUME NEW f \in Channel!alt_dma_txchan_dev, Channel!alt_dma_txchan_call(f)
       PROVE  ChannelInv'
  BY <1>2, <1>10, <1>11, CallInv DEF Channel!alt_dma_txchan_call, Channel!Unchanged
<1>12. ASSUME NEW f \in Channel!alt_dma_rxchan_dev, Channel!alt_dma_rxchan_call(f)
       PROVE  ChannelInv'
  BY <1>2, <1>10, <1>12, CallInv DEF Channel!alt_dma_rxchan_call, Channel!Unchanged
<1>13. ASSUME NEW f \in Channel!alt_flash_dev \ {"open", "close"}, Channel!alt_flash_call(f)
       PROVE  ChannelInv'
  BY <1>2, <1>10, <1>13, CallInv DEF Channel!alt_flash_call, Channel!Unchanged
<1>14. CASE Channel!alt_flash_close_dev
  <2>1. CASE fd = NULL
    BY <1>14, <2>1, CloseNoneInv DEF Channel!alt_flash_close_dev, Channel!Ready
  <2>2. CASE fd # NULL
    <3>1. "close" \in Channel!Functions(Channel!alt_flash_dev_list)
      BY <1>10 DEF Channel!alt_flash_dev
    <3> QED BY <1>2, <1>14, <2>2, <3>1, CallInv DEF Channel!alt_flash_close_dev
  <2> QED BY <2>1, <2>2
<1> QED BY <1>1, <1>4, <1>5, <1>6, <1>7, <1>8, <1>9, <1>11, <1>12, <1>13, <1>14
  DEF Channel!Next

\* Channels: each list of devices is a circle through all that were registered in it, both ways,
\* whatever the order of registrations; who opens a name reaches a device of that name, a file
\* the filesystem it belongs to, is told if there is none, and calls reach a driver that has the
\* function called.
THEOREM ChannelsFound == HalSpec => []ChannelsAreFound
<1>1. HalInit => ChannelInv BY ChannelInit DEF HalInit
<1>2. [HalNext]_halVars => [Channel!Next]_channels BY DEF HalNext, halVars, Only
<1>3. ChannelInv => ChannelsAreFound
  <2> SUFFICES ASSUME ChannelInv PROVE Channel!ListsAreCircles /\ Channel!ReachesTheNamed
    BY DEF ChannelsAreFound, Channel!ChannelsAreFound
  <2>1. ListsInv BY DEF ChannelInv
  <2>2. ASSUME NEW l \in Channel!Lists, NEW i \in 1 .. (Len(<<l>> \o order[l] \o <<l>>) - 1)
        PROVE  LET circle == <<l>> \o order[l] \o <<l>>
               IN  following[circle[i]] = circle[i + 1] /\ previous[circle[i + 1]] = circle[i]
    <3> DEFINE o == order[l]
               n == Len(o)
               circle == <<l>> \o o \o <<l>>
               at == i - 1
    <3>1. o \in Seq(Channel!Nodes) /\ n \in Nat /\ l \in Channel!Nodes
      BY <2>1, ListNodes DEF Channel!Nodes, ListsInv
    <3>2. <<l>> \in Seq(Channel!Nodes) /\ Len(<<l>>) = 1 /\ <<l>>[1] = l BY <3>1
    <3> HIDE DEF o
    <3>3. /\ Len(circle) = n + 2 /\ circle[1] = l /\ circle[n + 2] = l
          /\ \A k \in 2 .. (n + 1) : circle[k] = o[k - 1]
      BY <3>1, <3>2
    <3>4. i \in 1 .. (n + 1) BY <2>2, <3>1, <3>3 DEF o
    <3>5. \A k \in 1 .. (n + 2) : circle[k] = Nth(l, k - 1)
      <4>1. ASSUME NEW k \in 1 .. (n + 2) PROVE circle[k] = Nth(l, k - 1)
        <5> HIDE DEF circle
        <5>1. CASE k = 1 BY <3>1, <3>3, <5>1 DEF Nth, o
        <5>2. CASE k = n + 2
          <6>1. (n + 2) - 1 = n + 1 BY <3>1
          <6>2. Nth(l, n + 1) = l BY <2>1, ListNodes DEF o
          <6> QED BY <3>3, <5>2, <6>1, <6>2
        <5>3. CASE k \in 2 .. (n + 1)
          <6>1. k - 1 \in 1 .. n BY <3>1, <5>3
          <6> QED BY <3>3, <5>3, <6>1 DEF Nth, o
        <5> HIDE DEF n
        <5> QED BY <3>1, <4>1, <5>1, <5>2, <5>3
      <4> QED BY <4>1
    <3>6. /\ at \in After(l) /\ i \in 1 .. (n + 2) /\ i + 1 \in 1 .. (n + 2)
          /\ (i + 1) - 1 = at + 1
      BY <3>1, <3>4 DEF After, o
    <3>7. following[Nth(l, at)] = Nth(l, at + 1) /\ previous[Nth(l, at + 1)] = Nth(l, at)
      BY <2>1, <3>6 DEF ListsInv
    <3> HIDE DEF circle
    <3>8. circle[i] = Nth(l, at) /\ circle[i + 1] = Nth(l, at + 1) BY <3>5, <3>6
    <3>9. following[circle[i]] = circle[i + 1] /\ previous[circle[i + 1]] = circle[i]
      BY <3>7, <3>8
    <3> QED BY <3>9 DEF circle, o
  <2>3. Channel!ListsAreCircles BY <2>2 DEF Channel!ListsAreCircles
  <2>4. ASSUME NEW l \in Channel!Lists, NEW x
        PROVE  x \in Channel!ToSet(order[l]) <=> \E i \in 1 .. Len(order[l]) : order[l][i] = x
    <3>1. order[l] \in Seq(Channel!Devices) BY <2>1 DEF ListsInv
    <3> QED BY <3>1 DEF Channel!ToSet
  <2>5. fd # NULL => /\ fd \in Channel!ToSet(order[opened.list])
                     /\ Channel!Named(opened.list, opened.name, fd)
    <3> SUFFICES ASSUME fd # NULL
                 PROVE  /\ fd \in Channel!ToSet(order[opened.list])
                        /\ Channel!Named(opened.list, opened.name, fd)
      OBVIOUS
    <3>1. /\ opened \in [list : Channel!Lists, name : Text]
          /\ \E i \in 1 .. Len(order[opened.list]) : order[opened.list][i] = fd
          /\ Channel!Named(opened.list, opened.name, fd)
      BY DEF ChannelInv, SearchInv
    <3>2. opened.list \in Channel!Lists BY <3>1
    <3> QED BY <2>4, <3>1, <3>2
  <2>6. reached # NULL /\ reached.driver # NULL =>
          \E l \in Channel!Lists : /\ reached.driver \in Channel!ToSet(order[l])
                                   /\ reached.function \in Channel!Functions(l)
    BY <2>4 DEF ChannelInv, SearchInv
  <2>7. ASSUME search # NULL, search.at = search.list,
               NEW d \in Channel!ToSet(order[search.list])
        PROVE  ~Channel!Named(search.list, search.name, d)
    <3> DEFINE l == search.list
    <3>1. search \in [list : Channel!Lists, name : Text, at : Channel!Nodes]
      BY <2>7 DEF ChannelInv, SearchInv
    <3>2. PICK i \in After(l) :
            /\ l = Nth(l, i + 1)
            /\ \A j \in 1 .. i : ~Channel!Named(l, search.name, order[l][j])
      BY <2>7 DEF ChannelInv, SearchInv
    <3>3. l \in Channel!Lists BY <3>1
    <3>4. i = Len(order[l])
      <4>1. i \in 0 .. Len(order[l]) /\ Len(order[l]) \in Nat
        BY <2>1, <3>2, <3>3, ListNodes DEF After
      <4>2. i + 1 \notin 1 .. Len(order[l]) BY <2>1, <3>2, <3>3, ListNodes
      <4> HIDE DEF l
      <4> QED BY <4>1, <4>2
    <3>5. \E j \in 1 .. Len(order[l]) : order[l][j] = d BY <2>4, <2>7, <3>3
    <3> QED BY <3>2, <3>4, <3>5
  <2> QED BY <2>3, <2>5, <2>6, <2>7 DEF Channel!ReachesTheNamed
<1> QED BY <1>1, <1>2, <1>3, ChannelStep, PTL DEF HalSpec

-----------------------------------------------------------------------------
(* The start *)

Early == {"reset", "bss", "load", "tbss", "tdata", "alt_main"}
Late == {"uart", "clock", "redirect", "ctors", "main", "dtors", "_exit"}

\* Whether .data is as linked from here on: loaded by this start, or in place for the first.
Fresh == IF loads THEN bootPc \notin {"reset", "bss", "load"} ELSE starts = 1

StartTypes ==
  /\ layout \in Layouts /\ loads \in BOOLEAN /\ starts \in Nat /\ starts >= 1
  /\ DOMAIN mem = 0 .. (Start!end - 1)
  /\ bootPc \in Early \cup Late /\ vectors \in BOOLEAN /\ bootMIE \in BOOLEAN
  /\ bootMie \subseteq {"uart", "timer"} /\ uartIsr \in BOOLEAN /\ clock \in BOOLEAN
  /\ list \in [{Start!List, Start!Null, Start!UartDev} -> {Start!List, Start!Null, Start!UartDev}]
  /\ streams \in [0 .. 2 -> {Start!Null, Start!UartDev}]
  /\ ran \in Seq(Int)

\* Each step of crt0 makes one part of memory ready, and leaves those that are.
MemoryInv ==
  \A a \in 0 .. (Start!end - 1) :
    /\ a >= Start!bss_end => mem[a] = Start!Linked(a)
    /\ Fresh /\ bootPc \in Early
         /\ (a < Start!tbss_start \/ a \in Start!data_start .. (Start!rwdata_end - 1))
         => mem[a] = Start!Linked(a)
    /\ bootPc \in {"load", "tbss", "tdata", "alt_main"}
         /\ a \in Start!rwdata_end .. (Start!bss_end - 1) => mem[a] = Start!Zero
    /\ bootPc \in {"tdata", "alt_main"}
         /\ a \in Start!tbss_start .. (Start!tbss_end - 1) => mem[a] = Start!Zero
    /\ bootPc = "alt_main" /\ a \in Start!tdata_source .. (Start!data_start - 1)
         => mem[a] = mem[a - Start!tdata_source]

\* Interrupts are on from alt_main on, when the trap code is in place.
BootInv ==
  /\ vectors \/ (loads /\ bootPc \in {"reset", "bss", "load"})
  /\ bootMIE <=> bootPc \in Late
  /\ bootMIE /\ "uart" \in bootMie => uartIsr
  /\ bootPc \in Late \ {"uart", "clock"} => clock
  /\ bootPc \in Late \ {"uart", "clock", "redirect"} =>
       streams = [s \in 0 .. 2 |-> Start!UartDev]

\* The UART is put at the front of the list, the one left by the start before if it was not
\* loaded again, where the UART then follows itself.
ListInv ==
  /\ bootPc \in Late \ {"uart"} => list[Start!List] = Start!UartDev
  /\ Fresh /\ bootPc \in Early \cup {"uart"} => list = Start!LinkedList
  /\ Fresh /\ bootPc \in Late \ {"uart"} =>
       list[Start!UartDev] = Start!Null /\ list[Start!Null] = Start!List

RanInv ==
  /\ \A i \in 1 .. Len(ran) : ran[i] = IF i <= Nctors THEN i ELSE i - 2 * Nctors - 1
  /\ bootPc \in Early \cup {"uart", "clock", "redirect"} => ran = <<>>
  /\ bootPc = "ctors" => Len(ran) <= Nctors
  /\ bootPc = "main" => Len(ran) = Nctors
  /\ bootPc = "dtors" => Len(ran) \in Nctors .. (2 * Nctors)

StartInv == StartTypes /\ MemoryInv /\ BootInv /\ ListInv /\ RanInv

\* The sections follow one another.
LEMMA Sections ==
  ASSUME layout \in Layouts
  PROVE  /\ Start!tbss_start \in Nat /\ Start!tbss_end \in Nat /\ Start!data_start \in Nat
         /\ Start!rwdata_end \in Nat /\ Start!bss_end \in Nat /\ Start!end \in Nat
         /\ Start!tbss_start <= Start!tbss_end /\ Start!tdata_source = Start!tbss_end
         /\ Start!data_start = Start!tdata_source + Start!tbss_start
         /\ Start!data_start <= Start!rwdata_end /\ Start!rwdata_end < Start!bss_end
         /\ Start!bss_end <= Start!end
<1>1. /\ layout.tdata \in Nat /\ layout.tbss \in Nat /\ layout.data \in Nat
      /\ layout.bss \in Nat \ {0} /\ layout.part \in Nat
  BY StartAssumption
<1> QED
  BY <1>1 DEF Start!tbss_start, Start!tbss_end, Start!tdata_source, Start!data_start,
    Start!rwdata_end, Start!bss_end, Start!end

\* What a step that leaves the layout alone keeps of its addresses.
LEMMA SameSections ==
  ASSUME layout' = layout
  PROVE  /\ Start!tbss_start' = Start!tbss_start /\ Start!tbss_end' = Start!tbss_end
         /\ Start!tdata_source' = Start!tdata_source /\ Start!data_start' = Start!data_start
         /\ Start!rwdata_end' = Start!rwdata_end /\ Start!bss_end' = Start!bss_end
         /\ Start!end' = Start!end
         /\ \A a : Start!Linked(a)' = Start!Linked(a)
BY DEF Start!tbss_start, Start!tbss_end, Start!tdata_source, Start!data_start, Start!rwdata_end,
  Start!bss_end, Start!end, Start!Linked

LEMMA StartInit == Start!Init => StartInv
<1> SUFFICES ASSUME Start!Init PROVE StartInv OBVIOUS
<1>1. /\ layout \in Layouts /\ loads \in BOOLEAN /\ starts = 1 /\ bootPc = "reset"
      /\ vectors = ~loads /\ bootMIE = FALSE /\ bootMie = {} /\ uartIsr = FALSE /\ clock = FALSE
      /\ list = Start!LinkedList /\ streams = Start!LinkedStreams /\ ran = <<>>
      /\ mem = [a \in 0 .. (Start!end - 1) |->
                  IF loads /\ a < Start!rwdata_end THEN Start!Junk ELSE Start!Linked(a)]
  BY DEF Start!Init
<1>2. StartTypes
  BY <1>1 DEF StartTypes, Early, Start!LinkedList, Start!LinkedStreams
<1>3. MemoryInv
  <2>1. ASSUME NEW a \in 0 .. (Start!end - 1)
        PROVE  /\ a >= Start!bss_end => mem[a] = Start!Linked(a)
               /\ ~loads => mem[a] = Start!Linked(a)
    <3>1. mem[a] = IF loads /\ a < Start!rwdata_end THEN Start!Junk ELSE Start!Linked(a)
      BY <1>1
    <3>2. a >= Start!bss_end => ~(a < Start!rwdata_end) BY <1>1, Sections
    <3> QED BY <3>1, <3>2
  <2> QED BY <1>1, <2>1 DEF MemoryInv, Fresh
<1>4. BootInv BY <1>1 DEF BootInv, Late
<1>5. ListInv BY <1>1 DEF ListInv, Late
<1>6. RanInv BY <1>1 DEF RanInv
<1> QED BY <1>2, <1>3, <1>4, <1>5, <1>6 DEF StartInv

\* A step that writes no memory, and does not go on in crt0 behind ClearBss, keeps it ready.
LEMMA MemoryKept ==
  ASSUME StartInv, UNCHANGED <<layout, mem>>,
         \/ bootPc' \in Late
         \/ bootPc' \in {"reset", "bss"} /\ (Fresh' => Fresh /\ bootPc \in Early)
  PROVE  MemoryInv'
BY SameSections, Zenon DEF StartInv, MemoryInv, Early, Late

\* The steps that no interrupt, list or constructor is concerned in.
LEMMA CrtKept ==
  ASSUME StartInv, UNCHANGED <<layout, loads, starts, bootMIE, bootMie, ran>>,
         ~bootMIE, bootPc' \in Early, bootPc \in Early,
         vectors' \in BOOLEAN, uartIsr' \in BOOLEAN, clock' \in BOOLEAN,
         list' \in [{Start!List, Start!Null, Start!UartDev} ->
                     {Start!List, Start!Null, Start!UartDev}],
         streams' \in [0 .. 2 -> {Start!Null, Start!UartDev}],
         vectors' \/ (loads /\ bootPc' \in {"reset", "bss", "load"}),
         Fresh' => list' = Start!LinkedList,
         DOMAIN mem' = DOMAIN mem
  PROVE  StartTypes' /\ BootInv' /\ ListInv' /\ RanInv'
<1>1. bootPc' \notin Late BY DEF Early, Late
<1>2. StartTypes' BY SameSections DEF StartInv, StartTypes
<1>3. BootInv' BY <1>1 DEF BootInv
<1>4. ListInv' BY <1>1 DEF ListInv
<1>5. RanInv' BY DEF StartInv, RanInv, Early
<1> QED BY <1>2, <1>3, <1>4, <1>5

LEMMA StartStepInv == ASSUME StartInv, Start!Start PROVE StartInv'
<1>1. /\ bootPc = "reset" /\ bootPc' = "bss" /\ bootMIE' = FALSE /\ bootMie' = {}
      /\ UNCHANGED <<layout, loads, starts, mem, vectors, uartIsr, clock, list, streams, ran>>
  BY DEF Start!Start, Start!Go, Start!boot, Start!memory, Start!devices
<1>2. Fresh' <=> Fresh BY <1>1 DEF Fresh
<1>3. MemoryInv' BY <1>1, <1>2, MemoryKept DEF Early
<1>4. StartTypes' BY <1>1, SameSections DEF StartInv, StartTypes, Early
<1>5. BootInv' BY <1>1 DEF StartInv, BootInv, Late
<1>6. ListInv' BY <1>1, <1>2 DEF StartInv, ListInv, Early, Late
<1>7. RanInv' BY <1>1 DEF StartInv, RanInv, Early
<1> QED BY <1>3, <1>4, <1>5, <1>6, <1>7 DEF StartInv

LEMMA ResetInv == ASSUME StartInv, Start!Reset PROVE StartInv'
<1>1. /\ starts' = starts + 1 /\ bootPc' = "reset" /\ bootMIE' = FALSE /\ bootMie' \in {bootMie, {}}
      /\ ran' = <<>> /\ UNCHANGED <<layout, loads, mem, vectors, uartIsr, clock, list, streams>>
  BY DEF Start!Reset, Start!memory, Start!devices
<1>2. ~Fresh' BY <1>1 DEF StartInv, StartTypes, Fresh
<1>3. MemoryInv' BY <1>1, <1>2, MemoryKept
<1>4. StartTypes'
  <2>1. ran' \in Seq(Int) /\ bootPc' \in Early \cup Late BY <1>1 DEF Early
  <2>2. starts' \in Nat /\ starts' >= 1 /\ bootMie' \subseteq {"uart", "timer"}
    BY <1>1 DEF StartInv, StartTypes
  <2> QED BY <1>1, <2>1, <2>2, SameSections DEF StartInv, StartTypes
<1>5. BootInv'
  <2>1. vectors \/ loads BY DEF StartInv, BootInv
  <2> QED BY <1>1, <2>1 DEF BootInv, Late
<1>6. ListInv' BY <1>1, <1>2 DEF ListInv, Late
<1>7. RanInv' BY <1>1 DEF RanInv
<1> QED BY <1>3, <1>4, <1>5, <1>6, <1>7 DEF StartInv

\* What the steps of crt0 find.
LEMMA CrtState ==
  ASSUME StartInv, bootPc \in Early \ {"reset"}
  PROVE  /\ ~bootMIE /\ bootPc \in Early /\ DOMAIN mem = 0 .. (Start!end - 1)
         /\ layout \in Layouts /\ (Fresh => list = Start!LinkedList)
         /\ vectors \in BOOLEAN /\ uartIsr \in BOOLEAN /\ clock \in BOOLEAN /\ loads \in BOOLEAN
         /\ list \in [{Start!List, Start!Null, Start!UartDev} ->
                      {Start!List, Start!Null, Start!UartDev}]
         /\ streams \in [0 .. 2 -> {Start!Null, Start!UartDev}]
         /\ vectors \/ (loads /\ bootPc \in {"reset", "bss", "load"})
  BY DEF StartInv, StartTypes, BootInv, ListInv, Early, Late

LEMMA ClearBssInv == ASSUME StartInv, Start!ClearBss PROVE StartInv'
<1>1. /\ bootPc = "bss" /\ bootPc' = "load" /\ uartIsr' = FALSE /\ clock' = FALSE
      /\ UNCHANGED <<layout, loads, starts, vectors, bootMIE, bootMie, list, streams, ran>>
      /\ mem' = [a \in DOMAIN mem |->
                   IF a = Start!rwdata_end \/ a \in Start!rwdata_end .. (Start!bss_end - 1)
                   THEN Start!Zero ELSE mem[a]]
  BY DEF Start!ClearBss, Start!Go, Start!boot, Start!devices
<1>2. Fresh' <=> Fresh BY <1>1 DEF Fresh
<1>3. StartTypes' /\ BootInv' /\ ListInv' /\ RanInv'
  BY <1>1, <1>2, CrtState, CrtKept DEF Early
<1>4. MemoryInv'
  <2>1. ASSUME NEW a \in 0 .. (Start!end - 1)
        PROVE  /\ a \in Start!rwdata_end .. (Start!bss_end - 1) => mem'[a] = Start!Zero
               /\ a >= Start!bss_end \/ a < Start!rwdata_end => mem'[a] = mem[a]
               /\ a >= Start!bss_end => mem[a] = Start!Linked(a)
               /\ Fresh /\ (a < Start!tbss_start \/ a \in Start!data_start .. (Start!rwdata_end - 1))
                    => mem[a] = Start!Linked(a)
    <3>1. /\ a \in DOMAIN mem BY CrtState, <1>1 DEF Early
    <3>2. Start!rwdata_end \in Nat /\ Start!bss_end \in Nat /\ Start!rwdata_end < Start!bss_end
      BY <1>1, CrtState, Sections DEF Early
    <3>3. a >= Start!bss_end \/ a < Start!rwdata_end =>
            ~(a = Start!rwdata_end \/ a \in Start!rwdata_end .. (Start!bss_end - 1))
      BY <3>2
    <3> QED BY <1>1, <3>1, <3>3, Zenon DEF StartInv, MemoryInv, Early
  <2>2. /\ Start!tbss_start <= Start!rwdata_end /\ Start!tbss_start \in Nat
        /\ Start!rwdata_end \in Nat
    BY <1>1, CrtState, Sections DEF Early
  <2>3. ASSUME NEW a \in 0 .. (Start!end - 1),
               a < Start!tbss_start \/ a \in Start!data_start .. (Start!rwdata_end - 1)
        PROVE  a < Start!rwdata_end
    <3>1. Start!end \in Nat /\ Start!data_start \in Nat BY <1>1, CrtState, Sections DEF Early
    <3> QED BY <2>2, <2>3, <3>1
  <2> QED BY <1>1, <1>2, <2>1, <2>3, SameSections, Zenon DEF MemoryInv
<1> QED BY <1>3, <1>4 DEF StartInv

LEMMA LoadSectionsInv == ASSUME StartInv, Start!Load PROVE StartInv'
<1>1. /\ bootPc = "load" /\ bootPc' = "tbss"
      /\ UNCHANGED <<layout, loads, starts, bootMIE, bootMie, uartIsr, clock, ran>>
  <2>1. Start!Go("load", "tbss") /\ UNCHANGED <<Start!boot, Start!interrupts, ran>>
    BY DEF Start!Load
  <2> QED BY <2>1 DEF Start!Go, Start!boot, Start!interrupts
<1>2. /\ ~bootMIE /\ bootPc \in Early /\ layout \in Layouts /\ bootPc' \in Early
      /\ DOMAIN mem = 0 .. (Start!end - 1)
  BY <1>1, CrtState DEF Early
<1>3. CASE loads
  <2>1. /\ vectors' = TRUE /\ list' = Start!LinkedList /\ streams' = Start!LinkedStreams
        /\ mem' = [a \in DOMAIN mem |-> IF a < Start!rwdata_end THEN Start!Linked(a) ELSE mem[a]]
    BY <1>3 DEF Start!Load
  <2>2. /\ list' \in [{Start!List, Start!Null, Start!UartDev} ->
                     {Start!List, Start!Null, Start!UartDev}]
        /\ streams' \in [0 .. 2 -> {Start!Null, Start!UartDev}]
    BY <2>1 DEF Start!LinkedList, Start!LinkedStreams
  <2>3. StartTypes' /\ BootInv' /\ ListInv' /\ RanInv'
    BY <1>1, <1>2, <2>1, <2>2, CrtState, CrtKept DEF Early
  <2>4. ASSUME NEW a \in 0 .. (Start!end - 1)
        PROVE  /\ a < Start!rwdata_end => mem'[a] = Start!Linked(a)
               /\ a >= Start!bss_end => mem'[a] = Start!Linked(a)
               /\ a \in Start!rwdata_end .. (Start!bss_end - 1) => mem'[a] = Start!Zero
    <3>1. /\ Start!rwdata_end \in Nat /\ Start!bss_end \in Nat
          /\ Start!rwdata_end < Start!bss_end /\ Start!end \in Nat
      BY <1>2, Sections
    <3>2. a >= Start!bss_end \/ a \in Start!rwdata_end .. (Start!bss_end - 1) =>
            ~(a < Start!rwdata_end)
      BY <3>1
    <3>3. /\ a >= Start!bss_end => mem[a] = Start!Linked(a)
          /\ a \in Start!rwdata_end .. (Start!bss_end - 1) => mem[a] = Start!Zero
      BY <1>1, Zenon DEF StartInv, MemoryInv
    <3> QED BY <1>2, <2>1, <3>2, <3>3
  <2>5. ASSUME NEW a \in 0 .. (Start!end - 1),
               a < Start!tbss_start \/ a \in Start!data_start .. (Start!rwdata_end - 1)
        PROVE  a < Start!rwdata_end
    BY <1>2, <2>5, Sections
  <2>6. MemoryInv' BY <1>1, <2>4, <2>5, SameSections, Zenon DEF MemoryInv
  <2> QED BY <2>3, <2>6 DEF StartInv
<1>4. CASE ~loads
  <2>1. UNCHANGED <<mem, vectors, list, streams>>
    BY <1>4 DEF Start!Load, Start!memory, Start!devices
  <2>2. Fresh' <=> Fresh BY <1>1, <1>4 DEF Fresh
  <2>3. StartTypes' /\ BootInv' /\ ListInv' /\ RanInv'
    BY <1>1, <1>2, <1>4, <2>1, <2>2, CrtState, CrtKept DEF Early
  <2>4. MemoryInv'
    BY <1>1, <2>1, <2>2, SameSections, Zenon DEF StartInv, MemoryInv, Early
  <2> QED BY <2>3, <2>4 DEF StartInv
<1> QED BY <1>3, <1>4

LEMMA ClearTbssInv == ASSUME StartInv, Start!ClearTbss PROVE StartInv'
<1>1. /\ bootPc = "tbss" /\ bootPc' = "tdata"
      /\ UNCHANGED <<layout, loads, starts, vectors, bootMIE, bootMie, uartIsr, clock, list,
                     streams, ran>>
      /\ mem' = [a \in DOMAIN mem |->
                   IF a \in Start!tbss_start .. (Start!tbss_end - 1) THEN Start!Zero ELSE mem[a]]
  BY DEF Start!ClearTbss, Start!Go, Start!boot, Start!interrupts, Start!devices
<1>2. /\ ~bootMIE /\ bootPc \in Early /\ layout \in Layouts /\ bootPc' \in Early
      /\ DOMAIN mem = 0 .. (Start!end - 1) /\ (Fresh' <=> Fresh)
  BY <1>1, CrtState DEF Early, Fresh
<1>3. StartTypes' /\ BootInv' /\ ListInv' /\ RanInv'
  BY <1>1, <1>2, CrtState, CrtKept DEF Early
<1>4. ASSUME NEW a \in 0 .. (Start!end - 1),
             \/ a >= Start!bss_end \/ a < Start!tbss_start
             \/ a \in Start!data_start .. (Start!rwdata_end - 1)
             \/ a \in Start!rwdata_end .. (Start!bss_end - 1)
      PROVE  mem'[a] = mem[a]
  <2>1. a \notin Start!tbss_start .. (Start!tbss_end - 1) BY <1>2, <1>4, Sections
  <2> QED BY <1>1, <1>2, <2>1
<1>5. ASSUME NEW a \in 0 .. (Start!end - 1), a \in Start!tbss_start .. (Start!tbss_end - 1)
      PROVE  mem'[a] = Start!Zero
  BY <1>1, <1>2, <1>5
<1>6. \A a \in 0 .. (Start!end - 1) :
        /\ a >= Start!bss_end => mem[a] = Start!Linked(a)
        /\ Fresh /\ (a < Start!tbss_start \/ a \in Start!data_start .. (Start!rwdata_end - 1))
             => mem[a] = Start!Linked(a)
        /\ a \in Start!rwdata_end .. (Start!bss_end - 1) => mem[a] = Start!Zero
  BY <1>1, Zenon DEF StartInv, MemoryInv, Early
<1>7. MemoryInv' BY <1>1, <1>2, <1>4, <1>5, <1>6, SameSections, Zenon DEF MemoryInv
<1> QED BY <1>3, <1>7 DEF StartInv

LEMMA CopyTdataInv == ASSUME StartInv, Start!CopyTdata PROVE StartInv'
<1>1. /\ bootPc = "tdata" /\ bootPc' = "alt_main"
      /\ UNCHANGED <<layout, loads, starts, vectors, bootMIE, bootMie, uartIsr, clock, list,
                     streams, ran>>
      /\ mem' = [a \in DOMAIN mem |->
                   IF a \in Start!tdata_source .. (Start!data_start - 1)
                   THEN mem[a - Start!tdata_source] ELSE mem[a]]
  BY DEF Start!CopyTdata, Start!Go, Start!boot, Start!interrupts, Start!devices
<1>2. /\ ~bootMIE /\ bootPc \in Early /\ layout \in Layouts /\ bootPc' \in Early
      /\ DOMAIN mem = 0 .. (Start!end - 1) /\ (Fresh' <=> Fresh)
  BY <1>1, CrtState DEF Early, Fresh
<1>3. StartTypes' /\ BootInv' /\ ListInv' /\ RanInv'
  BY <1>1, <1>2, CrtState, CrtKept DEF Early
<1>4. ASSUME NEW a \in 0 .. (Start!end - 1),
             \/ a >= Start!bss_end \/ a < Start!tbss_start
             \/ a \in Start!data_start .. (Start!rwdata_end - 1)
             \/ a \in Start!rwdata_end .. (Start!bss_end - 1)
             \/ a \in Start!tbss_start .. (Start!tbss_end - 1)
      PROVE  mem'[a] = mem[a]
  <2>1. a \notin Start!tdata_source .. (Start!data_start - 1) BY <1>2, <1>4, Sections
  <2> QED BY <1>1, <1>2, <2>1
<1>5. ASSUME NEW a \in 0 .. (Start!end - 1), a \in Start!tdata_source .. (Start!data_start - 1)
      PROVE  mem'[a] = mem'[a - Start!tdata_source]
  <2>1. /\ a - Start!tdata_source \in 0 .. (Start!end - 1)
        /\ a - Start!tdata_source < Start!tbss_start
    BY <1>2, <1>5, Sections
  <2>2. mem'[a - Start!tdata_source] = mem[a - Start!tdata_source] BY <1>4, <2>1
  <2> QED BY <1>1, <1>2, <1>5, <2>2
<1>6. \A a \in 0 .. (Start!end - 1) :
        /\ a >= Start!bss_end => mem[a] = Start!Linked(a)
        /\ Fresh /\ (a < Start!tbss_start \/ a \in Start!data_start .. (Start!rwdata_end - 1))
             => mem[a] = Start!Linked(a)
        /\ a \in Start!rwdata_end .. (Start!bss_end - 1) => mem[a] = Start!Zero
        /\ a \in Start!tbss_start .. (Start!tbss_end - 1) => mem[a] = Start!Zero
  BY <1>1, Zenon DEF StartInv, MemoryInv, Early
<1>7. MemoryInv' BY <1>1, <1>2, <1>4, <1>5, <1>6, SameSections, Zenon DEF MemoryInv
<1> QED BY <1>3, <1>7 DEF StartInv

\* What stays from step to step behind crt0.
LEMMA LateKept ==
  ASSUME StartInv, bootPc \in Late \cup {"alt_main"}, bootPc' \in Late,
         UNCHANGED <<layout, loads, starts, vectors>>, DOMAIN mem' = DOMAIN mem,
         UNCHANGED mem \/ MemoryInv',
         bootMIE' = TRUE, bootMie' \subseteq {"uart", "timer"}, "uart" \in bootMie' => uartIsr',
         uartIsr' \in BOOLEAN, clock' \in BOOLEAN, bootPc' \notin {"uart", "clock"} => clock',
         bootPc' \notin {"uart", "clock", "redirect"} =>
           streams' = [s \in 0 .. 2 |-> Start!UartDev],
         streams' \in [0 .. 2 -> {Start!Null, Start!UartDev}],
         list' \in [{Start!List, Start!Null, Start!UartDev} ->
                     {Start!List, Start!Null, Start!UartDev}],
         ListInv', ran' \in Seq(Int), RanInv'
  PROVE  StartInv'
<1>1. StartTypes'
  <2>1. bootPc' \in Early \cup Late OBVIOUS
  <2> QED BY <2>1, SameSections DEF StartInv, StartTypes
<1>2. MemoryInv' BY MemoryKept
<1>3. BootInv'
  <2>1. vectors BY DEF StartInv, BootInv, Late
  <2> QED BY <2>1 DEF BootInv
<1> QED BY <1>1, <1>2, <1>3 DEF StartInv

\* What the steps behind crt0 find.
LEMMA LateState ==
  ASSUME StartInv, bootPc \in Late \cup {"alt_main"}
  PROVE  /\ bootMie \subseteq {"uart", "timer"} /\ uartIsr \in BOOLEAN /\ clock \in BOOLEAN
         /\ (bootPc # "alt_main" => bootMIE = TRUE /\ ("uart" \in bootMie => uartIsr))
         /\ bootPc \notin {"alt_main", "uart", "clock"} => clock = TRUE
         /\ bootPc \notin {"alt_main", "uart", "clock", "redirect"} =>
              streams = [s \in 0 .. 2 |-> Start!UartDev]
         /\ streams \in [0 .. 2 -> {Start!Null, Start!UartDev}]
         /\ list \in [{Start!List, Start!Null, Start!UartDev} ->
                      {Start!List, Start!Null, Start!UartDev}]
         /\ ran \in Seq(Int) /\ bootPc # "reset" /\ bootPc # "bss" /\ bootPc # "load"
BY DEF StartInv, StartTypes, BootInv, Late

\* alt_main: the interrupts, the drivers and the standard streams.
LEMMA AltMainInv ==
  ASSUME StartInv, \/ Start!IrqInit \/ Start!UartInit \/ Start!ClockInit \/ Start!Redirect
  PROVE  StartInv'
<1> USE DEF Start!Go, Start!boot, Start!memory, Start!interrupts, Start!devices
<1>1. /\ bootPc \in {"alt_main", "uart", "clock", "redirect"}
      /\ bootPc' \in {"uart", "clock", "redirect", "ctors"}
      /\ UNCHANGED <<layout, loads, starts, vectors, mem, ran>>
  BY DEF Start!IrqInit, Start!UartInit, Start!ClockInit, Start!Redirect
<1>2. bootPc \in Late \cup {"alt_main"} /\ bootPc' \in Late BY <1>1 DEF Late
<1>3. Fresh' <=> Fresh BY <1>1 DEF Fresh
<1>4. RanInv' /\ ran' \in Seq(Int)
  <2>1. ran = <<>> BY <1>1 DEF StartInv, RanInv, Early
  <2>2. Len(ran) <= Nctors BY <2>1, StartAssumption
  <2> QED BY <1>1, <2>1, <2>2 DEF StartInv, RanInv
<1>5. CASE Start!IrqInit
  <2>1. /\ bootPc = "alt_main" /\ bootPc' = "uart" /\ bootMie' = {} /\ bootMIE' = TRUE
        /\ UNCHANGED <<uartIsr, clock, list, streams>>
    BY <1>5 DEF Start!IrqInit
  <2>2. ListInv' BY <1>3, <2>1 DEF StartInv, ListInv, Early
  <2> QED BY <1>1, <1>2, <1>4, <2>1, <2>2, LateState, LateKept
<1>6. CASE Start!UartInit
  <2>1. /\ bootPc = "uart" /\ bootPc' = "clock" /\ bootMie' = bootMie \cup {"uart"}
        /\ uartIsr' = TRUE /\ UNCHANGED <<bootMIE, clock, streams>>
        /\ list' = [[list EXCEPT ![Start!UartDev] = list[Start!List]]
                      EXCEPT ![Start!List] = Start!UartDev]
    BY <1>6 DEF Start!UartInit
  <2>2. list \in [{Start!List, Start!Null, Start!UartDev} ->
                  {Start!List, Start!Null, Start!UartDev}]
    BY <1>2, LateState
  <2>3. /\ Start!List # Start!UartDev /\ Start!List # Start!Null /\ Start!Null # Start!UartDev
    BY DEF Start!List, Start!UartDev, Start!Null
  <2>4. /\ list'[Start!List] = Start!UartDev /\ list'[Start!UartDev] = list[Start!List]
        /\ list'[Start!Null] = list[Start!Null]
        /\ list' \in [{Start!List, Start!Null, Start!UartDev} ->
                       {Start!List, Start!Null, Start!UartDev}]
    BY <2>1, <2>2, <2>3
  <2>5. Fresh => list[Start!List] = Start!Null /\ list[Start!Null] = Start!List
    BY <2>1, <2>3 DEF StartInv, ListInv, Start!LinkedList
  <2>6. ListInv'
    BY <1>3, <2>1, <2>4, <2>5 DEF ListInv, Early
  <2> QED BY <1>1, <1>2, <1>4, <2>1, <2>4, <2>6, LateState, LateKept
<1>7. CASE Start!ClockInit
  <2>1. /\ bootPc = "clock" /\ bootPc' = "redirect" /\ bootMie' = bootMie \cup {"timer"}
        /\ clock' = TRUE /\ UNCHANGED <<bootMIE, uartIsr, list, streams>>
    BY <1>7 DEF Start!ClockInit
  <2>2. ListInv' BY <1>3, <2>1 DEF StartInv, ListInv, Early, Late
  <2> QED BY <1>1, <1>2, <1>4, <2>1, <2>2, LateState, LateKept
<1>8. CASE Start!Redirect
  <2>1. /\ bootPc = "redirect" /\ bootPc' = "ctors" /\ streams' = [s \in 0 .. 2 |-> Start!UartDev]
        /\ UNCHANGED <<bootMIE, bootMie, uartIsr, clock, list>>
    BY <1>8 DEF Start!Redirect
  <2>2. ListInv' BY <1>3, <2>1 DEF StartInv, ListInv, Early, Late
  <2>3. streams' \in [0 .. 2 -> {Start!Null, Start!UartDev}] BY <2>1
  <2> QED BY <1>1, <1>2, <1>4, <2>1, <2>2, <2>3, LateState, LateKept
<1> QED BY <1>5, <1>6, <1>7, <1>8

\* Of a step of C++ or the program, only what it does with its constructors matters.
LEMMA ProgramKept ==
  ASSUME StartInv, bootPc \in {"ctors", "main", "dtors"},
         bootPc' \in {"ctors", "main", "dtors", "_exit"},
         UNCHANGED <<layout, loads, starts, vectors>>, DOMAIN mem' = DOMAIN mem,
         UNCHANGED mem \/ MemoryInv',
         UNCHANGED <<bootMIE, bootMie, uartIsr, clock, list, streams>>,
         ran' \in Seq(Int), RanInv'
  PROVE  StartInv'
<1>1. bootPc \in Late \cup {"alt_main"} /\ bootPc' \in Late BY DEF Late
<1>2. Fresh' <=> Fresh BY DEF Fresh
<1>3. ListInv' BY <1>2 DEF StartInv, ListInv, Early, Late
<1> QED BY <1>1, <1>3, LateState, LateKept

\* _do_ctors and _do_dtors.
LEMMA CxxInv ==
  ASSUME StartInv, Start!Ctor \/ Start!CallMain \/ Start!Dtor \/ Start!Stop
  PROVE  StartInv'
<1> USE DEF Start!Go, Start!boot, Start!memory, Start!interrupts, Start!devices
<1>1. /\ bootPc \in {"ctors", "main", "dtors"} /\ bootPc' \in {"ctors", "main", "dtors", "_exit"}
      /\ UNCHANGED <<layout, loads, starts, vectors, mem>>
      /\ UNCHANGED <<bootMIE, bootMie, uartIsr, clock, list, streams>>
  BY DEF Start!Ctor, Start!CallMain, Start!Dtor, Start!Stop
<1>2. /\ ran \in Seq(Int) /\ Len(ran) \in Nat /\ Nctors \in Nat
      /\ \A i \in 1 .. Len(ran) : ran[i] = IF i <= Nctors THEN i ELSE i - 2 * Nctors - 1
  BY StartAssumption DEF StartInv, StartTypes, RanInv
<1>3. ran' \in Seq(Int) /\ RanInv'
  <2> DEFINE n == Len(ran)
  <2>1. ASSUME NEW x \in Int, ran' = Append(ran, x), x = IF n + 1 <= Nctors THEN n + 1
                                                                          ELSE n - 2 * Nctors
        PROVE  /\ ran' \in Seq(Int) /\ Len(ran') = n + 1
               /\ \A i \in 1 .. Len(ran') : ran'[i] = IF i <= Nctors THEN i ELSE i - 2 * Nctors - 1
    <3>1. /\ ran' \in Seq(Int) /\ Len(ran') = n + 1 /\ ran'[n + 1] = x
          /\ \A i \in 1 .. n : ran'[i] = ran[i]
      BY <1>2, <2>1
    <3>2. \A i \in 1 .. n : ran'[i] = IF i <= Nctors THEN i ELSE i - 2 * Nctors - 1
      BY <1>2, <3>1
    <3> HIDE DEF n
    <3>3. n \in Nat BY <1>2 DEF n
    <3>4. (n + 1) - 2 * Nctors - 1 = n - 2 * Nctors BY <1>2, <3>3
    <3>5. ASSUME NEW i \in 1 .. (n + 1)
          PROVE  ran'[i] = IF i <= Nctors THEN i ELSE i - 2 * Nctors - 1
      <4>1. i \in 1 .. n \/ i = n + 1 BY <3>3
      <4> QED BY <2>1, <3>1, <3>2, <3>4, <4>1
    <3> QED BY <3>1, <3>5
  <2>2. CASE Start!Ctor
    <3>1. bootPc' = "ctors" /\ n < Nctors /\ ran' = Append(ran, n + 1) BY <2>2 DEF Start!Ctor
    <3>2. n + 1 \in Int /\ n + 1 <= Nctors BY <1>2, <3>1
    <3>3. /\ ran' \in Seq(Int) /\ Len(ran') = n + 1
          /\ \A i \in 1 .. Len(ran') : ran'[i] = IF i <= Nctors THEN i ELSE i - 2 * Nctors - 1
      BY <2>1, <3>1, <3>2
    <3> QED BY <3>1, <3>2, <3>3 DEF RanInv, Early
  <2>3. CASE Start!Dtor
    <3>1. /\ bootPc = "dtors" /\ bootPc' = "dtors" /\ n < 2 * Nctors
          /\ ran' = Append(ran, n - 2 * Nctors)
      BY <2>3 DEF Start!Dtor
    <3>2. n \in Nctors .. (2 * Nctors) BY <3>1 DEF StartInv, RanInv
    <3>3. /\ n - 2 * Nctors \in Int /\ ~(n + 1 <= Nctors)
          /\ n + 1 \in Nctors .. (2 * Nctors)
      BY <1>2, <3>1, <3>2
    <3>4. /\ ran' \in Seq(Int) /\ Len(ran') = n + 1
          /\ \A i \in 1 .. Len(ran') : ran'[i] = IF i <= Nctors THEN i ELSE i - 2 * Nctors - 1
      BY <2>1, <3>1, <3>3
    <3> QED BY <3>1, <3>3, <3>4 DEF RanInv, Early
  <2>4. CASE Start!CallMain
    <3>1. ran' = ran /\ bootPc' = "main" /\ n = Nctors BY <2>4 DEF Start!CallMain
    <3> QED BY <1>2, <3>1 DEF RanInv, Early
  <2>5. CASE Start!Stop
    <3>1. ran' = ran /\ bootPc' = "_exit" BY <2>5 DEF Start!Stop
    <3> QED BY <1>2, <3>1 DEF RanInv, Early
  <2> QED BY <2>2, <2>3, <2>4, <2>5
<1> QED BY <1>1, <1>3, ProgramKept

LEMMA ProgramInv ==
  ASSUME StartInv,
         \/ Start!Write \/ Start!Exit
         \/ \E pid \in 0 .. 1, sig \in Start!Signals : Start!Kill(pid, sig)
  PROVE  StartInv'
<1> USE DEF Start!Go, Start!boot, Start!memory, Start!interrupts, Start!devices
<1>1. /\ bootPc = "main" /\ bootPc' \in {"main", "dtors", "_exit"}
      /\ UNCHANGED <<layout, loads, starts, vectors, ran>>
      /\ UNCHANGED <<bootMIE, bootMie, uartIsr, clock, list, streams>>
  BY DEF Start!Write, Start!Exit, Start!Kill
<1>2. ran' \in Seq(Int) /\ RanInv'
  <2>1. /\ ran \in Seq(Int) /\ Len(ran) = Nctors /\ Nctors \in Nctors .. (2 * Nctors)
        /\ \A i \in 1 .. Len(ran) : ran[i] = IF i <= Nctors THEN i ELSE i - 2 * Nctors - 1
    BY <1>1, StartAssumption DEF StartInv, StartTypes, RanInv
  <2> QED BY <1>1, <2>1 DEF RanInv, Early
<1>3. DOMAIN mem' = DOMAIN mem /\ (UNCHANGED mem \/ MemoryInv')
  <2>1. CASE Start!Write
    <3>1. /\ bootPc' = "main"
          /\ mem' = [a \in DOMAIN mem |->
                       IF a < Start!tbss_end \/ a \in Start!data_start .. (Start!bss_end - 1)
                       THEN Start!Junk ELSE mem[a]]
      BY <2>1 DEF Start!Write
    <3>2. layout \in Layouts /\ DOMAIN mem = 0 .. (Start!end - 1) BY DEF StartInv, StartTypes
    <3>3. ASSUME NEW a \in 0 .. (Start!end - 1), a >= Start!bss_end
          PROVE  mem'[a] = Start!Linked(a)
      <4>1. ~(a < Start!tbss_end \/ a \in Start!data_start .. (Start!bss_end - 1))
        BY <3>2, <3>3, Sections
      <4>2. mem[a] = Start!Linked(a) BY <3>3 DEF StartInv, MemoryInv
      <4> QED BY <3>1, <3>2, <4>1, <4>2
    <3>4. MemoryInv' BY <1>1, <3>1, <3>3, SameSections, Zenon DEF MemoryInv, Early
    <3> QED BY <3>1, <3>4
  <2>2. CASE ~Start!Write BY <2>2 DEF Start!Exit, Start!Kill
  <2> QED BY <2>1, <2>2
<1> QED BY <1>1, <1>2, <1>3, ProgramKept

LEMMA BootStep == StartInv /\ [Start!Next]_start => StartInv'
<1> SUFFICES ASSUME StartInv, [Start!Next]_start PROVE StartInv' OBVIOUS
<1>1. CASE UNCHANGED start
  <2>1. UNCHANGED <<layout, loads, mem, vectors, bootPc, bootMIE, bootMie, uartIsr, clock, list,
                    streams, ran, starts>>
    BY <1>1 DEF start
  <2>2. Fresh' <=> Fresh BY <2>1 DEF Fresh
  <2>3. StartTypes' BY <2>1, SameSections DEF StartInv, StartTypes
  <2>4. MemoryInv' BY <2>1, <2>2, SameSections, Zenon DEF StartInv, MemoryInv
  <2>5. BootInv' /\ ListInv' /\ RanInv' BY <2>1, <2>2 DEF StartInv, BootInv, ListInv, RanInv
  <2> QED BY <2>3, <2>4, <2>5 DEF StartInv
<1>2. CASE Start!Reset BY <1>2, ResetInv
<1>3. CASE Start!Start BY <1>3, StartStepInv
<1>4. CASE Start!ClearBss BY <1>4, ClearBssInv
<1>5. CASE Start!Load BY <1>5, LoadSectionsInv
<1>6. CASE Start!ClearTbss BY <1>6, ClearTbssInv
<1>7. CASE Start!CopyTdata BY <1>7, CopyTdataInv
<1>8. CASE Start!IrqInit \/ Start!UartInit \/ Start!ClockInit \/ Start!Redirect
  BY <1>8, AltMainInv
<1>9. CASE Start!Ctor \/ Start!CallMain \/ Start!Dtor \/ Start!Stop BY <1>9, CxxInv
<1>10. CASE \/ Start!Write \/ Start!Exit
            \/ \E pid \in 0 .. 1, sig \in Start!Signals : Start!Kill(pid, sig)
  BY <1>10, ProgramInv
<1> QED BY <1>1, <1>2, <1>3, <1>4, <1>5, <1>6, <1>7, <1>8, <1>9, <1>10 DEF Start!Next

\* What a search of the device list meets.
LEMMA AfterDef ==
  Start!After = [k \in 0 .. 3 |-> IF k = 0 THEN Start!List ELSE list[Start!After[k - 1]]]
<1> DEFINE first == list[Start!List]
           second == list[first]
           third == list[second]
           g == [k \in 0 .. 3 |-> IF k = 0 THEN Start!List ELSE IF k = 1 THEN first
                                  ELSE IF k = 2 THEN second ELSE third]
           Is(f) == f = [k \in 0 .. 3 |-> IF k = 0 THEN Start!List ELSE list[f[k - 1]]]
<1>1. Is(g)
  <2>1. g[0] = Start!List /\ g[1] = first /\ g[2] = second /\ g[3] = third OBVIOUS
  <2>2. ASSUME NEW k \in 0 .. 3
        PROVE  g[k] = IF k = 0 THEN Start!List ELSE list[g[k - 1]]
    <3>1. k = 0 \/ k = 1 \/ k = 2 \/ k = 3 OBVIOUS
    <3>2. CASE k = 0 BY <2>1, <3>2
    <3>3. CASE k = 1 BY <2>1, <3>3
    <3>4. CASE k = 2 BY <2>1, <3>4
    <3>5. CASE k = 3 BY <2>1, <3>5
    <3> QED BY <3>1, <3>2, <3>3, <3>4, <3>5
  <2> HIDE DEF first, second, third
  <2>3. g = [k \in 0 .. 3 |-> g[k]] OBVIOUS
  <2> HIDE DEF g
  <2> QED BY <2>2, <2>3
<1>2. Start!After = CHOOSE f : Is(f) BY DEF Start!After
<1> HIDE DEF Is
<1>3. Is(Start!After) BY <1>1, <1>2
<1> QED BY <1>3 DEF Is

\* Startup: on the first start and after any reset, main finds memory, interrupts, streams and
\* constructors ready, whatever memory held and the start before was interrupted in; the device
\* list can be searched, to its end too unless the start before has left it.
THEOREM StartSound == HalSpec => []StartIsSound
<1>1. HalInit => StartInv BY StartInit DEF HalInit
<1>2. [HalNext]_halVars => [Start!Next]_start BY DEF HalNext, halVars, Only
<1>3. StartInv => StartIsSound
  <2> SUFFICES ASSUME StartInv PROVE Start!StartIsSound BY DEF StartIsSound
  <2>1. Start!MemoryIsReady
    <3> SUFFICES ASSUME bootPc = "alt_main", NEW a \in DOMAIN mem
                 PROVE  /\ \/ a \in Start!rwdata_end .. (Start!bss_end - 1)
                           \/ a \in Start!tbss_start .. (Start!tbss_end - 1)
                           => mem[a] = Start!Zero
                        /\ a >= Start!bss_end => mem[a] = Start!Linked(a)
                        /\ /\ starts = 1 \/ loads
                           /\ \/ a < Start!tbss_start
                              \/ a \in Start!data_start .. (Start!rwdata_end - 1)
                           => mem[a] = Start!Linked(a)
                        /\ a \in Start!tdata_source .. (Start!data_start - 1)
                             => mem[a] = mem[a - Start!tdata_source]
      BY DEF Start!MemoryIsReady
    <3>1. a \in 0 .. (Start!end - 1) /\ loads \in BOOLEAN BY DEF StartInv, StartTypes
    <3>2. starts = 1 \/ loads => Fresh BY <3>1 DEF Fresh
    <3> QED BY <3>1, <3>2, Zenon DEF StartInv, MemoryInv, Early
  <2>2. Start!InterruptsAreReady
    BY DEF StartInv, BootInv, Late, Start!InterruptsAreReady
  <2>3. Start!StreamsReconnect BY DEF StartInv, BootInv, Late, Start!StreamsReconnect
  <2>4. Start!InOrder
    <3>1. Nctors \in Nat BY StartAssumption
    <3>2. bootPc \in {"main", "dtors"} => Len(ran) >= Nctors BY <3>1 DEF StartInv, RanInv
    <3> QED BY <3>2 DEF StartInv, RanInv, Start!InOrder
  <2>5. /\ Start!After[0] = Start!List /\ Start!After[1] = list[Start!List]
        /\ Start!After[2] = list[Start!After[1]] /\ Start!After[3] = list[Start!After[2]]
    <3>1. ASSUME NEW k \in 0 .. 3
          PROVE  Start!After[k] = IF k = 0 THEN Start!List ELSE list[Start!After[k - 1]]
      <4> DEFINE f == Start!After
      <4>1. f = [i \in 0 .. 3 |-> IF i = 0 THEN Start!List ELSE list[f[i - 1]]] BY AfterDef
      <4> HIDE DEF f
      <4>2. f[k] = IF k = 0 THEN Start!List ELSE list[f[k - 1]] BY <4>1
      <4> QED BY <4>2 DEF f
    <3>2. 1 - 1 = 0 /\ 2 - 1 = 1 /\ 3 - 1 = 2 OBVIOUS
    <3> HIDE DEF Start!After
    <3> QED BY <3>1, <3>2
  <2>6. bootPc \in {"redirect", "main", "dtors"} => Start!After[1] = Start!UartDev
    BY <2>5 DEF StartInv, ListInv, Late
  <2>7. Start!RedirectEnds BY <2>6 DEF Start!RedirectEnds, Start!Met
  <2>8. starts = 1 \/ loads => Start!SearchesEnd
    <3> SUFFICES ASSUME starts = 1 \/ loads, bootPc \in {"main", "dtors"}
                 PROVE  Start!Met(Start!List)
      BY DEF Start!SearchesEnd
    <3>1. Fresh BY DEF StartInv, StartTypes, Fresh
    <3>2. list[Start!UartDev] = Start!Null /\ list[Start!Null] = Start!List
      BY <3>1 DEF StartInv, ListInv, Late
    <3>3. Start!After[3] = Start!List BY <2>5, <2>6, <3>2
    <3>4. Start!After[1] # Start!List /\ Start!After[2] # Start!List
      BY <2>5, <2>6, <3>2 DEF Start!List, Start!Null, Start!UartDev
    <3>5. \A j \in 1 .. (3 - 1) : j = 1 \/ j = 2 OBVIOUS
    <3> QED BY <3>3, <3>4, <3>5 DEF Start!Met
  <2> QED BY <2>1, <2>2, <2>3, <2>4, <2>7, <2>8 DEF Start!StartIsSound
<1> QED BY <1>1, <1>2, <1>3, BootStep, PTL DEF HalSpec

-----------------------------------------------------------------------------
(* Sums of sequences *)

LEMMA Induct ==
  ASSUME NEW S, 0 \in S, \A n \in Nat : n \in S => n + 1 \in S
  PROVE  Nat \subseteq S
<1> SUFFICES ASSUME ~(Nat \subseteq S) PROVE FALSE OBVIOUS
<1> DEFINE T == Nat \ S
<1>1. PICK m \in T : \A k \in T : m <= k
  <2>1. T \subseteq Nat /\ T # {} OBVIOUS
  <2> HIDE DEF T
  <2> QED BY <2>1, Least
<1>2. m \in Nat /\ m # 0 /\ m - 1 \in Nat BY <1>1
<1>3. m - 1 \in S BY <1>1, <1>2
<1>4. (m - 1) + 1 = m BY <1>2
<1> QED BY <1>1, <1>2, <1>3, <1>4

Some(T) == CHOOSE x \in T : TRUE

\* g gives the sum of s over each of the sets in D, a set of sets.
Sums(s, D, g) ==
  g = [T \in D |-> IF T = {} THEN 0 ELSE s[Some(T)] + g[T \ {Some(T)}]]
SumOf(s) == CHOOSE g : Sums(s, SUBSET DOMAIN s, g)
Total(s) == Profile!SumFunction(s)

LEMMA TotalIsSum == ASSUME NEW s PROVE Total(s) = SumOf(s)[DOMAIN s]
BY DEF Total, SumOf, Sums, Some, Profile!SumFunction, Profile!SumFunctionOnSet,
  Profile!FoldFunctionOnSet, Profile!MapThenFoldSet

LEMMA WithoutOne ==
  ASSUME NEW T, IsFiniteSet(T), NEW x \in T
  PROVE  /\ IsFiniteSet(T \ {x}) /\ Cardinality(T) \in Nat \ {0}
         /\ Cardinality(T \ {x}) = Cardinality(T) - 1
<1>1. Cardinality(T) \in Nat BY FS_CardinalityType
<1>2. Cardinality(T) # 0 BY FS_EmptySet
<1> QED BY <1>1, <1>2, FS_RemoveElement

LEMMA SumsExist ==
  ASSUME NEW s, NEW S, IsFiniteSet(S)
  PROVE  \E g : Sums(s, SUBSET S, g)
<1> DEFINE D(n) == {T \in SUBSET S : Cardinality(T) <= n}
           C == {n \in Nat : \E g : Sums(s, D(n), g)}
<1>1. \A T \in SUBSET S : IsFiniteSet(T) /\ Cardinality(T) \in Nat
                          /\ Cardinality(T) <= Cardinality(S) /\ Cardinality(S) \in Nat
  BY FS_Subset, FS_CardinalityType
<1>2. 0 \in C
  <2> DEFINE g == [T \in D(0) |-> 0]
  <2>1. \A T \in D(0) : T = {}
    BY <1>1, FS_EmptySet
  <2>2. Sums(s, D(0), g) BY <2>1 DEF Sums
  <2> QED BY <2>2
<1>3. ASSUME NEW n \in Nat, n \in C PROVE n + 1 \in C
  <2>1. PICK g : Sums(s, D(n), g) BY <1>3
  <2> DEFINE h == [T \in D(n + 1) |-> IF T = {} THEN 0 ELSE s[Some(T)] + g[T \ {Some(T)}]]
  <2>2. ASSUME NEW T \in D(n) PROVE T \in D(n + 1) /\ h[T] = g[T]
    <3>1. T \in D(n + 1) BY <1>1
    <3>2. g[T] = IF T = {} THEN 0 ELSE s[Some(T)] + g[T \ {Some(T)}] BY <2>1 DEF Sums
    <3>3. h[T] = IF T = {} THEN 0 ELSE s[Some(T)] + g[T \ {Some(T)}] BY <3>1
    <3> QED BY <3>1, <3>2, <3>3
  <2>3. ASSUME NEW T \in D(n + 1), T # {}
        PROVE  g[T \ {Some(T)}] = h[T \ {Some(T)}]
    <3>1. Some(T) \in T BY <2>3 DEF Some
    <3>2. Cardinality(T \ {Some(T)}) <= n BY <1>1, <3>1, WithoutOne
    <3>3. T \ {Some(T)} \in D(n) BY <3>2
    <3> QED BY <2>2, <3>3
  <2>4. h = [T \in D(n + 1) |-> IF T = {} THEN 0 ELSE s[Some(T)] + h[T \ {Some(T)}]]
    <3> DEFINE d == D(n + 1)
    <3>1. \A T \in d : (IF T = {} THEN 0 ELSE s[Some(T)] + g[T \ {Some(T)}])
                       = (IF T = {} THEN 0 ELSE s[Some(T)] + h[T \ {Some(T)}])
      BY <2>3, Zenon
    <3> HIDE DEF d
    <3>2. [T \in d |-> IF T = {} THEN 0 ELSE s[Some(T)] + g[T \ {Some(T)}]]
          = [T \in d |-> IF T = {} THEN 0 ELSE s[Some(T)] + h[T \ {Some(T)}]]
      BY <3>1, Zenon
    <3> QED BY <3>2, Zenon DEF d
  <2>5. Sums(s, D(n + 1), h) BY <2>4, Zenon DEF Sums
  <2> HIDE DEF h, D
  <2> QED BY <2>5
<1>4. Cardinality(S) \in C
  <2>1. Nat \subseteq C
    <3> HIDE DEF C
    <3> QED BY <1>2, <1>3, Induct
  <2> QED BY <1>1, <2>1
<1>5. D(Cardinality(S)) = SUBSET S BY <1>1
<1> QED BY <1>4, <1>5

LEMMA SumOfSums ==
  ASSUME NEW s, IsFiniteSet(DOMAIN s)
  PROVE  Sums(s, SUBSET DOMAIN s, SumOf(s))
BY SumsExist DEF SumOf

LEMMA SumOfNone ==
  ASSUME NEW s, NEW D, NEW g, Sums(s, D, g), NEW T \in D, T = {}
  PROVE  g[T] = 0
BY DEF Sums

\* s and t have numbers on T, the same but at k.
Alike(s, t, T, k) == \A i \in T : s[i] \in Int /\ t[i] \in Int /\ (i # k => t[i] = s[i])

\* T and its subsets are finite and in D.
Covers(D, T) == SUBSET T \subseteq D /\ IsFiniteSet(T)

Differ(s, t, g, h, T, k) ==
  /\ g[T] \in Int /\ h[T] \in Int
  /\ k \in T => h[T] = g[T] + (t[k] - s[k])
  /\ k \notin T => h[T] = g[T]

\* Sums of what differs in one place differ by that.
LEMMA SumDiffers ==
  ASSUME NEW s, NEW t, NEW D, NEW E, NEW g, NEW h, NEW k, Sums(s, D, g), Sums(t, E, h),
         NEW T0, Covers(D, T0), Covers(E, T0), Alike(s, t, T0, k)
  PROVE  Differ(s, t, g, h, T0, k)
<1> SUBSET T0 \subseteq D /\ SUBSET T0 \subseteq E /\ IsFiniteSet(T0) BY DEF Covers
<1> DEFINE P(T) == Differ(s, t, g, h, T, k)
           C == {n \in Nat : \A T \in SUBSET T0 : Cardinality(T) = n => P(T)}
<1>1. \A T \in SUBSET T0 : IsFiniteSet(T) /\ Cardinality(T) \in Nat
  BY FS_Subset, FS_CardinalityType
<1>2. 0 \in C
  <2>1. ASSUME NEW T \in SUBSET T0, Cardinality(T) = 0 PROVE P(T)
    <3>1. T = {} BY <1>1, <2>1, FS_EmptySet
    <3>2. T \in D /\ T \in E OBVIOUS
    <3>3. g[T] = 0 BY <3>1, <3>2 DEF Sums
    <3>4. h[T] = 0 BY <3>1, <3>2 DEF Sums
    <3> QED BY <3>1, <3>3, <3>4 DEF Differ
  <2> QED BY <2>1
<1>3. ASSUME NEW n \in Nat, n \in C PROVE n + 1 \in C
  <2>1. ASSUME NEW T \in SUBSET T0, Cardinality(T) = n + 1 PROVE P(T)
    <3> DEFINE x == Some(T)
               U == T \ {x}
    <3>1. T # {} /\ T \in D /\ T \in E
      <4>1. Cardinality(T) = 0 <=> T = {} BY <1>1, FS_EmptySet, Zenon
      <4>2. Cardinality(T) # 0 BY <2>1
      <4> QED BY <4>1, <4>2
    <3>2. x \in T /\ g[T] = s[x] + g[U] /\ h[T] = t[x] + h[U]
      <4>1. x \in T BY <3>1 DEF Some
      <4>2. g[T] = IF T = {} THEN 0 ELSE s[x] + g[U] BY <3>1 DEF Sums
      <4>3. h[T] = IF T = {} THEN 0 ELSE t[x] + h[U] BY <3>1 DEF Sums
      <4> QED BY <3>1, <4>1, <4>2, <4>3, Zenon
    <3>3. U \in SUBSET T0 /\ Cardinality(U) = n BY <1>1, <2>1, <3>2, WithoutOne
    <3>4. P(U) BY <1>3, <3>3
    <3>5. /\ s[x] \in Int /\ t[x] \in Int /\ (x # k => t[x] = s[x])
          /\ k \in T => s[k] \in Int /\ t[k] \in Int
      BY <3>2 DEF Alike
    <3>6. k \in U <=> k \in T /\ k # x OBVIOUS
    <3> HIDE DEF x, U
    <3>7. CASE k = x BY <3>2, <3>4, <3>5, <3>6, <3>7 DEF Differ
    <3>8. CASE k # x /\ k \in T BY <3>2, <3>4, <3>5, <3>6, <3>8 DEF Differ
    <3>9. CASE k \notin T
      <4>1. k # x /\ k \notin U BY <3>2, <3>6, <3>9
      <4> QED BY <3>2, <3>4, <3>5, <3>9, <4>1 DEF Differ
    <3> QED BY <3>7, <3>8, <3>9
  <2> HIDE DEF P
  <2> QED BY <2>1
<1>4. Cardinality(T0) \in C
  <2> HIDE DEF C
  <2> QED BY <1>1, <1>2, <1>3, Induct
<1> QED BY <1>4

LEMMA SumIsInt ==
  ASSUME NEW s, NEW D, NEW g, Sums(s, D, g), NEW T, Covers(D, T), \A i \in T : s[i] \in Int
  PROVE  g[T] \in Int
<1>1. Alike(s, s, T, 0) BY DEF Alike
<1>2. Differ(s, s, g, g, T, 0) BY <1>1, SumDiffers
<1> QED BY <1>2 DEF Differ

\* The elements may be taken in any order.
LEMMA SumRemove ==
  ASSUME NEW s, NEW S, NEW g, Sums(s, SUBSET S, g), NEW T0 \in SUBSET S, IsFiniteSet(T0),
         \A i \in T0 : s[i] \in Int, NEW x0 \in T0
  PROVE  g[T0] = s[x0] + g[T0 \ {x0}]
<1> DEFINE P(T) == \A x \in T : g[T] = s[x] + g[T \ {x}]
           C == {n \in Nat : \A T \in SUBSET T0 : Cardinality(T) = n => P(T)}
<1>1. \A T \in SUBSET T0 : IsFiniteSet(T) /\ Cardinality(T) \in Nat
  BY FS_Subset, FS_CardinalityType
<1>2. 0 \in C
  <2>1. ASSUME NEW T \in SUBSET T0, Cardinality(T) = 0 PROVE P(T)
    BY <1>1, <2>1, FS_EmptySet
  <2> QED BY <2>1
<1>3. ASSUME NEW n \in Nat, n \in C PROVE n + 1 \in C
  <2>1. ASSUME NEW T \in SUBSET T0, Cardinality(T) = n + 1, NEW x \in T
        PROVE  g[T] = s[x] + g[T \ {x}]
    <3> DEFINE y == Some(T)
    <3>1. y \in T /\ g[T] = s[y] + g[T \ {y}]
      <4>1. T # {} /\ T \in SUBSET S OBVIOUS
      <4>2. y \in T BY <4>1 DEF Some
      <4>3. g[T] = IF T = {} THEN 0 ELSE s[y] + g[T \ {y}] BY <4>1 DEF Sums
      <4> QED BY <4>1, <4>2, <4>3, Zenon
    <3>2. CASE x = y BY <3>1, <3>2
    <3>3. CASE x # y
      <4> DEFINE U == T \ {y}
                 V == T \ {x}
                 B == T \ {x, y}
      <4> HIDE DEF y
      <4>1. /\ U \in SUBSET T0 /\ Cardinality(U) = n /\ x \in U /\ U \ {x} = B
            /\ V \in SUBSET T0 /\ Cardinality(V) = n /\ y \in V /\ V \ {y} = B
        <5>1. y \in T /\ x \in U /\ y \in V /\ U \ {x} = B /\ V \ {y} = B BY <3>1, <3>3
        <5>2. U \in SUBSET T0 /\ V \in SUBSET T0 OBVIOUS
        <5>3. Cardinality(U) = n
          <6>1. IsFiniteSet(T) /\ y \in T BY <1>1, <5>1
          <6>2. Cardinality(U) = Cardinality(T) - 1 BY <6>1, WithoutOne, Zenon
          <6> QED BY <2>1, <6>2
        <5>4. Cardinality(V) = n
          <6>1. IsFiniteSet(T) /\ x \in T BY <1>1
          <6>2. Cardinality(V) = Cardinality(T) - 1 BY <6>1, WithoutOne, Zenon
          <6> QED BY <2>1, <6>2
        <5> QED BY <5>1, <5>2, <5>3, <5>4
      <4>2. P(U) /\ P(V)
        <5> HIDE DEF P, U, V
        <5> QED BY <1>3, <4>1
      <4>3. g[U] = s[x] + g[B] /\ g[V] = s[y] + g[B] BY <4>1, <4>2
      <4>4. s[x] \in Int /\ s[y] \in Int /\ g[B] \in Int
        <5>1. SUBSET B \subseteq SUBSET S /\ IsFiniteSet(B) BY <1>1
        <5>2. \A i \in B : s[i] \in Int OBVIOUS
        <5> DEFINE D == SUBSET S
        <5>3. Sums(s, D, g) /\ Covers(D, B) BY <5>1 DEF Covers
        <5> HIDE DEF B, D
        <5>4. g[B] \in Int BY <5>2, <5>3, SumIsInt
        <5> QED BY <3>1, <5>4
      <4> HIDE DEF U, V, B
      <4>5. g[T] = s[y] + g[U] BY <3>1 DEF U
      <4>6. g[T] = s[x] + g[V] BY <4>3, <4>4, <4>5
      <4> QED BY <4>6 DEF V
    <3> QED BY <3>2, <3>3
  <2>2. \A T \in SUBSET T0 : Cardinality(T) = n + 1 => P(T) BY <2>1
  <2> HIDE DEF P
  <2> QED BY <2>2
<1>4. Cardinality(T0) \in C
  <2> HIDE DEF C
  <2> QED BY <1>1, <1>2, <1>3, Induct
<1> QED BY <1>4

\* The total of a sequence in which one number is changed.
OneDiffers(s, t, k) ==
  /\ s \in Seq(Int) /\ t \in Seq(Int) /\ Len(t) = Len(s) /\ k \in 1 .. Len(s)
  /\ \A i \in 1 .. Len(s) : i # k => t[i] = s[i]

LEMMA TotalChanged ==
  ASSUME NEW s, NEW t, NEW k, OneDiffers(s, t, k)
  PROVE  Total(t) \in Int /\ Total(s) \in Int /\ Total(t) = Total(s) + (t[k] - s[k])
<1> USE DEF OneDiffers
<1> DEFINE D == 1 .. Len(s)
<1>1. DOMAIN s = D /\ DOMAIN t = D /\ \A i \in D : s[i] \in Int /\ t[i] \in Int OBVIOUS
<1>2. IsFiniteSet(D) BY FS_Interval
<1> HIDE DEF D
<1>3. Sums(s, SUBSET D, SumOf(s)) /\ Sums(t, SUBSET D, SumOf(t)) BY <1>1, <1>2, SumOfSums
<1>4. /\ SumOf(s)[D] \in Int /\ SumOf(t)[D] \in Int
      /\ k \in D => SumOf(t)[D] = SumOf(s)[D] + (t[k] - s[k])
  <2>1. Alike(s, t, D, k) BY <1>1 DEF D, Alike
  <2>2. Covers(SUBSET D, D) BY <1>2 DEF Covers
  <2> DEFINE A == SUBSET D
  <2>3. Sums(s, A, SumOf(s)) /\ Sums(t, A, SumOf(t)) /\ Covers(A, D) BY <1>3, <2>2
  <2> HIDE DEF A
  <2>4. Differ(s, t, SumOf(s), SumOf(t), D, k) BY <2>1, <2>3, SumDiffers
  <2> QED BY <2>4 DEF Differ
<1> QED BY <1>1, <1>4, TotalIsSum DEF D

LEMMA TotalEmpty == Total(<<>>) = 0
<1> DEFINE e == <<>>
<1>1. DOMAIN e = {} /\ IsFiniteSet(DOMAIN e) BY FS_EmptySet
<1> HIDE DEF e
<1>2. Sums(e, SUBSET DOMAIN e, SumOf(e)) BY <1>1, SumOfSums
<1>3. DOMAIN e \in SUBSET DOMAIN e OBVIOUS
<1>4. SumOf(e)[DOMAIN e] = 0 BY <1>1, <1>2, <1>3, SumOfNone, Zenon
<1> QED BY <1>4, TotalIsSum DEF e

LEMMA TotalAppended ==
  ASSUME NEW s \in Seq(Int), NEW v \in Int
  PROVE  Total(s) \in Int /\ Total(Append(s, v)) = Total(s) + v
<1> DEFINE n == Len(s)
           t == Append(s, v)
           D == 1 .. n
           E == 1 .. (n + 1)
<1>1. /\ n \in Nat /\ DOMAIN s = D /\ DOMAIN t = E /\ t[n + 1] = v
      /\ \A i \in D : s[i] \in Int /\ t[i] = s[i]
  OBVIOUS
<1>2. IsFiniteSet(D) /\ IsFiniteSet(E) BY FS_Interval
<1>3. D \in SUBSET E /\ E \ {n + 1} = D /\ n + 1 \in E
  <2> HIDE DEF n
  <2> QED BY <1>1
<1>4. \A i \in E : t[i] \in Int
  <2>1. \A i \in E : i \in D \/ i = n + 1
    <3> HIDE DEF n
    <3> QED BY <1>1
  <2> QED BY <1>1, <2>1
<1> HIDE DEF n, t, D, E
<1>5. Sums(s, SUBSET D, SumOf(s)) /\ Sums(t, SUBSET E, SumOf(t)) BY <1>1, <1>2, SumOfSums
<1>6. SumOf(t)[E] = v + SumOf(t)[D]
  <2>1. SumOf(t)[E] = t[n + 1] + SumOf(t)[E \ {n + 1}] BY <1>2, <1>3, <1>4, <1>5, SumRemove
  <2> QED BY <1>1, <1>3, <2>1
<1>7. SumOf(s)[D] \in Int /\ SumOf(t)[D] = SumOf(s)[D]
  <2>1. Alike(s, t, D, 0) BY <1>1 DEF Alike
  <2>2. SUBSET D \subseteq SUBSET D /\ SUBSET D \subseteq SUBSET E /\ 0 \notin D
    BY <1>1, <1>3 DEF D
  <2> DEFINE g == SumOf(s)
             h == SumOf(t)
             A == SUBSET D
             B == SUBSET E
  <2>3. Sums(s, A, g) /\ Sums(t, B, h) /\ Covers(A, D) /\ Covers(B, D)
    BY <1>2, <1>5, <2>2 DEF Covers
  <2> HIDE DEF g, h, A, B
  <2>4. Differ(s, t, g, h, D, 0) BY <2>1, <2>3, SumDiffers
  <2>5. 0 \notin D BY <2>2
  <2> QED BY <2>4, <2>5 DEF g, h, Differ
<1>8. Total(s) = SumOf(s)[D] BY <1>1, TotalIsSum
<1>9. Total(t) = SumOf(t)[E] BY <1>1, TotalIsSum
<1> QED BY <1>6, <1>7, <1>8, <1>9 DEF t

-----------------------------------------------------------------------------
(* The heap and the profiler *)

\* Blocks are below the end of the heap and apart. While whole words are asked for the end is
\* aligned, and with stack checking it is the limit.
BlocksInv ==
  /\ heap_end \in Nat
  /\ \A b \in blocks : /\ b.at \in Nat /\ b.size \in Nat /\ b.at % 4 = 0
                       /\ b.at + b.size <= heap_limit /\ b.at + b.size <= heap_end
  /\ \A b, c \in blocks : b # c => b.at + b.size <= c.at \/ c.at + c.size <= b.at
  /\ (\A b \in blocks : b.size % 4 = 0) =>
       heap_end % 4 = 0 /\ (checks => stack_limit = heap_end)

SlabInv ==
  /\ mcount_slab_ptr \in Int /\ mcount_slab_size \in Int
  /\ mcount_slab_size > 0 =>
       \E b \in blocks : b.by = "slab" /\ b.at + b.size = mcount_slab_ptr + mcount_slab_size

\* The histogram, and those there were before a handler started the sampler again; with a part
\* bucket at the end of the text, the one behind a histogram.
InOrBehind(a, b) ==
  /\ b.by = "samples" /\ b.at <= a
  /\ a + 1 < b.at + b.size \/ (TextSize % 32 # 0 /\ a = b.at + b.size)
SamplesInv ==
  /\ alarmList \in [Profile!Nodes -> Profile!Nodes]
  /\ alarmList["list"] = "alarm" =>
       \E b \in blocks : b.by = "samples" /\ b.at = s_pcsamples /\ b.size = Profile!Pcsamples
  /\ \A a \in sampled : a \in Nat /\ \E b \in blocks : InOrBehind(a, b)

HeapInv == BlocksInv /\ SlabInv /\ SamplesInv

LEMMA HeapInit == Profile!Init => HeapInv
BY DEF Profile!Init, HeapInv, BlocksInv, SlabInv, SamplesInv, Profile!Nodes

LEMMA AlignedUp ==
  ASSUME NEW a \in Nat
  PROVE  /\ Profile!Aligned(a) \in Nat /\ a <= Profile!Aligned(a) /\ Profile!Aligned(a) % 4 = 0
         /\ a % 4 = 0 => Profile!Aligned(a) = a
<1> DEFINE q == (a + 3) \div 4
<1>1. q \in Nat /\ (a + 3) % 4 \in 0 .. 3 /\ a + 3 = 4 * q + ((a + 3) % 4) OBVIOUS
<1>2. ASSUME a % 4 = 0 PROVE q = a \div 4 /\ a = 4 * (a \div 4) BY <1>2
<1> HIDE DEF q
<1>3. (4 * q) % 4 = 0 BY <1>1
<1> QED BY <1>1, <1>2, <1>3 DEF Profile!Aligned, q

LEMMA ExtendInv ==
  ASSUME BlocksInv, NEW incr \in Nat, NEW sp, NEW owner,
         Profile!Fits(incr), Profile!Extend(incr, sp, owner)
  PROVE  /\ BlocksInv' /\ blocks \subseteq blocks'
         /\ [at |-> Profile!Aligned(heap_end), size |-> incr, by |-> owner] \in blocks'
         /\ Profile!Aligned(heap_end) \in Nat
<1> DEFINE e == Profile!Aligned(heap_end)
           new == [at |-> e, size |-> incr, by |-> owner]
<1>1. /\ e \in Nat /\ heap_end \in Nat /\ heap_end <= e /\ e % 4 = 0
      /\ heap_end % 4 = 0 => e = heap_end
  BY AlignedUp DEF BlocksInv
<1>2. /\ heap_end' = e + incr /\ e + incr <= heap_limit
      /\ blocks' = blocks \cup {new} /\ checks' = checks
      /\ checks /\ stack_limit = e => stack_limit' = e + incr
  BY DEF Profile!Extend, Profile!Fits, Profile!alt_set_stack_limit, Profile!alt_stack_limit
<1>3. new.at = e /\ new.size = incr OBVIOUS
<1>4. new \in blocks' BY <1>2
<1> HIDE DEF e, new
<1>5. ASSUME NEW b \in blocks'
      PROVE  /\ b.at \in Nat /\ b.size \in Nat /\ b.at % 4 = 0
             /\ b.at + b.size <= heap_limit /\ b.at + b.size <= heap_end'
             /\ b # new => b \in blocks /\ b.at + b.size <= e
  BY <1>1, <1>2, <1>3, ProfileAssumption DEF BlocksInv
<1>6. ASSUME NEW b \in blocks', NEW c \in blocks', b # c
      PROVE  b.at + b.size <= c.at \/ c.at + c.size <= b.at
  BY <1>3, <1>5, <1>6 DEF BlocksInv
<1>7. ASSUME \A b \in blocks' : b.size % 4 = 0
      PROVE  heap_end' % 4 = 0 /\ (checks' => stack_limit' = heap_end')
  <2>1. incr % 4 = 0 /\ \A b \in blocks : b.size % 4 = 0 BY <1>2, <1>3, <1>4, <1>7
  <2>2. heap_end % 4 = 0 /\ (checks => stack_limit = heap_end) BY <2>1 DEF BlocksInv
  <2>3. e = heap_end BY <1>1, <2>2
  <2>4. (e + incr) % 4 = 0 BY <1>1, <2>1
  <2> QED BY <1>2, <2>2, <2>3, <2>4
<1>8. heap_end' \in Nat BY <1>1, <1>2
<1>9. BlocksInv' BY <1>5, <1>6, <1>7, <1>8 DEF BlocksInv
<1> QED BY <1>1, <1>2, <1>4, <1>9 DEF e, new

LEMMA RefuseInv ==
  ASSUME BlocksInv, Profile!Refuse
  PROVE  BlocksInv' /\ blocks' = blocks
<1> DEFINE e == Profile!Aligned(heap_end)
<1>1. /\ e \in Nat /\ heap_end \in Nat /\ heap_end <= e /\ e % 4 = 0
      /\ heap_end % 4 = 0 => e = heap_end
  BY AlignedUp DEF BlocksInv
<1>2. heap_end' = e /\ UNCHANGED <<checks, stack_limit, blocks>> BY DEF Profile!Refuse
<1> HIDE DEF e
<1> QED BY <1>1, <1>2, ProfileAssumption DEF BlocksInv

LEMMA AllocateInv ==
  ASSUME BlocksInv, SlabInv, Profile!Allocate
  PROVE  BlocksInv' /\ SlabInv' /\ blocks \subseteq blocks'
<1>1. CASE Profile!EntrySize <= mcount_slab_size
  <2>1. /\ mcount_slab_ptr' = mcount_slab_ptr + 12 /\ mcount_slab_size' = mcount_slab_size - 12
        /\ UNCHANGED <<heap_end, checks, stack_limit, blocks>> /\ mcount_slab_size >= 12
    BY <1>1 DEF Profile!Allocate, Profile!heap, Profile!EntrySize, SlabInv
  <2>2. SlabInv'
    <3>1. PICK b \in blocks :
            b.by = "slab" /\ b.at + b.size = mcount_slab_ptr + mcount_slab_size
      BY <2>1 DEF SlabInv
    <3>2. b.at + b.size = mcount_slab_ptr' + mcount_slab_size' BY <2>1, <3>1 DEF SlabInv
    <3> QED BY <2>1, <3>1, <3>2 DEF SlabInv
  <2> QED BY <2>1, <2>2 DEF BlocksInv
<1>2. CASE ~(Profile!EntrySize <= mcount_slab_size) /\ Profile!Fits(MCOUNT_SLAB_INCREMENT)
  <2>1. PICK sp \in StackTops : Profile!Extend(MCOUNT_SLAB_INCREMENT, sp, "slab")
    BY <1>2 DEF Profile!Allocate
  <2>2. /\ mcount_slab_ptr' = Profile!Aligned(heap_end) + 12
        /\ mcount_slab_size' = MCOUNT_SLAB_INCREMENT - 12
    BY <1>2 DEF Profile!Allocate, Profile!EntrySize
  <2> DEFINE e == Profile!Aligned(heap_end)
             new == [at |-> e, size |-> MCOUNT_SLAB_INCREMENT, by |-> "slab"]
  <2>3. BlocksInv' /\ blocks \subseteq blocks' /\ new \in blocks' /\ e \in Nat
    BY <1>2, <2>1, ProfileAssumption, ExtendInv
  <2>4. new.by = "slab" /\ new.at = e /\ new.size = MCOUNT_SLAB_INCREMENT OBVIOUS
  <2> HIDE DEF new, e
  <2>5. SlabInv' BY <2>2, <2>3, <2>4, ProfileAssumption DEF SlabInv, e
  <2> QED BY <2>3, <2>5
<1>3. CASE ~(Profile!EntrySize <= mcount_slab_size) /\ ~Profile!Fits(MCOUNT_SLAB_INCREMENT)
  <2>1. Profile!Refuse /\ UNCHANGED Profile!slab BY <1>3 DEF Profile!Allocate
  <2> QED BY <2>1, RefuseInv DEF SlabInv, Profile!slab
<1> QED BY <1>1, <1>2, <1>3

LEMMA SamplesKept ==
  ASSUME SamplesInv, blocks \subseteq blocks', UNCHANGED <<s_pcsamples, sampled, alarmList>>
  PROVE  SamplesInv'
BY DEF SamplesInv, InOrBehind, Profile!Pcsamples, Profile!PCSAMPLE_BYTES_PER_BUCKET

LEMMA MallocInv ==
  ASSUME HeapInv, NEW incr \in Increments, NEW sp, Profile!Malloc(incr, sp)
  PROVE  HeapInv'
<1>1. UNCHANGED <<mcount_slab_ptr, mcount_slab_size, s_pcsamples, sampled, alarmList>>
  BY DEF Profile!Malloc, Profile!slab, Profile!sampler
<1>2. BlocksInv' /\ blocks \subseteq blocks'
  <2>1. CASE Profile!Fits(incr)
    <3>1. Profile!Extend(incr, sp, "malloc") /\ incr \in Nat
      BY <2>1, ProfileAssumption DEF Profile!Malloc
    <3> QED BY <2>1, <3>1, ExtendInv DEF HeapInv
  <2>2. CASE ~Profile!Fits(incr) BY <2>2, RefuseInv DEF Profile!Malloc, HeapInv
  <2> QED BY <2>1, <2>2
<1>3. SlabInv' BY <1>1, <1>2 DEF HeapInv, SlabInv
<1>4. SamplesInv' BY <1>1, <1>2, SamplesKept DEF HeapInv
<1> QED BY <1>2, <1>3, <1>4 DEF HeapInv

LEMMA RecordHeap ==
  ASSUME HeapInv, NEW c, Profile!RecordFunction(c) \/ Profile!RecordArc(c)
  PROVE  HeapInv'
<1>1. UNCHANGED <<s_pcsamples, sampled, alarmList>>
  BY DEF Profile!RecordFunction, Profile!RecordArc, Profile!sampler
<1>2. Profile!Allocate \/ UNCHANGED <<Profile!heap, Profile!slab>>
  BY DEF Profile!RecordFunction, Profile!RecordArc
<1>3. BlocksInv' /\ SlabInv' /\ blocks \subseteq blocks'
  <2>1. CASE Profile!Allocate BY <2>1, AllocateInv DEF HeapInv
  <2>2. CASE UNCHANGED <<Profile!heap, Profile!slab>>
    BY <2>2 DEF HeapInv, BlocksInv, SlabInv, Profile!heap, Profile!slab
  <2> QED BY <1>2, <2>1, <2>2
<1> QED BY <1>1, <1>3, SamplesKept DEF HeapInv

LEMMA HistogramInv ==
  ASSUME HeapInv, NEW c, Profile!niosv_pcsample_init(c)
  PROVE  HeapInv'
<1>1. UNCHANGED <<mcount_slab_ptr, mcount_slab_size, sampled>>
  BY DEF Profile!niosv_pcsample_init, Profile!slab
<1>2. CASE UNCHANGED <<Profile!heap, s_pcsamples, alarmList>>
  <2>1. BlocksInv' /\ SlabInv' BY <1>1, <1>2 DEF HeapInv, BlocksInv, SlabInv, Profile!heap
  <2>2. blocks' = blocks BY <1>2 DEF Profile!heap
  <2> QED BY <1>1, <1>2, <2>1, <2>2, SamplesKept DEF HeapInv
<1>3. CASE Profile!Refuse /\ UNCHANGED <<s_pcsamples, alarmList>>
  <2>1. BlocksInv' /\ blocks' = blocks BY <1>3, RefuseInv DEF HeapInv
  <2>2. SlabInv' BY <1>1, <2>1 DEF HeapInv, SlabInv
  <2> QED BY <1>1, <1>3, <2>1, <2>2, SamplesKept DEF HeapInv
<1>4. ASSUME NEW sp, Profile!Fits(Profile!Pcsamples),
             Profile!Extend(Profile!Pcsamples, sp, "samples"),
             s_pcsamples' = Profile!Aligned(heap_end), alarmList' = Profile!Inserted
      PROVE  HeapInv'
  <2> DEFINE e == Profile!Aligned(heap_end)
             new == [at |-> e, size |-> Profile!Pcsamples, by |-> "samples"]
  <2>1. Profile!Pcsamples \in Nat
    <3>1. TextSize \div 32 \in Nat BY ProfileAssumption
    <3> QED BY <3>1 DEF Profile!Pcsamples, Profile!PCSAMPLE_BYTES_PER_BUCKET
  <2>2. BlocksInv' /\ blocks \subseteq blocks' /\ new \in blocks'
    BY <1>4, <2>1, ExtendInv DEF HeapInv
  <2>3. new.by = "samples" /\ new.at = s_pcsamples' /\ new.size = Profile!Pcsamples BY <1>4
  <2> HIDE DEF new
  <2>4. SlabInv' BY <1>1, <2>2 DEF HeapInv, SlabInv
  <2>5. SamplesInv'
    <3>1. Profile!Pcsamples' = Profile!Pcsamples
      BY DEF Profile!Pcsamples, Profile!PCSAMPLE_BYTES_PER_BUCKET
    <3>2. alarmList' \in [Profile!Nodes -> Profile!Nodes]
      BY <1>4 DEF HeapInv, SamplesInv, Profile!Inserted, Profile!Nodes
    <3>3. \A a \in sampled' : a \in Nat /\ \E b \in blocks' : InOrBehind(a, b)'
      BY <1>1, <2>2 DEF HeapInv, SamplesInv, InOrBehind
    <3>4. \E b \in blocks' :
            b.by = "samples" /\ b.at = s_pcsamples' /\ b.size = Profile!Pcsamples'
      BY <2>2, <2>3, <3>1
    <3> QED BY <3>2, <3>3, <3>4 DEF SamplesInv
  <2> QED BY <2>2, <2>4, <2>5 DEF HeapInv
<1> QED BY <1>2, <1>3, <1>4 DEF Profile!niosv_pcsample_init

LEMMA SampleInv ==
  ASSUME HeapInv, NEW offset \in Int, Profile!Sample(offset)
  PROVE  HeapInv'
<1>1. UNCHANGED <<heap_end, checks, stack_limit, blocks, mcount_slab_ptr, mcount_slab_size,
                  s_pcsamples, alarmList>>
  BY DEF Profile!Sample, Profile!heap, Profile!slab
<1>2. BlocksInv' /\ SlabInv' BY <1>1 DEF HeapInv, BlocksInv, SlabInv
<1>3. CASE sampled' = sampled
  <2>1. SamplesInv' BY <1>1, <1>3, SamplesKept DEF HeapInv
  <2> QED BY <1>2, <2>1 DEF HeapInv
<1> DEFINE k == offset \div 32
           a0 == s_pcsamples + 2 * k
<1>4. CASE offset \in 0 .. (TextSize - 1) /\ sampled' = sampled \cup {a0}
  <2>1. PICK b \in blocks : b.by = "samples" /\ b.at = s_pcsamples /\ b.size = Profile!Pcsamples
    BY DEF HeapInv, SamplesInv, Profile!Sample
  <2>2. b.at \in Nat BY DEF HeapInv, BlocksInv
  <2>3. a0 \in Nat /\ InOrBehind(a0, b)
    <3>1. offset \in Nat /\ TextSize \in Nat /\ offset < TextSize BY <1>4, ProfileAssumption
    <3> DEFINE T == TextSize \div 32
    <3>2. k \in Nat /\ T \in Nat /\ k <= T /\ (TextSize % 32 = 0 => k < T)
      BY <3>1, DividedInOrder, Divided
    <3>3. b.size = 2 * T BY <2>1 DEF Profile!Pcsamples, Profile!PCSAMPLE_BYTES_PER_BUCKET
    <3> HIDE DEF k, T
    <3>4. a0 \in Nat /\ b.at <= a0 /\ (k < T => a0 + 1 < b.at + b.size)
          /\ (k = T => a0 = b.at + b.size)
      BY <2>1, <2>2, <3>2, <3>3
    <3>5. k < T \/ (k = T /\ TextSize % 32 # 0) BY <3>2
    <3> HIDE DEF a0
    <3> QED BY <2>1, <3>4, <3>5 DEF InOrBehind
  <2> HIDE DEF a0
  <2>4. SamplesInv'
    <3>1. Profile!Pcsamples' = Profile!Pcsamples
      BY DEF Profile!Pcsamples, Profile!PCSAMPLE_BYTES_PER_BUCKET
    <3>2. \E x \in blocks' :
            x.by = "samples" /\ x.at = s_pcsamples' /\ x.size = Profile!Pcsamples'
      BY <1>1, <2>1, <3>1
    <3>3. ASSUME NEW a \in sampled' PROVE a \in Nat /\ \E x \in blocks' : InOrBehind(a, x)'
      <4>1. CASE a = a0 BY <1>1, <2>3, <4>1 DEF InOrBehind
      <4>2. CASE a \in sampled BY <1>1, <4>2 DEF HeapInv, SamplesInv, InOrBehind
      <4> QED BY <1>4, <4>1, <4>2
    <3> QED BY <1>1, <3>2, <3>3 DEF HeapInv, SamplesInv
  <2> QED BY <1>2, <2>4 DEF HeapInv
<1> QED BY <1>3, <1>4 DEF Profile!Sample, Profile!Count, Profile!PCSAMPLE_BYTES_PER_BUCKET

LEMMA HeapStep == HeapInv /\ [Profile!Next]_profile => HeapInv'
<1> SUFFICES ASSUME HeapInv, [Profile!Next]_profile PROVE HeapInv' OBVIOUS
<1> DEFINE Same == UNCHANGED <<heap_end, checks, stack_limit, blocks, mcount_slab_ptr,
                               mcount_slab_size, s_pcsamples, sampled, alarmList>>
<1>1. CASE Same
  <2>1. BlocksInv' /\ SlabInv' BY <1>1 DEF HeapInv, BlocksInv, SlabInv
  <2> QED BY <1>1, <2>1, SamplesKept DEF HeapInv
<1>2. ASSUME NEW incr \in Increments, NEW sp \in StackTops, Profile!Malloc(incr, sp)
      PROVE  HeapInv'
  BY <1>2, MallocInv
<1>3. ASSUME NEW c \in Profile!Contexts, Profile!RecordFunction(c) \/ Profile!RecordArc(c)
      PROVE  HeapInv'
  BY <1>3, RecordHeap
<1>4. ASSUME NEW c \in Profile!Contexts, Profile!niosv_pcsample_init(c) PROVE HeapInv'
  BY <1>4, HistogramInv
<1>5. ASSUME NEW offset \in {-1, 0, TextSize - 1}, Profile!Sample(offset) PROVE HeapInv'
  <2>1. offset \in Int BY ProfileAssumption
  <2> QED BY <1>5, <2>1, SampleInv
<1>6. ASSUME NEW c \in Profile!Contexts,
             \/ \E a \in Arcs : Profile!Enter(c, a)
             \/ Profile!WalkArcs(c) \/ Profile!LoadCount(c) \/ Profile!StoreCount(c)
             \/ Profile!TestSampler(c) \/ Profile!ClearFlag(c)
      PROVE  Same
  BY <1>6 DEF Profile!Enter, Profile!WalkArcs, Profile!LoadCount, Profile!StoreCount,
    Profile!TestSampler, Profile!ClearFlag, Profile!heap, Profile!slab, Profile!sampler
<1>7. CASE Profile!SysclkInit \/ UNCHANGED profile
  <2>1. Same BY <1>7 DEF Profile!SysclkInit, Profile!heap, Profile!slab, profile
  <2> QED BY <1>1, <2>1
<1> HIDE DEF Same
<1> QED BY <1>1, <1>2, <1>3, <1>4, <1>5, <1>6, <1>7 DEF Profile!Next

\* The sampler's alarm is linked to itself when it has been started twice, and each start has
\* allocated a histogram.
TwiceInv ==
  TextSize >= 32 /\ (hung \/ alarmList["alarm"] = "alarm") =>
    \E b, c \in blocks : b # c /\ b.by = "samples" /\ c.by = "samples"

LEMMA TwiceInit == Profile!Init => TwiceInv
BY DEF Profile!Init, TwiceInv, Profile!Nodes

\* Memory is not given back.
LEMMA BlocksGrow == [Profile!Next]_profile => blocks \subseteq blocks'
<1> SUFFICES ASSUME [Profile!Next]_profile PROVE blocks \subseteq blocks' OBVIOUS
<1>1. \A incr, sp, owner : Profile!Extend(incr, sp, owner) => blocks \subseteq blocks'
  BY DEF Profile!Extend
<1>2. Profile!Refuse => blocks' = blocks BY DEF Profile!Refuse
<1>3. UNCHANGED Profile!heap => blocks' = blocks BY DEF Profile!heap
<1>4. Profile!Allocate => blocks \subseteq blocks'
  BY <1>1, <1>2, <1>3 DEF Profile!Allocate
<1>5. ASSUME NEW incr, NEW sp, Profile!Malloc(incr, sp) PROVE blocks \subseteq blocks'
  BY <1>1, <1>2, <1>5 DEF Profile!Malloc
<1>6. ASSUME NEW c, Profile!RecordFunction(c) \/ Profile!RecordArc(c)
      PROVE  blocks \subseteq blocks'
  BY <1>3, <1>4, <1>6 DEF Profile!RecordFunction, Profile!RecordArc
<1>7. ASSUME NEW c, Profile!niosv_pcsample_init(c) PROVE blocks \subseteq blocks'
  BY <1>1, <1>2, <1>3, <1>7 DEF Profile!niosv_pcsample_init
<1>8. ASSUME NEW c,
             \/ \E a \in Arcs : Profile!Enter(c, a)
             \/ Profile!WalkArcs(c) \/ Profile!LoadCount(c) \/ Profile!StoreCount(c)
             \/ Profile!TestSampler(c) \/ Profile!ClearFlag(c)
      PROVE  blocks' = blocks
  BY <1>3, <1>8 DEF Profile!Enter, Profile!WalkArcs, Profile!LoadCount, Profile!StoreCount,
    Profile!TestSampler, Profile!ClearFlag
<1>9. ASSUME NEW offset, Profile!Sample(offset) PROVE blocks' = blocks
  BY <1>3, <1>9 DEF Profile!Sample
<1>10. CASE Profile!SysclkInit BY <1>3, <1>10 DEF Profile!SysclkInit
<1>11. CASE UNCHANGED profile BY <1>11 DEF profile
<1> QED BY <1>5, <1>6, <1>7, <1>8, <1>9, <1>10, <1>11 DEF Profile!Next

\* The second start finds the block of the first, which is not empty.
LEMMA StartedTwice ==
  ASSUME HeapInv, TwiceInv, NEW c, Profile!niosv_pcsample_init(c), blocks \subseteq blocks'
  PROVE  TwiceInv'
<1>1. ~hung /\ hung' = hung BY DEF Profile!niosv_pcsample_init, Profile!Steps, Profile!Running
<1>2. CASE alarmList' = alarmList BY <1>1, <1>2 DEF TwiceInv
<1>3. ASSUME NEW sp, Profile!Fits(Profile!Pcsamples),
             Profile!Extend(Profile!Pcsamples, sp, "samples"), alarmList' = Profile!Inserted,
             TextSize >= 32, alarmList["list"] = "alarm"
      PROVE  \E a, b \in blocks' : a # b /\ a.by = "samples" /\ b.by = "samples"
  <2> DEFINE e == Profile!Aligned(heap_end)
             new == [at |-> e, size |-> Profile!Pcsamples, by |-> "samples"]
  <2>1. new \in blocks' /\ new.at = e /\ new.by = "samples" BY <1>3 DEF Profile!Extend
  <2>2. PICK b \in blocks : b.by = "samples" /\ b.size = Profile!Pcsamples
    BY <1>3 DEF HeapInv, SamplesInv
  <2>3. Profile!Pcsamples \in Nat /\ Profile!Pcsamples >= 2
    <3>1. TextSize \div 32 \in Nat /\ TextSize \div 32 >= 1 BY <1>3, ProfileAssumption
    <3> QED BY <3>1 DEF Profile!Pcsamples, Profile!PCSAMPLE_BYTES_PER_BUCKET
  <2>4. e \in Nat /\ heap_end \in Nat /\ heap_end <= e BY AlignedUp DEF HeapInv, BlocksInv
  <2>5. b.at \in Nat /\ b.at + b.size <= heap_end BY DEF HeapInv, BlocksInv
  <2> HIDE DEF e, new
  <2>6. b.at # new.at BY <2>1, <2>2, <2>3, <2>4, <2>5
  <2>7. b # new BY <2>6
  <2> QED BY <2>1, <2>2, <2>7
<1>4. CASE alarmList' = Profile!Inserted /\ alarmList["list"] # "alarm"
  BY <1>1, <1>4 DEF TwiceInv, Profile!Inserted, Profile!Nodes
<1>5. CASE /\ alarmList' = Profile!Inserted /\ alarmList["list"] = "alarm"
           /\ \E sp \in StackTops : Profile!Extend(Profile!Pcsamples, sp, "samples")
           /\ Profile!Fits(Profile!Pcsamples)
  BY <1>3, <1>5 DEF TwiceInv
<1> QED BY <1>2, <1>4, <1>5 DEF Profile!niosv_pcsample_init

LEMMA TwiceStep == HeapInv /\ TwiceInv /\ [Profile!Next]_profile => TwiceInv'
<1> SUFFICES ASSUME HeapInv, TwiceInv, [Profile!Next]_profile PROVE TwiceInv' OBVIOUS
<1>1. blocks \subseteq blocks' BY BlocksGrow
<1>2. CASE UNCHANGED <<alarmList, hung>> BY <1>1, <1>2 DEF TwiceInv
<1>3. ASSUME NEW c, Profile!niosv_pcsample_init(c) PROVE TwiceInv'
  BY <1>1, <1>3, StartedTwice
<1>4. ASSUME NEW offset, Profile!Sample(offset) PROVE TwiceInv'
  <2>1. alarmList' = alarmList /\ hung' = (alarmList["alarm"] = "alarm")
    BY <1>4 DEF Profile!Sample
  <2> QED BY <1>1, <2>1 DEF TwiceInv
<1>5. ASSUME NEW c,
             \/ \E a \in Arcs : Profile!Enter(c, a)
             \/ Profile!WalkArcs(c) \/ Profile!LoadCount(c) \/ Profile!StoreCount(c)
             \/ Profile!RecordFunction(c) \/ Profile!RecordArc(c)
             \/ Profile!TestSampler(c) \/ Profile!ClearFlag(c)
      PROVE  UNCHANGED <<alarmList, hung>>
  BY <1>5 DEF Profile!Enter, Profile!WalkArcs, Profile!LoadCount, Profile!StoreCount,
    Profile!RecordFunction, Profile!RecordArc, Profile!TestSampler, Profile!ClearFlag,
    Profile!sampler
<1>6. ASSUME NEW incr, NEW sp, Profile!Malloc(incr, sp) PROVE UNCHANGED <<alarmList, hung>>
  BY <1>6 DEF Profile!Malloc, Profile!sampler
<1>7. CASE Profile!SysclkInit \/ UNCHANGED profile
  <2>1. UNCHANGED <<alarmList, hung>> BY <1>7 DEF Profile!SysclkInit, profile
  <2> QED BY <1>2, <2>1
<1> QED BY <1>2, <1>3, <1>4, <1>5, <1>6, <1>7 DEF Profile!Next

\* The calls of arc a that entry f of the call graph counts, and those that a list of entries does.
Weight(f, a) ==
  IF f.self # a.self THEN 0
  ELSE Total([j \in 1 .. Len(f.arcs) |-> IF f.arcs[j].from = a.from THEN f.arcs[j].count ELSE 0])
Weighed(F, a) == Total([i \in 1 .. Len(F) |-> Weight(F[i], a)])

Callers == [from : {a.from : a \in Arcs}, count : Nat]
Functions == [self : {a.self : a \in Arcs}, arcs : Seq(Callers)]

LEMMA CountedWeighs == \A a : Profile!Counted(a) = Weighed(fns, a)
BY DEF Profile!Counted, Weighed, Weight, Total

LEMMA Appended ==
  ASSUME NEW s \in Seq(Int), NEW v \in Int
  PROVE  Append(s, v) = [j \in 1 .. (Len(s) + 1) |-> IF j \in 1 .. Len(s) THEN s[j] ELSE v]
<1> DEFINE u == Append(s, v)
           n == Len(s)
<1>1. /\ u \in Seq(Int) /\ n \in Nat /\ Len(u) = n + 1 /\ u[n + 1] = v
      /\ \A j \in 1 .. n : u[j] = s[j]
  OBVIOUS
<1> HIDE DEF u, n
<1>2. u = [j \in 1 .. (n + 1) |-> u[j]] BY <1>1
<1>3. \A j \in 1 .. (n + 1) : u[j] = IF j \in 1 .. n THEN s[j] ELSE v BY <1>1
<1>4. [j \in 1 .. (n + 1) |-> u[j]]
      = [j \in 1 .. (n + 1) |-> IF j \in 1 .. n THEN s[j] ELSE v]
  BY <1>3, Zenon
<1> QED BY <1>2, <1>4, Zenon DEF u, n

LEMMA WeightIsInt ==
  ASSUME NEW f \in Functions, NEW a
  PROVE  Weight(f, a) \in Int
<1> DEFINE s == [j \in 1 .. Len(f.arcs) |->
                   IF f.arcs[j].from = a.from THEN f.arcs[j].count ELSE 0]
<1>1. f.arcs \in Seq(Callers) BY DEF Functions
<1>2. Len(f.arcs) \in Nat /\ \A j \in 1 .. Len(f.arcs) : f.arcs[j].count \in Int
  <2>1. \A j \in 1 .. Len(f.arcs) : f.arcs[j] \in Callers BY <1>1
  <2> QED BY <1>1, <2>1 DEF Callers
<1>3. s \in Seq(Int)
  <2>1. \A j \in 1 .. Len(f.arcs) :
          (IF f.arcs[j].from = a.from THEN f.arcs[j].count ELSE 0) \in Int
    BY <1>2
  <2> QED BY <1>2, <2>1
<1> HIDE DEF s
<1>4. Total(s) \in Int BY <1>3, TotalAppended
<1> QED BY <1>4 DEF Weight, s

\* An arc that is appended counts the call that is recorded.
LEMMA WeightOfArc ==
  ASSUME NEW f \in Functions, NEW g \in Functions, NEW a, NEW r \in Callers,
         g.self = f.self, g.arcs = Append(f.arcs, r)
  PROVE  Weight(g, a) = Weight(f, a)
                        + (IF f.self = a.self /\ r.from = a.from THEN r.count ELSE 0)
<1> DEFINE n == Len(f.arcs)
           s == [j \in 1 .. n |-> IF f.arcs[j].from = a.from THEN f.arcs[j].count ELSE 0]
           t == [j \in 1 .. Len(g.arcs) |->
                   IF g.arcs[j].from = a.from THEN g.arcs[j].count ELSE 0]
           v == IF r.from = a.from THEN r.count ELSE 0
<1>1. f.arcs \in Seq(Callers) /\ r.count \in Int BY DEF Functions, Callers
<1>2. /\ n \in Nat /\ Len(g.arcs) = n + 1 /\ g.arcs[n + 1] = r
      /\ \A j \in 1 .. n : g.arcs[j] = f.arcs[j] /\ f.arcs[j].count \in Int
  <2>1. \A j \in 1 .. n : f.arcs[j] \in Callers BY <1>1
  <2>2. \A j \in 1 .. n : f.arcs[j].count \in Int BY <2>1 DEF Callers
  <2> QED BY <1>1, <2>2
<1>3. s \in Seq(Int) /\ Len(s) = n
  <2>1. \A j \in 1 .. n : (IF f.arcs[j].from = a.from THEN f.arcs[j].count ELSE 0) \in Int
    BY <1>2
  <2> HIDE DEF n
  <2> QED BY <1>2, <2>1
<1>4. v \in Int BY <1>1
<1>5. t = Append(s, v)
  <2>1. \A j \in 1 .. n : t[j] = s[j] /\ j \in 1 .. Len(g.arcs) BY <1>2
  <2>2. t[n + 1] = v BY <1>2
  <2>3. DOMAIN t = 1 .. (n + 1) /\ t = [j \in 1 .. (n + 1) |-> t[j]] BY <1>2
  <2> HIDE DEF s, t, v, n
  <2>4. Append(s, v) = [j \in 1 .. (n + 1) |-> IF j \in 1 .. n THEN s[j] ELSE v]
    BY <1>2, <1>3, <1>4, Appended
  <2>5. \A j \in 1 .. (n + 1) : t[j] = IF j \in 1 .. n THEN s[j] ELSE v BY <1>2, <2>1, <2>2
  <2>6. [j \in 1 .. (n + 1) |-> t[j]] = [j \in 1 .. (n + 1) |-> IF j \in 1 .. n THEN s[j] ELSE v]
    BY <2>5, Zenon
  <2> QED BY <2>3, <2>4, <2>6, Zenon
<1> HIDE DEF s, t, v
<1>6. Total(s) \in Int /\ Total(t) = Total(s) + v BY <1>3, <1>4, <1>5, TotalAppended
<1>7. Weight(f, a) = IF f.self # a.self THEN 0 ELSE Total(s) BY DEF Weight, s
<1>8. Weight(g, a) = IF f.self # a.self THEN 0 ELSE Total(t) BY DEF Weight, t
<1> QED BY <1>4, <1>6, <1>7, <1>8 DEF v

\* So does a count that is stored.
LEMMA WeightOfCount ==
  ASSUME NEW f \in Functions, NEW g \in Functions, NEW a, NEW k \in 1 .. Len(f.arcs),
         g.self = f.self, Len(g.arcs) = Len(f.arcs), g.arcs[k].from = f.arcs[k].from,
         \A j \in 1 .. Len(f.arcs) : j # k => g.arcs[j] = f.arcs[j]
  PROVE  Weight(g, a) = Weight(f, a)
                        + (IF f.self = a.self /\ f.arcs[k].from = a.from
                           THEN g.arcs[k].count - f.arcs[k].count ELSE 0)
<1> DEFINE n == Len(f.arcs)
           s == [j \in 1 .. n |-> IF f.arcs[j].from = a.from THEN f.arcs[j].count ELSE 0]
           t == [j \in 1 .. Len(g.arcs) |->
                   IF g.arcs[j].from = a.from THEN g.arcs[j].count ELSE 0]
<1>1. f.arcs \in Seq(Callers) /\ g.arcs \in Seq(Callers) BY DEF Functions
<1>2. /\ n \in Nat /\ Len(g.arcs) = n /\ k \in 1 .. n
      /\ \A j \in 1 .. n : g.arcs[j].count \in Int /\ f.arcs[j].count \in Int
  <2>1. \A j \in 1 .. n : f.arcs[j] \in Callers /\ g.arcs[j] \in Callers BY <1>1
  <2>2. \A arcOf \in Callers : arcOf.count \in Int BY DEF Callers
  <2>3. n \in Nat /\ Len(g.arcs) = n /\ k \in 1 .. n BY <1>1
  <2> QED BY <2>1, <2>2, <2>3, Zenon
<1>3. s \in Seq(Int) /\ Len(s) = n
  <2>1. \A j \in 1 .. n : (IF f.arcs[j].from = a.from THEN f.arcs[j].count ELSE 0) \in Int
    BY <1>2
  <2> HIDE DEF n
  <2> QED BY <1>2, <2>1
<1>4. t \in Seq(Int) /\ Len(t) = n
  <2>1. \A j \in 1 .. n : (IF g.arcs[j].from = a.from THEN g.arcs[j].count ELSE 0) \in Int
    BY <1>2
  <2> HIDE DEF n
  <2> QED BY <1>2, <2>1
<1>5. \A j \in 1 .. n : j # k => t[j] = s[j] BY <1>2
<1>6. /\ s[k] = IF f.arcs[k].from = a.from THEN f.arcs[k].count ELSE 0
      /\ t[k] = IF f.arcs[k].from = a.from THEN g.arcs[k].count ELSE 0
  BY <1>2
<1>7. f.arcs[k].count \in Int /\ g.arcs[k].count \in Int BY <1>2
<1> HIDE DEF s, t, n
<1>8. Total(t) \in Int /\ Total(s) \in Int /\ Total(t) = Total(s) + (t[k] - s[k])
  <2>1. OneDiffers(s, t, k) BY <1>2, <1>3, <1>4, <1>5 DEF OneDiffers
  <2> QED BY <2>1, TotalChanged
<1>9. Total(t) = Total(s) + (IF f.arcs[k].from = a.from
                             THEN g.arcs[k].count - f.arcs[k].count ELSE 0)
  BY <1>6, <1>7, <1>8
<1> QED BY <1>9 DEF Weight, s, t, n

\* Entries weigh what they weighed when one is appended that counts nothing yet.
LEMMA WeighedNew ==
  ASSUME NEW F \in Seq(Functions), NEW f \in Functions, NEW a, f.arcs = <<>>
  PROVE  Weighed(Append(F, f), a) = Weighed(F, a)
<1> DEFINE n == Len(F)
           s == [i \in 1 .. n |-> Weight(F[i], a)]
           t == [i \in 1 .. Len(Append(F, f)) |-> Weight(Append(F, f)[i], a)]
<1>1. Weight(f, a) = 0
  <2>1. [j \in 1 .. Len(f.arcs) |->
           IF f.arcs[j].from = a.from THEN f.arcs[j].count ELSE 0] = <<>>
    OBVIOUS
  <2> QED BY <2>1, TotalEmpty DEF Weight
<1>2. /\ n \in Nat /\ Len(Append(F, f)) = n + 1 /\ Append(F, f)[n + 1] = f
      /\ \A i \in 1 .. n : Append(F, f)[i] = F[i] /\ Weight(F[i], a) \in Int
  <2>1. \A i \in 1 .. n : F[i] \in Functions OBVIOUS
  <2> QED BY <2>1, WeightIsInt
<1>3. s \in Seq(Int) /\ Len(s) = n
  <2> HIDE DEF n
  <2> QED BY <1>2
<1>4. t = Append(s, 0)
  <2>1. \A i \in 1 .. n : t[i] = s[i] /\ i \in 1 .. Len(Append(F, f)) BY <1>2
  <2>2. t[n + 1] = 0 BY <1>1, <1>2
  <2>3. t = [i \in 1 .. (n + 1) |-> t[i]] BY <1>2
  <2> HIDE DEF s, t, n
  <2>4. Append(s, 0) = [i \in 1 .. (n + 1) |-> IF i \in 1 .. n THEN s[i] ELSE 0]
    BY <1>2, <1>3, Appended
  <2>5. \A i \in 1 .. (n + 1) : t[i] = IF i \in 1 .. n THEN s[i] ELSE 0 BY <1>2, <2>1, <2>2
  <2>6. [i \in 1 .. (n + 1) |-> t[i]] = [i \in 1 .. (n + 1) |-> IF i \in 1 .. n THEN s[i] ELSE 0]
    BY <2>5, Zenon
  <2> QED BY <2>3, <2>4, <2>6, Zenon
<1> HIDE DEF s, t
<1>5. Total(t) = Total(s) BY <1>3, <1>4, TotalAppended
<1> QED BY <1>5 DEF Weighed, s, t

\* Where one entry changes they weigh that much more.
LEMMA WeighedChanged ==
  ASSUME NEW F \in Seq(Functions), NEW G \in Seq(Functions), NEW a, NEW k \in 1 .. Len(F),
         Len(G) = Len(F), \A i \in 1 .. Len(F) : i # k => G[i] = F[i]
  PROVE  /\ Weighed(F, a) \in Int /\ Weighed(G, a) \in Int
         /\ Weighed(G, a) = Weighed(F, a) + (Weight(G[k], a) - Weight(F[k], a))
<1> DEFINE n == Len(F)
           s == [i \in 1 .. n |-> Weight(F[i], a)]
           t == [i \in 1 .. Len(G) |-> Weight(G[i], a)]
<1>1. /\ n \in Nat /\ Len(G) = n /\ k \in 1 .. n
      /\ \A i \in 1 .. n : Weight(F[i], a) \in Int /\ Weight(G[i], a) \in Int
  <2>1. \A i \in 1 .. n : F[i] \in Functions /\ G[i] \in Functions OBVIOUS
  <2> QED BY <2>1, WeightIsInt
<1>2. s \in Seq(Int) /\ Len(s) = n
  <2> HIDE DEF n
  <2> QED BY <1>1
<1>3. t \in Seq(Int) /\ Len(t) = n
  <2> HIDE DEF n
  <2> QED BY <1>1
<1>4. \A i \in 1 .. n : i # k => t[i] = s[i] BY <1>1
<1>5. s[k] = Weight(F[k], a) /\ t[k] = Weight(G[k], a) BY <1>1
<1> HIDE DEF s, t, n
<1>6. Total(t) \in Int /\ Total(s) \in Int /\ Total(t) = Total(s) + (t[k] - s[k])
  <2>1. OneDiffers(s, t, k) BY <1>1, <1>2, <1>3, <1>4 DEF OneDiffers
  <2> QED BY <2>1, TotalChanged
<1> QED BY <1>5, <1>6 DEF Weighed, s, t, n

LEMMA WeighedIsInt ==
  ASSUME NEW F \in Seq(Functions), NEW a
  PROVE  Weighed(F, a) \in Int
<1> DEFINE s == [i \in 1 .. Len(F) |-> Weight(F[i], a)]
<1>1. \A i \in 1 .. Len(F) : Weight(F[i], a) \in Int BY WeightIsInt
<1>2. s \in Seq(Int) BY <1>1
<1> HIDE DEF s
<1>3. Total(s) \in Int BY <1>2, TotalAppended
<1> QED BY <1>3 DEF Weighed, s

\* What the arc found by context c counts by now.
Counts(c) == fns[fn[c]].arcs[arc[c]].count

\* What context c has found is there, of the call it is in. The program may have loaded a count
\* that a handler has raised since; a handler's is what it was.
McountInv(c) ==
  mcountPc[c] # "idle" =>
    /\ calling[c] \in Arcs
    /\ fn[c] # 0 => fn[c] \in 1 .. Len(fns) /\ fns[fn[c]].self = calling[c].self
    /\ mcountPc[c] \in {"arcs", "load", "store", "arc"} => fn[c] # 0
    /\ mcountPc[c] \in {"load", "store"} =>
         arc[c] \in 1 .. Len(fns[fn[c]].arcs) /\ fns[fn[c]].arcs[arc[c]].from = calling[c].from
    /\ mcountPc[c] = "store" =>
         count[c] \in Nat /\ count[c] <= Counts(c) /\ (c = "handler" => count[c] = Counts(c))

\* The calls that will be stored over when the program stores its count.
Stale == IF mcountPc["program"] = "store" THEN Counts("program") - count["program"] ELSE 0

WalkInv ==
  /\ fns \in Seq(Functions)
  /\ DOMAIN mcountPc = Profile!Contexts /\ DOMAIN calling = Profile!Contexts
  /\ DOMAIN fn = Profile!Contexts /\ DOMAIN arc = Profile!Contexts
  /\ DOMAIN count = Profile!Contexts
  /\ \A c \in Profile!Contexts : McountInv(c)

\* Of every arc the calls not counted, and those that will not be, were missed.
AccountInv ==
  /\ recorded \in [Arcs -> Nat] /\ missed \in Nat
  /\ \A a \in Arcs :
       /\ Weighed(fns, a) <= recorded[a]
       /\ recorded[a] - Weighed(fns, a) + (IF a = calling["program"] THEN Stale ELSE 0) <= missed

GraphInv == WalkInv /\ AccountInv

LEMMA GraphInit == Profile!Init => GraphInv
<1> SUFFICES ASSUME Profile!Init PROVE GraphInv OBVIOUS
<1>1. WalkInv BY DEF Profile!Init, Profile!Each, WalkInv, McountInv
<1>2. ASSUME NEW a PROVE Weighed(fns, a) = 0
  <2>1. [i \in 1 .. Len(fns) |-> Weight(fns[i], a)] = <<>> BY DEF Profile!Init
  <2> QED BY <2>1, TotalEmpty DEF Weighed
<1>3. Stale = 0 BY DEF Stale, Profile!Init, Profile!Each, Profile!Contexts
<1>4. AccountInv BY <1>2, <1>3 DEF AccountInv, Profile!Init
<1> QED BY <1>1, <1>4 DEF GraphInv

\* The newest of what is searched is one of it, or none.
LEMMA NewestIsOne ==
  ASSUME NEW n \in Nat, NEW S, S \subseteq 1 .. n
  PROVE  Profile!Newest(S) \in S \cup {0}
<1> DEFINE A == S \cup {0}
           T == {n - x : x \in A}
<1>1. A \subseteq 0 .. n /\ 0 \in A OBVIOUS
<1> HIDE DEF A
<1>2. T \subseteq Nat /\ T # {} BY <1>1
<1> HIDE DEF T
<1>3. PICK m \in T : \A k \in T : m <= k BY <1>2, Least
<1>4. PICK x \in A : m = n - x BY <1>3 DEF T
<1>5. \A y \in A : x >= y
  <2>1. ASSUME NEW y \in A PROVE x >= y
    <3>1. n - y \in T BY DEF T
    <3>2. n - x <= n - y BY <1>3, <1>4, <3>1
    <3>3. x \in Int /\ y \in Int BY <1>1
    <3> QED BY <3>2, <3>3
  <2> QED BY <2>1
<1>6. \E z \in A : \A y \in A : z >= y BY <1>5
<1>7. Profile!Newest(S) = CHOOSE z \in A : \A y \in A : z >= y
  BY DEF Profile!Newest, Profile!Max, A
<1>8. Profile!Newest(S) \in A BY <1>6, <1>7
<1> QED BY <1>8 DEF A

\* Calls that are the same function's from the same place are the same.
LEMMA SameCall ==
  ASSUME NEW a \in Arcs, NEW b \in Arcs
  PROVE  a = b <=> a.self = b.self /\ a.from = b.from
BY ProfileAssumption

LEMMA OwnTerms ==
  ASSUME NEW a \in Arcs
  PROVE  /\ \A n \in Nat : [from |-> a.from, count |-> n] \in Callers
         /\ [self |-> a.self, arcs |-> <<>>] \in Functions
BY DEF Callers, Functions

\* A step of context c that leaves the call graph and the records as they are.
LEMMA QuietKept ==
  ASSUME GraphInv, NEW c \in Profile!Contexts, UNCHANGED <<fns, recorded, missed>>,
         /\ DOMAIN mcountPc' = Profile!Contexts /\ DOMAIN calling' = Profile!Contexts
         /\ DOMAIN fn' = Profile!Contexts /\ DOMAIN arc' = Profile!Contexts
         /\ DOMAIN count' = Profile!Contexts,
         \A d \in Profile!Contexts : d # c =>
           /\ mcountPc'[d] = mcountPc[d] /\ calling'[d] = calling[d] /\ fn'[d] = fn[d]
           /\ arc'[d] = arc[d] /\ count'[d] = count[d],
         McountInv(c)', mcountPc[c] # "store",
         mcountPc'[c] = "store" => count'[c] = Counts(c)' /\ count'[c] \in Nat
  PROVE  GraphInv'
<1>1. \A d \in Profile!Contexts : d # c => Counts(d)' = Counts(d) BY DEF Counts
<1>2. \A d \in Profile!Contexts : McountInv(d)'
  <2>1. ASSUME NEW d \in Profile!Contexts, d # c PROVE McountInv(d)'
    BY <1>1, <2>1 DEF GraphInv, WalkInv, McountInv
  <2> QED BY <2>1
<1>3. WalkInv' BY <1>2 DEF GraphInv, WalkInv
<1>4. \/ Stale = 0 /\ Stale' = 0
      \/ Stale' = Stale /\ calling'["program"] = calling["program"]
  <2>1. CASE c = "program" BY <2>1 DEF Stale
  <2>2. CASE c # "program" BY <1>1, <2>2 DEF Stale, Profile!Contexts
  <2> QED BY <2>1, <2>2
<1>5. AccountInv'
  <2>1. \A a : (IF a = calling["program"] THEN Stale ELSE 0)
               = (IF a = calling'["program"] THEN Stale' ELSE 0)
    BY <1>4
  <2> QED BY <2>1 DEF GraphInv, AccountInv
<1> QED BY <1>3, <1>5 DEF GraphInv

LEMMA EnteredInv ==
  ASSUME GraphInv, NEW c \in Profile!Contexts, NEW a \in Arcs, Profile!Enter(c, a)
  PROVE  GraphInv'
<1>1. UNCHANGED <<fns, arc, count, recorded, missed>> /\ mcountPc[c] = "idle"
  <2>1. Profile!Steps(c, "idle") BY DEF Profile!Enter
  <2>2. UNCHANGED <<fns, arc, count, Profile!history>> BY DEF Profile!Enter
  <2> QED BY <2>1, <2>2 DEF Profile!Steps, Profile!history
<1>2. /\ mcountPc' = [mcountPc EXCEPT ![c] = IF fn'[c] = 0 THEN "start" ELSE "arcs"]
      /\ calling' = [calling EXCEPT ![c] = a]
      /\ fn' = [fn EXCEPT ![c] = Profile!FindFunction(a.self, Len(fns))]
  BY DEF Profile!Enter, Profile!GoTo
<1>3. Profile!FindFunction(a.self, Len(fns)) = 0
      \/ /\ Profile!FindFunction(a.self, Len(fns)) \in 1 .. Len(fns)
         /\ fns[Profile!FindFunction(a.self, Len(fns))].self = a.self
  <2> DEFINE S == {i \in 1 .. Len(fns) : fns[i].self = a.self}
  <2>1. Len(fns) \in Nat /\ S \subseteq 1 .. Len(fns) BY DEF GraphInv, WalkInv
  <2>2. Profile!Newest(S) \in S \cup {0}
    <3> HIDE DEF S
    <3> QED BY <2>1, NewestIsOne
  <2> QED BY <2>2 DEF Profile!FindFunction
<1> DEFINE f == Profile!FindFunction(a.self, Len(fns))
<1> HIDE DEF f
<1>4. /\ mcountPc'[c] = (IF f = 0 THEN "start" ELSE "arcs") /\ calling'[c] = a /\ fn'[c] = f
  BY <1>2 DEF GraphInv, WalkInv, f
<1>5. McountInv(c)' BY <1>1, <1>3, <1>4 DEF McountInv, f
<1>6. /\ DOMAIN mcountPc' = Profile!Contexts /\ DOMAIN calling' = Profile!Contexts
      /\ DOMAIN fn' = Profile!Contexts /\ DOMAIN arc' = Profile!Contexts
      /\ DOMAIN count' = Profile!Contexts
  BY <1>1, <1>2 DEF GraphInv, WalkInv
<1>7. \A d \in Profile!Contexts : d # c =>
        /\ mcountPc'[d] = mcountPc[d] /\ calling'[d] = calling[d] /\ fn'[d] = fn[d]
        /\ arc'[d] = arc[d] /\ count'[d] = count[d]
  BY <1>1, <1>2 DEF GraphInv, WalkInv
<1>8. mcountPc[c] # "store" /\ mcountPc'[c] # "store" BY <1>1, <1>4
<1> QED BY <1>1, <1>5, <1>6, <1>7, <1>8, QuietKept

LEMMA WalkArcsInv ==
  ASSUME GraphInv, NEW c \in Profile!Contexts, Profile!WalkArcs(c)
  PROVE  GraphInv'
<1>1. UNCHANGED <<fns, calling, fn, count, recorded, missed>> /\ mcountPc[c] = "arcs"
  BY DEF Profile!WalkArcs, Profile!Steps, Profile!history
<1> DEFINE j == Profile!FindArc(fn[c], calling[c].from)
<1>2. /\ mcountPc' = [mcountPc EXCEPT ![c] = IF arc'[c] = 0 THEN "start" ELSE "load"]
      /\ arc' = [arc EXCEPT ![c] = j]
  BY DEF Profile!WalkArcs, Profile!GoTo
<1>3. /\ calling[c] \in Arcs /\ fn[c] # 0 /\ fn[c] \in 1 .. Len(fns)
      /\ fns[fn[c]].self = calling[c].self
  BY <1>1 DEF GraphInv, WalkInv, McountInv
<1>4. j # 0 => j \in 1 .. Len(fns[fn[c]].arcs) /\ fns[fn[c]].arcs[j].from = calling[c].from
  <2> DEFINE D == DOMAIN fns[fn[c]].arcs
             S == {k \in D : fns[fn[c]].arcs[k].from = calling[c].from}
  <2>1. Len(fns[fn[c]].arcs) \in Nat /\ D = 1 .. Len(fns[fn[c]].arcs)
    BY <1>3 DEF GraphInv, WalkInv, Functions
  <2>2. S \subseteq 1 .. Len(fns[fn[c]].arcs) BY <2>1
  <2>3. Profile!Newest(S) \in S \cup {0}
    <3> HIDE DEF S
    <3> QED BY <2>1, <2>2, NewestIsOne
  <2>4. j = Profile!Newest(S) BY DEF Profile!FindArc
  <2>5. j # 0 => j \in D /\ fns[fn[c]].arcs[j].from = calling[c].from
    <3> HIDE DEF D, j
    <3> QED BY <2>3, <2>4, Zenon
  <2> HIDE DEF D, j
  <2> QED BY <2>1, <2>5
<1> HIDE DEF j
<1>5. arc'[c] = j /\ mcountPc'[c] = (IF j = 0 THEN "start" ELSE "load")
  BY <1>2 DEF GraphInv, WalkInv
<1>6. McountInv(c)' BY <1>1, <1>3, <1>4, <1>5 DEF McountInv
<1>7. /\ DOMAIN mcountPc' = Profile!Contexts /\ DOMAIN calling' = Profile!Contexts
      /\ DOMAIN fn' = Profile!Contexts /\ DOMAIN arc' = Profile!Contexts
      /\ DOMAIN count' = Profile!Contexts
  BY <1>1, <1>2 DEF GraphInv, WalkInv
<1>8. \A d \in Profile!Contexts : d # c =>
        /\ mcountPc'[d] = mcountPc[d] /\ calling'[d] = calling[d] /\ fn'[d] = fn[d]
        /\ arc'[d] = arc[d] /\ count'[d] = count[d]
  BY <1>1, <1>2 DEF GraphInv, WalkInv
<1>9. mcountPc[c] # "store" /\ mcountPc'[c] # "store" BY <1>1, <1>5
<1> QED BY <1>1, <1>6, <1>7, <1>8, <1>9, QuietKept

LEMMA LoadCountInv ==
  ASSUME GraphInv, NEW c \in Profile!Contexts, Profile!LoadCount(c)
  PROVE  GraphInv'
<1>1. UNCHANGED <<fns, calling, fn, arc, recorded, missed>> /\ mcountPc[c] = "load"
  BY DEF Profile!LoadCount, Profile!Steps, Profile!history
<1>2. /\ mcountPc' = [mcountPc EXCEPT ![c] = "store"] /\ count' = [count EXCEPT ![c] = Counts(c)]
  BY DEF Profile!LoadCount, Profile!GoTo, Counts
<1>3. mcountPc'[c] = "store" /\ count'[c] = Counts(c) /\ Counts(c)' = Counts(c)
  BY <1>1, <1>2 DEF GraphInv, WalkInv, Counts
<1>4. /\ calling[c] \in Arcs /\ fn[c] # 0 /\ fn[c] \in 1 .. Len(fns)
      /\ fns[fn[c]].self = calling[c].self
      /\ arc[c] \in 1 .. Len(fns[fn[c]].arcs) /\ fns[fn[c]].arcs[arc[c]].from = calling[c].from
  BY <1>1 DEF GraphInv, WalkInv, McountInv
<1>5. Counts(c) \in Nat
  <2>1. fns[fn[c]] \in Functions BY <1>4 DEF GraphInv, WalkInv
  <2>2. fns[fn[c]].arcs \in Seq(Callers) BY <2>1 DEF Functions
  <2>3. fns[fn[c]].arcs[arc[c]] \in Callers BY <1>4, <2>2
  <2> QED BY <2>3 DEF Counts, Callers
<1>6. McountInv(c)' BY <1>1, <1>3, <1>4, <1>5 DEF McountInv
<1>7. /\ DOMAIN mcountPc' = Profile!Contexts /\ DOMAIN calling' = Profile!Contexts
      /\ DOMAIN fn' = Profile!Contexts /\ DOMAIN arc' = Profile!Contexts
      /\ DOMAIN count' = Profile!Contexts
  BY <1>1, <1>2 DEF GraphInv, WalkInv
<1>8. \A d \in Profile!Contexts : d # c =>
        /\ mcountPc'[d] = mcountPc[d] /\ calling'[d] = calling[d] /\ fn'[d] = fn[d]
        /\ arc'[d] = arc[d] /\ count'[d] = count[d]
  BY <1>1, <1>2 DEF GraphInv, WalkInv
<1>9. mcountPc[c] # "store" /\ count'[c] = Counts(c)' /\ count'[c] \in Nat BY <1>1, <1>3, <1>5
<1> QED BY <1>1, <1>6, <1>7, <1>8, <1>9, QuietKept

\* A step on the way to an update with interrupts off.
LEMMA SamplerSteps ==
  ASSUME GraphInv, NEW c \in Profile!Contexts,
         Profile!TestSampler(c) \/ Profile!ClearFlag(c) \/ Profile!niosv_pcsample_init(c)
  PROVE  GraphInv'
<1>1. /\ UNCHANGED <<fns, calling, fn, arc, count, recorded, missed>>
      /\ mcountPc[c] \in {"start", "clear", "init"}
  BY DEF Profile!TestSampler, Profile!ClearFlag, Profile!niosv_pcsample_init, Profile!Steps,
    Profile!history
<1>2. \E to \in {"clear", "init", "record"} : mcountPc' = [mcountPc EXCEPT ![c] = to]
  BY DEF Profile!TestSampler, Profile!ClearFlag, Profile!niosv_pcsample_init, Profile!GoTo
<1>3. mcountPc'[c] \in {"clear", "init", "record"} BY <1>2 DEF GraphInv, WalkInv
<1>4. McountInv(c)' BY <1>1, <1>3 DEF GraphInv, WalkInv, McountInv
<1>5. /\ DOMAIN mcountPc' = Profile!Contexts /\ DOMAIN calling' = Profile!Contexts
      /\ DOMAIN fn' = Profile!Contexts /\ DOMAIN arc' = Profile!Contexts
      /\ DOMAIN count' = Profile!Contexts
  BY <1>1, <1>2 DEF GraphInv, WalkInv
<1>6. \A d \in Profile!Contexts : d # c =>
        /\ mcountPc'[d] = mcountPc[d] /\ calling'[d] = calling[d] /\ fn'[d] = fn[d]
        /\ arc'[d] = arc[d] /\ count'[d] = count[d]
  BY <1>1, <1>2 DEF GraphInv, WalkInv
<1>7. mcountPc[c] # "store" /\ mcountPc'[c] # "store" BY <1>1, <1>3
<1> QED BY <1>1, <1>4, <1>5, <1>6, <1>7, QuietKept

\* The program has found what it found when the call graph has grown meanwhile.
LEMMA FoundKept ==
  ASSUME GraphInv,
         /\ mcountPc'["program"] = mcountPc["program"] /\ calling'["program"] = calling["program"]
         /\ fn'["program"] = fn["program"] /\ arc'["program"] = arc["program"]
         /\ count'["program"] = count["program"],
         \A i \in 1 .. Len(fns) :
           /\ i \in 1 .. Len(fns') /\ fns'[i].self = fns[i].self
           /\ \A j \in 1 .. Len(fns[i].arcs) :
                /\ j \in 1 .. Len(fns'[i].arcs) /\ fns'[i].arcs[j].from = fns[i].arcs[j].from
                /\ fns[i].arcs[j].count <= fns'[i].arcs[j].count
                /\ fns'[i].arcs[j].count \in Nat /\ fns[i].arcs[j].count \in Nat
  PROVE  McountInv("program")'
<1> DEFINE c == "program"
<1>1. McountInv(c) BY DEF GraphInv, WalkInv, Profile!Contexts
<1>2. CASE mcountPc[c] = "idle" BY <1>2 DEF McountInv
<1>3. CASE mcountPc[c] # "idle"
  <2>1. /\ calling[c] \in Arcs
        /\ fn[c] # 0 => fn[c] \in 1 .. Len(fns') /\ fns'[fn[c]].self = calling[c].self
        /\ mcountPc[c] \in {"arcs", "load", "store", "arc"} => fn[c] # 0
    BY <1>1, <1>3 DEF McountInv
  <2>2. ASSUME mcountPc[c] \in {"load", "store"}
        PROVE  /\ arc[c] \in 1 .. Len(fns'[fn[c]].arcs)
               /\ fns'[fn[c]].arcs[arc[c]].from = calling[c].from
               /\ Counts(c) <= Counts(c)' /\ Counts(c) \in Nat /\ Counts(c)' \in Nat
    <3>1. fn[c] \in 1 .. Len(fns) /\ arc[c] \in 1 .. Len(fns[fn[c]].arcs)
          /\ fns[fn[c]].arcs[arc[c]].from = calling[c].from
      BY <1>1, <1>3, <2>2 DEF McountInv
    <3> QED BY <3>1 DEF Counts
  <2>3. mcountPc[c] = "store" => count[c] \in Nat /\ count[c] <= Counts(c)
    BY <1>1, <1>3 DEF McountInv
  <2>4. mcountPc[c] = "store" => count[c] \in Nat /\ count[c] <= Counts(c)'
    BY <2>2, <2>3
  <2> QED BY <2>1, <2>2, <2>4 DEF McountInv
<1> QED BY <1>2, <1>3

\* What the entries are made of.
LEMMA GraphParts ==
  ASSUME NEW F \in Seq(Functions)
  PROVE  /\ Len(F) \in Nat
         /\ \A i \in 1 .. Len(F) :
              /\ F[i] \in Functions /\ F[i].arcs \in Seq(Callers) /\ Len(F[i].arcs) \in Nat
              /\ \A j \in 1 .. Len(F[i].arcs) :
                   F[i].arcs[j] \in Callers /\ F[i].arcs[j].count \in Nat
<1>1. ASSUME NEW i \in 1 .. Len(F)
      PROVE  /\ F[i] \in Functions /\ F[i].arcs \in Seq(Callers) /\ Len(F[i].arcs) \in Nat
             /\ \A j \in 1 .. Len(F[i].arcs) :
                  F[i].arcs[j] \in Callers /\ F[i].arcs[j].count \in Nat
  <2>1. F[i] \in Functions OBVIOUS
  <2>2. F[i].arcs \in Seq(Callers) BY <2>1 DEF Functions
  <2>3. \A j \in 1 .. Len(F[i].arcs) : F[i].arcs[j] \in Callers BY <2>2
  <2>4. \A j \in 1 .. Len(F[i].arcs) : F[i].arcs[j].count \in Nat BY <2>3 DEF Callers
  <2> QED BY <2>1, <2>2, <2>3, <2>4
<1> QED BY <1>1

LEMMA RecordFunctionInv ==
  ASSUME GraphInv, NEW c \in Profile!Contexts, Profile!RecordFunction(c)
  PROVE  GraphInv'
<1>1. /\ UNCHANGED <<calling, arc, count, recorded, missed>> /\ mcountPc[c] = "record"
      /\ mcountPc' = [mcountPc EXCEPT ![c] = "arc"]
      /\ c = "program" => mcountPc["handler"] = "idle"
  BY DEF Profile!RecordFunction, Profile!Steps, Profile!GoTo, Profile!history
<1>2. mcountPc'[c] = "arc" /\ \A d \in Profile!Contexts : d # c => mcountPc'[d] = mcountPc[d]
  BY <1>1 DEF GraphInv, WalkInv
<1>3. /\ calling[c] \in Arcs
      /\ fn[c] # 0 => fn[c] \in 1 .. Len(fns) /\ fns[fn[c]].self = calling[c].self
  BY <1>1 DEF GraphInv, WalkInv, McountInv
<1>4. CASE fn[c] # 0
  <2>1. UNCHANGED <<fns, fn>> BY <1>4 DEF Profile!RecordFunction
  <2>2. McountInv(c)' BY <1>1, <1>2, <1>3, <1>4, <2>1 DEF McountInv
  <2>3. /\ DOMAIN mcountPc' = Profile!Contexts /\ DOMAIN calling' = Profile!Contexts
        /\ DOMAIN fn' = Profile!Contexts /\ DOMAIN arc' = Profile!Contexts
        /\ DOMAIN count' = Profile!Contexts
    BY <1>1, <2>1 DEF GraphInv, WalkInv
  <2>4. \A d \in Profile!Contexts : d # c =>
          /\ mcountPc'[d] = mcountPc[d] /\ calling'[d] = calling[d] /\ fn'[d] = fn[d]
          /\ arc'[d] = arc[d] /\ count'[d] = count[d]
    BY <1>1, <1>2, <2>1
  <2>5. mcountPc[c] # "store" /\ mcountPc'[c] # "store" BY <1>1, <1>2
  <2> QED BY <1>1, <2>1, <2>2, <2>3, <2>4, <2>5, QuietKept
<1>5. CASE fn[c] = 0
  <2> DEFINE f == [self |-> calling[c].self, arcs |-> <<>>]
             n == Len(fns)
  <2>1. fns' = Append(fns, f) /\ fn' = [fn EXCEPT ![c] = n + 1] BY <1>5 DEF Profile!RecordFunction
  <2>2. f \in Functions /\ f.arcs = <<>> /\ f.self = calling[c].self BY <1>3, OwnTerms
  <2> HIDE DEF f
  <2>3. /\ fns \in Seq(Functions) /\ n \in Nat /\ fns' \in Seq(Functions) /\ Len(fns') = n + 1
        /\ fns'[n + 1] = f /\ \A i \in 1 .. n : fns'[i] = fns[i]
    BY <2>1, <2>2 DEF GraphInv, WalkInv
  <2>4. \A a : Weighed(fns', a) = Weighed(fns, a) BY <2>1, <2>2, <2>3, WeighedNew
  <2>5. fn'[c] = n + 1 /\ \A d \in Profile!Contexts : d # c => fn'[d] = fn[d]
    BY <2>1 DEF GraphInv, WalkInv
  <2>6. McountInv(c)' BY <1>1, <1>2, <1>3, <2>2, <2>3, <2>5 DEF McountInv
  <2>7. \A i \in 1 .. Len(fns) :
           /\ i \in 1 .. Len(fns') /\ fns'[i].self = fns[i].self
           /\ \A j \in 1 .. Len(fns[i].arcs) :
                /\ j \in 1 .. Len(fns'[i].arcs) /\ fns'[i].arcs[j].from = fns[i].arcs[j].from
                /\ fns[i].arcs[j].count <= fns'[i].arcs[j].count
                /\ fns'[i].arcs[j].count \in Nat /\ fns[i].arcs[j].count \in Nat
    <3>1. \A i \in 1 .. n : i \in 1 .. (n + 1) BY <2>3
    <3>2. \A i \in 1 .. n : \A j \in 1 .. Len(fns[i].arcs) : fns[i].arcs[j].count \in Nat
      BY <2>3, GraphParts
    <3> QED BY <2>3, <3>1, <3>2
  <2>8. \A d \in Profile!Contexts : McountInv(d)'
    <3>1. CASE c = "program"
      <4>1. mcountPc'["handler"] = "idle" BY <1>1, <1>2, <3>1 DEF Profile!Contexts
      <4>2. McountInv("handler")' BY <4>1 DEF McountInv
      <4> QED BY <2>6, <3>1, <4>2 DEF Profile!Contexts
    <3>2. CASE c = "handler"
      <4>1. McountInv("program")' BY <1>1, <1>2, <2>5, <2>7, <3>2, FoundKept DEF Profile!Contexts
      <4> QED BY <2>6, <3>2, <4>1 DEF Profile!Contexts
    <3> QED BY <3>1, <3>2 DEF Profile!Contexts
  <2>9. WalkInv' BY <1>1, <2>1, <2>3, <2>8 DEF GraphInv, WalkInv
  <2>10. Stale' = Stale
    <3>1. CASE c = "program" BY <1>1, <1>2, <3>1 DEF Stale
    <3>2. CASE c = "handler"
      <4>1. mcountPc'["program"] = mcountPc["program"] /\ fn'["program"] = fn["program"]
        BY <1>2, <2>5, <3>2 DEF Profile!Contexts
      <4>2. ASSUME mcountPc["program"] = "store" PROVE Counts("program")' = Counts("program")
        <5>1. fn["program"] \in 1 .. n
          BY <4>2 DEF GraphInv, WalkInv, McountInv, Profile!Contexts
        <5> QED BY <1>1, <2>3, <4>1, <5>1 DEF Counts
      <4> QED BY <1>1, <4>1, <4>2 DEF Stale
    <3> QED BY <3>1, <3>2 DEF Profile!Contexts
  <2>11. AccountInv' BY <1>1, <2>4, <2>10 DEF GraphInv, AccountInv
  <2> QED BY <2>9, <2>11 DEF GraphInv
<1> QED BY <1>4, <1>5

LEMMA Replaced ==
  ASSUME NEW S, NEW s \in Seq(S), NEW k \in 1 .. Len(s), NEW x \in S
  PROVE  /\ [s EXCEPT ![k] = x] \in Seq(S) /\ Len([s EXCEPT ![k] = x]) = Len(s)
         /\ [s EXCEPT ![k] = x][k] = x
         /\ \A i \in 1 .. Len(s) : i # k => [s EXCEPT ![k] = x][i] = s[i]
OBVIOUS

LEMMA RecordArcInv ==
  ASSUME GraphInv, NEW c \in Profile!Contexts, Profile!RecordArc(c)
  PROVE  GraphInv'
<1> DEFINE k == fn[c]
           own == calling[c]
           r == [from |-> own.from, count |-> 1]
           f == fns[k]
           g == [f EXCEPT !.arcs = Append(f.arcs, r)]
<1>1. /\ UNCHANGED <<calling, fn, arc, count, missed>> /\ mcountPc[c] = "arc"
      /\ mcountPc' = [mcountPc EXCEPT ![c] = "idle"]
      /\ c = "program" => mcountPc["handler"] = "idle"
      /\ fns' = [fns EXCEPT ![k] = g]
      /\ recorded' = [recorded EXCEPT ![own] = @ + 1]
  BY DEF Profile!RecordArc, Profile!Steps, Profile!GoTo
<1>2. mcountPc'[c] = "idle" /\ \A d \in Profile!Contexts : d # c => mcountPc'[d] = mcountPc[d]
  BY <1>1 DEF GraphInv, WalkInv
<1>3. own \in Arcs /\ k \in 1 .. Len(fns) /\ f.self = own.self
  BY <1>1 DEF GraphInv, WalkInv, McountInv
<1>4. r \in Callers /\ r.from = own.from /\ r.count = 1 BY <1>3, OwnTerms
<1>5. fns \in Seq(Functions) BY DEF GraphInv, WalkInv
<1>6. f \in Functions /\ f.arcs \in Seq(Callers)
  <2> HIDE DEF k
  <2> QED BY <1>3, <1>5, GraphParts
<1> HIDE DEF r, k, own, f
<1>7. g \in Functions /\ g.self = f.self /\ g.arcs = Append(f.arcs, r)
  BY <1>4, <1>6 DEF Functions
<1> HIDE DEF g
<1>8. /\ fns' \in Seq(Functions) /\ Len(fns') = Len(fns) /\ fns'[k] = g
      /\ \A i \in 1 .. Len(fns) : i # k => fns'[i] = fns[i]
  BY <1>1, <1>3, <1>5, <1>7, Replaced
<1>9. fns[k] = f BY DEF f
<1>10. \A i \in 1 .. Len(fns) :
         /\ i \in 1 .. Len(fns') /\ fns'[i].self = fns[i].self
         /\ \A j \in 1 .. Len(fns[i].arcs) :
              /\ j \in 1 .. Len(fns'[i].arcs) /\ fns'[i].arcs[j] = fns[i].arcs[j]
              /\ fns[i].arcs[j].count \in Nat
  <2>1. \A i \in 1 .. Len(fns) : \A j \in 1 .. Len(fns[i].arcs) : fns[i].arcs[j].count \in Nat
    BY <1>5, GraphParts
  <2>2. \A j \in 1 .. Len(f.arcs) : j \in 1 .. Len(g.arcs) /\ g.arcs[j] = f.arcs[j]
    BY <1>4, <1>6, <1>7
  <2> QED BY <1>7, <1>8, <1>9, <2>1, <2>2
<1>11. \A d \in Profile!Contexts : McountInv(d)'
  <2>1. McountInv(c)' BY <1>2 DEF McountInv
  <2>2. CASE c = "program"
    <3>1. mcountPc'["handler"] = "idle" BY <1>1, <1>2, <2>2 DEF Profile!Contexts
    <3>2. McountInv("handler")' BY <3>1 DEF McountInv
    <3> QED BY <2>1, <2>2, <3>2 DEF Profile!Contexts
  <2>3. CASE c = "handler"
    <3>1. \A i \in 1 .. Len(fns) :
            /\ i \in 1 .. Len(fns') /\ fns'[i].self = fns[i].self
            /\ \A j \in 1 .. Len(fns[i].arcs) :
                 /\ j \in 1 .. Len(fns'[i].arcs) /\ fns'[i].arcs[j].from = fns[i].arcs[j].from
                 /\ fns[i].arcs[j].count <= fns'[i].arcs[j].count
                 /\ fns'[i].arcs[j].count \in Nat /\ fns[i].arcs[j].count \in Nat
      BY <1>10
    <3>2. McountInv("program")' BY <1>1, <1>2, <2>3, <3>1, FoundKept DEF Profile!Contexts
    <3> QED BY <2>1, <2>3, <3>2 DEF Profile!Contexts
  <2> QED BY <2>2, <2>3 DEF Profile!Contexts
<1>12. WalkInv' BY <1>1, <1>8, <1>11 DEF GraphInv, WalkInv
<1>13. ASSUME NEW a \in Arcs
       PROVE  /\ Weighed(fns', a) = Weighed(fns, a) + (IF a = own THEN 1 ELSE 0)
              /\ Weighed(fns, a) \in Int /\ Weighed(fns', a) \in Int
  <2>1. Weight(g, a) = Weight(f, a) + (IF f.self = a.self /\ r.from = a.from THEN r.count ELSE 0)
    BY <1>4, <1>6, <1>7, WeightOfArc
  <2>2. f.self = a.self /\ r.from = a.from <=> a = own BY <1>3, <1>4, SameCall
  <2>3. /\ Weighed(fns, a) \in Int /\ Weighed(fns', a) \in Int
        /\ Weighed(fns', a) = Weighed(fns, a) + (Weight(fns'[k], a) - Weight(fns[k], a))
    BY <1>3, <1>5, <1>8, WeighedChanged
  <2>4. Weight(f, a) \in Int BY <1>6, WeightIsInt
  <2>5. Weight(g, a) = Weight(f, a) + (IF a = own THEN 1 ELSE 0) BY <1>4, <2>1, <2>2
  <2> QED BY <1>8, <1>9, <2>3, <2>4, <2>5
<1>14. Stale' = Stale
  <2>1. CASE c = "program" BY <1>1, <1>2, <2>1 DEF Stale
  <2>2. CASE c = "handler"
    <3>1. mcountPc'["program"] = mcountPc["program"] BY <1>2, <2>2 DEF Profile!Contexts
    <3>2. ASSUME mcountPc["program"] = "store" PROVE Counts("program")' = Counts("program")
      <4>1. /\ fn["program"] \in 1 .. Len(fns)
            /\ arc["program"] \in 1 .. Len(fns[fn["program"]].arcs)
        BY <3>2 DEF GraphInv, WalkInv, McountInv, Profile!Contexts
      <4> QED BY <1>1, <1>10, <4>1 DEF Counts
    <3> QED BY <1>1, <3>1, <3>2 DEF Stale
  <2> QED BY <2>1, <2>2 DEF Profile!Contexts
<1>15. /\ recorded' \in [Arcs -> Nat] /\ recorded \in [Arcs -> Nat]
       /\ \A a \in Arcs : recorded'[a] = recorded[a] + (IF a = own THEN 1 ELSE 0)
  BY <1>1, <1>3 DEF GraphInv, AccountInv
<1>16. ASSUME NEW a \in Arcs
       PROVE  /\ Weighed(fns', a) <= recorded'[a]
              /\ recorded'[a] - Weighed(fns', a) = recorded[a] - Weighed(fns, a)
  <2>1. Weighed(fns, a) <= recorded[a] /\ recorded[a] \in Nat
    BY <1>15 DEF GraphInv, AccountInv
  <2>2. recorded'[a] = recorded[a] + (IF a = own THEN 1 ELSE 0) BY <1>15
  <2> QED BY <1>13, <2>1, <2>2
<1>17. AccountInv' BY <1>1, <1>14, <1>15, <1>16 DEF GraphInv, AccountInv
<1> QED BY <1>12, <1>17 DEF GraphInv

LEMMA StoreCountInv ==
  ASSUME GraphInv, NEW c \in Profile!Contexts, Profile!StoreCount(c)
  PROVE  GraphInv'
<1> DEFINE k == fn[c]
           l == arc[c]
           own == calling[c]
           v == count[c] + 1
           f == fns[k]
           old == f.arcs[l].count
           h == [f.arcs[l] EXCEPT !.count = v]
           g == [f EXCEPT !.arcs = [f.arcs EXCEPT ![l] = h]]
           over == c = "handler" /\ mcountPc["program"] = "store"
                     /\ <<k, l>> = <<fn["program"], arc["program"]>>
<1>1. /\ UNCHANGED <<calling, fn, arc, count>> /\ mcountPc[c] = "store"
      /\ mcountPc' = [mcountPc EXCEPT ![c] = "idle"]
      /\ c = "program" => mcountPc["handler"] = "idle"
      /\ fns' = [fns EXCEPT ![k] = g]
      /\ recorded' = [recorded EXCEPT ![own] = @ + 1]
      /\ missed' = IF over THEN missed + 1 ELSE missed
  BY DEF Profile!StoreCount, Profile!Steps, Profile!GoTo
<1>2. mcountPc'[c] = "idle" /\ \A d \in Profile!Contexts : d # c => mcountPc'[d] = mcountPc[d]
  BY <1>1 DEF GraphInv, WalkInv
<1>3. /\ own \in Arcs /\ k \in 1 .. Len(fns) /\ f.self = own.self
      /\ l \in 1 .. Len(f.arcs) /\ f.arcs[l].from = own.from
      /\ count[c] \in Nat /\ count[c] <= old /\ (c = "handler" => count[c] = old)
  BY <1>1 DEF GraphInv, WalkInv, McountInv, Counts
<1>4. over <=> c = "handler" /\ mcountPc["program"] = "store" /\ k = fn["program"]
               /\ l = arc["program"]
  OBVIOUS
<1>5. fns \in Seq(Functions) BY DEF GraphInv, WalkInv
<1>6. f \in Functions /\ f.arcs \in Seq(Callers) /\ f.arcs[l] \in Callers /\ old \in Nat
  <2> HIDE DEF k, l
  <2> QED BY <1>3, <1>5, GraphParts
<1>7. v \in Nat /\ v <= old + 1 /\ (c = "handler" => v = old + 1)
  <2> DEFINE u == count[c]
  <2>1. u \in Nat /\ u <= old /\ old \in Nat /\ (c = "handler" => u = old) BY <1>3, <1>6
  <2>2. v = u + 1 OBVIOUS
  <2> HIDE DEF u, v, old
  <2> QED BY <2>1, <2>2
<1>8. c = "program" => Stale = old + 1 - v
  <2>1. c = "program" => Stale = old - count[c] BY <1>1 DEF Stale, Counts
  <2> DEFINE u == count[c]
  <2>2. u \in Nat /\ v = u + 1 BY <1>3
  <2>3. c = "program" => Stale = old - u BY <2>1
  <2> HIDE DEF u, v, old
  <2> QED BY <1>6, <2>2, <2>3
<1> HIDE DEF k, l, own, v, f, over
<1>9. h \in Callers /\ h.from = f.arcs[l].from /\ h.count = v BY <1>6, <1>7 DEF Callers
<1> HIDE DEF h
<1>10. /\ [f.arcs EXCEPT ![l] = h] \in Seq(Callers)
       /\ Len([f.arcs EXCEPT ![l] = h]) = Len(f.arcs) /\ [f.arcs EXCEPT ![l] = h][l] = h
       /\ \A j \in 1 .. Len(f.arcs) : j # l => [f.arcs EXCEPT ![l] = h][j] = f.arcs[j]
  <2> DEFINE s == f.arcs
  <2>1. s \in Seq(Callers) /\ l \in 1 .. Len(s) BY <1>3, <1>6
  <2> HIDE DEF s
  <2>2. /\ [s EXCEPT ![l] = h] \in Seq(Callers)
        /\ Len([s EXCEPT ![l] = h]) = Len(s) /\ [s EXCEPT ![l] = h][l] = h
        /\ \A j \in 1 .. Len(s) : j # l => [s EXCEPT ![l] = h][j] = s[j]
    BY <1>9, <2>1, Replaced
  <2> QED BY <2>2 DEF s
<1>11. /\ g \in Functions /\ g.self = f.self /\ g.arcs = [f.arcs EXCEPT ![l] = h]
  BY <1>6, <1>10 DEF Functions
<1>12. /\ Len(g.arcs) = Len(f.arcs) /\ g.arcs[l] = h
       /\ \A j \in 1 .. Len(f.arcs) : j # l => g.arcs[j] = f.arcs[j]
  BY <1>10, <1>11
<1>13. old = f.arcs[l].count OBVIOUS
<1> HIDE DEF g, old
<1>14. /\ fns' \in Seq(Functions) /\ Len(fns') = Len(fns) /\ fns'[k] = g
       /\ \A i \in 1 .. Len(fns) : i # k => fns'[i] = fns[i]
  BY <1>1, <1>3, <1>5, <1>11, Replaced
<1>15. fns[k] = f BY DEF f
<1>16. ASSUME NEW a \in Arcs
       PROVE  /\ Weighed(fns', a) = Weighed(fns, a) + (IF a = own THEN v - old ELSE 0)
              /\ Weighed(fns, a) \in Int /\ Weighed(fns', a) \in Int
  <2>1. Weight(g, a) = Weight(f, a)
                       + (IF f.self = a.self /\ f.arcs[l].from = a.from
                          THEN g.arcs[l].count - f.arcs[l].count ELSE 0)
    <3>1. g.arcs[l].from = f.arcs[l].from BY <1>9, <1>12
    <3>2. /\ f \in Functions /\ g \in Functions /\ l \in 1 .. Len(f.arcs)
          /\ g.self = f.self /\ Len(g.arcs) = Len(f.arcs)
      BY <1>3, <1>6, <1>11, <1>12
    <3>3. \A j \in 1 .. Len(f.arcs) : j # l => g.arcs[j] = f.arcs[j] BY <1>12
    <3> QED BY <3>1, <3>2, <3>3, WeightOfCount
  <2>2. f.self = a.self /\ f.arcs[l].from = a.from <=> a = own BY <1>3, SameCall
  <2>3. /\ Weighed(fns, a) \in Int /\ Weighed(fns', a) \in Int
        /\ Weighed(fns', a) = Weighed(fns, a) + (Weight(fns'[k], a) - Weight(fns[k], a))
    <3>1. k \in 1 .. Len(fns) BY <1>3
    <3> QED BY <1>5, <1>14, <3>1, WeighedChanged
  <2>4. Weight(f, a) \in Int BY <1>6, WeightIsInt
  <2>5. Weight(g, a) = Weight(f, a) + (IF a = own THEN v - old ELSE 0)
    BY <1>9, <1>12, <1>13, <2>1, <2>2
  <2> QED BY <1>6, <1>7, <1>14, <1>15, <2>3, <2>4, <2>5
<1>17. /\ recorded \in [Arcs -> Nat] /\ recorded' \in [Arcs -> Nat] /\ missed \in Nat
       /\ \A a \in Arcs : recorded'[a] = recorded[a] + (IF a = own THEN 1 ELSE 0)
  BY <1>1, <1>3 DEF GraphInv, AccountInv
<1>18. missed' \in Nat BY <1>1, <1>17
<1>19. CASE c = "program"
  <2>1. Stale' = 0 /\ own = calling["program"] BY <1>2, <1>19 DEF Stale, own
  <2>2. missed' = missed BY <1>1, <1>4, <1>19
  <2>3. \A d \in Profile!Contexts : McountInv(d)'
    <3>1. mcountPc'["handler"] = "idle" /\ mcountPc'["program"] = "idle"
      BY <1>1, <1>2, <1>19 DEF Profile!Contexts
    <3> QED BY <3>1 DEF McountInv, Profile!Contexts
  <2>4. WalkInv' BY <1>1, <1>14, <2>3 DEF GraphInv, WalkInv
  <2>5. Stale = old + 1 - v BY <1>8, <1>19
  <2>6. ASSUME NEW a \in Arcs
        PROVE  /\ Weighed(fns', a) <= recorded'[a]
               /\ recorded'[a] - Weighed(fns', a)
                  + (IF a = calling'["program"] THEN Stale' ELSE 0) <= missed'
    <3>1. /\ Weighed(fns, a) <= recorded[a] /\ recorded[a] \in Nat
          /\ recorded[a] - Weighed(fns, a) + (IF a = own THEN Stale ELSE 0) <= missed
      BY <1>17, <2>1 DEF GraphInv, AccountInv
    <3>2. recorded'[a] = recorded[a] + (IF a = own THEN 1 ELSE 0) BY <1>17
    <3>3. Weighed(fns', a) <= recorded'[a] /\ recorded'[a] - Weighed(fns', a) <= missed
      <4> DEFINE W == Weighed(fns, a)
                 X == Weighed(fns', a)
                 R == recorded[a]
                 T == recorded'[a]
      <4>1. X = W + (IF a = own THEN v - old ELSE 0) /\ W \in Int /\ X \in Int BY <1>16
      <4>2. T = R + (IF a = own THEN 1 ELSE 0) /\ R \in Nat /\ W <= R BY <3>1, <3>2
      <4>3. R - W + (IF a = own THEN Stale ELSE 0) <= missed BY <3>1
      <4> HIDE DEF W, X, R, T
      <4>4. X <= T /\ T - X <= missed
        BY <1>6, <1>7, <1>17, <2>5, <4>1, <4>2, <4>3
      <4> QED BY <4>4 DEF X, T
    <3>4. Weighed(fns', a) \in Int /\ recorded'[a] \in Nat BY <1>16, <1>17
    <3> QED BY <2>1, <2>2, <3>3, <3>4
  <2>7. AccountInv' BY <1>17, <1>18, <2>6 DEF AccountInv
  <2> QED BY <2>4, <2>7 DEF GraphInv
<1>20. CASE c = "handler"
  <2>1. v = old + 1 BY <1>7, <1>20
  <2>2. mcountPc'["program"] = mcountPc["program"] /\ mcountPc'["handler"] = "idle"
    BY <1>2, <1>20 DEF Profile!Contexts
  <2>3. \A i \in 1 .. Len(fns) :
          /\ i \in 1 .. Len(fns') /\ fns'[i].self = fns[i].self
          /\ \A j \in 1 .. Len(fns[i].arcs) :
               /\ j \in 1 .. Len(fns'[i].arcs) /\ fns'[i].arcs[j].from = fns[i].arcs[j].from
               /\ fns[i].arcs[j].count <= fns'[i].arcs[j].count
               /\ fns'[i].arcs[j].count \in Nat /\ fns[i].arcs[j].count \in Nat
    <3>1. \A i \in 1 .. Len(fns) : \A j \in 1 .. Len(fns[i].arcs) : fns[i].arcs[j].count \in Nat
      BY <1>5, GraphParts
    <3>2. ASSUME NEW j \in 1 .. Len(f.arcs)
          PROVE  /\ j \in 1 .. Len(g.arcs) /\ g.arcs[j].from = f.arcs[j].from
                 /\ f.arcs[j].count <= g.arcs[j].count
                 /\ g.arcs[j].count \in Nat /\ f.arcs[j].count \in Nat
      <4>1. f.arcs[j].count \in Nat BY <1>3, <1>15, <3>1
      <4>2. CASE j = l
        <5>1. g.arcs[j].from = f.arcs[j].from /\ g.arcs[j].count = v /\ f.arcs[j].count = old
          BY <1>9, <1>12, <1>13, <4>2
        <5> QED BY <1>6, <1>12, <2>1, <5>1
      <4>3. CASE j # l BY <1>12, <4>1, <4>3
      <4> QED BY <4>2, <4>3
    <3>3. ASSUME NEW i \in 1 .. Len(fns)
          PROVE  /\ i \in 1 .. Len(fns') /\ fns'[i].self = fns[i].self
                 /\ \A j \in 1 .. Len(fns[i].arcs) :
                      /\ j \in 1 .. Len(fns'[i].arcs)
                      /\ fns'[i].arcs[j].from = fns[i].arcs[j].from
                      /\ fns[i].arcs[j].count <= fns'[i].arcs[j].count
                      /\ fns'[i].arcs[j].count \in Nat /\ fns[i].arcs[j].count \in Nat
      <4>1. CASE i = k BY <1>11, <1>14, <1>15, <3>2, <4>1
      <4>2. CASE i # k
        <5>1. fns'[i] = fns[i] BY <1>14, <4>2
        <5> QED BY <1>14, <3>1, <5>1
      <4> QED BY <4>1, <4>2
    <3> QED BY <3>3
  <2>4. McountInv("program")' BY <1>1, <2>2, <2>3, FoundKept
  <2>5. McountInv("handler")' BY <2>2 DEF McountInv
  <2>6. WalkInv' BY <1>1, <1>14, <2>4, <2>5 DEF GraphInv, WalkInv, Profile!Contexts
  <2>7. Stale' = Stale + (IF over THEN 1 ELSE 0) /\ Stale \in Int
    <3>1. CASE mcountPc["program"] # "store" BY <1>4, <2>2, <3>1 DEF Stale
    <3>2. CASE mcountPc["program"] = "store"
      <4> DEFINE i == fn["program"]
                 j == arc["program"]
      <4>1. i \in 1 .. Len(fns) /\ j \in 1 .. Len(fns[i].arcs) /\ count["program"] \in Nat
        BY <3>2 DEF GraphInv, WalkInv, McountInv, Profile!Contexts
      <4>2. /\ fns[i].arcs[j].count \in Nat /\ Stale = fns[i].arcs[j].count - count["program"]
            /\ Stale' = fns'[i].arcs[j].count - count["program"]
        BY <1>1, <1>5, <2>2, <3>2, <4>1, GraphParts DEF Counts, Stale
      <4>3. over <=> k = i /\ l = j BY <1>4, <1>20, <3>2
      <4> HIDE DEF i, j
      <4>4. CASE k = i /\ l = j
        <5>1. fns'[i].arcs[j].count = v /\ fns[i].arcs[j].count = old
          BY <1>9, <1>12, <1>13, <1>14, <1>15, <4>4
        <5>2. over BY <4>3, <4>4
        <5>3. Stale = old - count["program"] /\ Stale' = v - count["program"] BY <4>2, <5>1
        <5>4. old \in Nat /\ v = old + 1 /\ count["program"] \in Nat BY <1>6, <2>1, <4>1
        <5> HIDE DEF over, old, v
        <5> QED BY <5>2, <5>3, <5>4
      <4>5. CASE k # i
        <5>1. fns'[i].arcs[j].count = fns[i].arcs[j].count BY <1>14, <4>1, <4>5
        <5> QED BY <4>1, <4>2, <4>3, <4>5, <5>1
      <4>6. CASE k = i /\ l # j
        <5>1. fns'[i].arcs[j].count = fns[i].arcs[j].count BY <1>12, <1>14, <1>15, <4>1, <4>6
        <5> QED BY <4>1, <4>2, <4>3, <4>6, <5>1
      <4> QED BY <4>4, <4>5, <4>6
    <3> QED BY <3>1, <3>2
  <2>8. ASSUME NEW a \in Arcs
        PROVE  /\ Weighed(fns', a) <= recorded'[a]
               /\ recorded'[a] - Weighed(fns', a)
                  + (IF a = calling'["program"] THEN Stale' ELSE 0) <= missed'
    <3> DEFINE W == Weighed(fns, a)
               X == Weighed(fns', a)
               R == recorded[a]
               T == recorded'[a]
               o == IF over THEN 1 ELSE 0
    <3>1. X = W + (IF a = own THEN v - old ELSE 0) /\ W \in Int /\ X \in Int BY <1>16
    <3>2. T = R + (IF a = own THEN 1 ELSE 0) /\ R \in Nat BY <1>17
    <3>3. W <= R /\ R - W + (IF a = calling["program"] THEN Stale ELSE 0) <= missed
      BY DEF GraphInv, AccountInv
    <3>4. missed' = missed + o /\ Stale' = Stale + o /\ o \in {0, 1} BY <1>1, <1>17, <2>7
    <3> HIDE DEF W, X, R, T, o
    <3>5. X <= T /\ T - X = R - W BY <1>6, <2>1, <3>1, <3>2, <3>3
    <3>6. T - X + (IF a = calling["program"] THEN Stale' ELSE 0) <= missed'
      BY <1>17, <2>7, <3>1, <3>2, <3>3, <3>4, <3>5
    <3> QED BY <1>1, <3>5, <3>6 DEF X, T
  <2>9. AccountInv' BY <1>17, <1>18, <2>8 DEF AccountInv
  <2> QED BY <2>6, <2>9 DEF GraphInv
<1> QED BY <1>19, <1>20 DEF Profile!Contexts

LEMMA GraphStep == GraphInv /\ [Profile!Next]_profile => GraphInv'
<1> SUFFICES ASSUME GraphInv, [Profile!Next]_profile PROVE GraphInv' OBVIOUS
<1> DEFINE Same == UNCHANGED <<fns, mcountPc, calling, fn, arc, count, recorded, missed>>
<1>1. CASE Same BY <1>1 DEF GraphInv, WalkInv, McountInv, Counts, AccountInv, Stale
<1>2. ASSUME NEW incr \in Increments, NEW sp \in StackTops, Profile!Malloc(incr, sp)
      PROVE  Same
  BY <1>2 DEF Profile!Malloc, Profile!walk, Profile!history
<1>3. ASSUME NEW c \in Profile!Contexts, NEW a \in Arcs, Profile!Enter(c, a) PROVE GraphInv'
  BY <1>3, EnteredInv
<1>4. ASSUME NEW c \in Profile!Contexts,
             \/ Profile!WalkArcs(c) \/ Profile!LoadCount(c) \/ Profile!StoreCount(c)
             \/ Profile!RecordFunction(c) \/ Profile!RecordArc(c)
      PROVE  GraphInv'
  BY <1>4, WalkArcsInv, LoadCountInv, StoreCountInv, RecordFunctionInv, RecordArcInv
<1>5. ASSUME NEW c \in Profile!Contexts,
             \/ Profile!TestSampler(c) \/ Profile!ClearFlag(c)
             \/ Profile!niosv_pcsample_init(c)
      PROVE  GraphInv'
  BY <1>5, SamplerSteps
<1>6. ASSUME NEW offset, Profile!Sample(offset) PROVE Same
  BY <1>6 DEF Profile!Sample, Profile!walk, Profile!history
<1>7. CASE Profile!SysclkInit \/ UNCHANGED profile
  <2>1. Same BY <1>7 DEF Profile!SysclkInit, Profile!walk, Profile!history, profile
  <2> QED BY <1>1, <2>1
<1> HIDE DEF Same
<1> QED BY <1>1, <1>2, <1>3, <1>4, <1>5, <1>6, <1>7 DEF Profile!Next

\* Profiler: the heap's blocks are apart and below its limit, the slab is in its own, and samples
\* are counted in a histogram or, of a text that does not end with a whole bucket, in the one
\* bucket behind it; every call of an instrumented function is counted but for those that the
\* program stored over while a handler counted on the same arc, however handlers interrupt mcount;
\* and a tick ends unless mcount has started the sampler twice.
THEOREM ProfileSound == HalSpec => []ProfileIsSound
<1>1. HalInit => HeapInv /\ GraphInv /\ TwiceInv
  BY HeapInit, GraphInit, TwiceInit DEF HalInit
<1>2. [HalNext]_halVars => [Profile!Next]_profile BY DEF HalNext, halVars, Only
<1>3. HeapInv /\ GraphInv /\ TwiceInv => ProfileIsSound
  <2> SUFFICES ASSUME HeapInv, GraphInv, TwiceInv PROVE Profile!ProfileIsSound BY DEF ProfileIsSound
  <2>1. Profile!BlocksAreSound
    <3>1. \A b \in blocks : b.at % 4 = 0 /\ b.at + b.size <= heap_limit
      BY DEF HeapInv, BlocksInv
    <3>2. ASSUME NEW b \in blocks, NEW c \in blocks, b # c
          PROVE  Profile!Bytes(b) \cap Profile!Bytes(c) = {}
      <4>1. /\ b.at \in Nat /\ b.size \in Nat /\ c.at \in Nat /\ c.size \in Nat
            /\ b.at + b.size <= c.at \/ c.at + c.size <= b.at
        BY <3>2 DEF HeapInv, BlocksInv
      <4> QED BY <4>1 DEF Profile!Bytes
    <3>3. mcount_slab_size > 0 =>
            \E b \in blocks : b.by = "slab" /\ b.at + b.size = mcount_slab_ptr + mcount_slab_size
      BY DEF HeapInv, SlabInv
    <3>4. ASSUME NEW a \in sampled
          PROVE  \/ Profile!InHistogram(a)
                 \/ /\ TextSize % Profile!PCSAMPLE_BYTES_PER_BUCKET # 0
                    /\ \E b \in blocks : b.by = "samples" /\ b.at + b.size = a
      <4>1. PICK b \in blocks : InOrBehind(a, b) BY DEF HeapInv, SamplesInv
      <4>2. a \in Nat /\ b.at \in Nat /\ b.size \in Nat
        BY DEF HeapInv, SamplesInv, BlocksInv
      <4>3. b.by = "samples" /\ b.at <= a BY <4>1 DEF InOrBehind
      <4>4. CASE a + 1 < b.at + b.size
        <5>1. {a, a + 1} \subseteq Profile!Bytes(b) BY <4>2, <4>3, <4>4 DEF Profile!Bytes
        <5> QED BY <4>3, <5>1 DEF Profile!InHistogram
      <4>5. CASE TextSize % 32 # 0 /\ a = b.at + b.size
        BY <4>3, <4>5 DEF Profile!PCSAMPLE_BYTES_PER_BUCKET
      <4> QED BY <4>1, <4>4, <4>5 DEF InOrBehind
    <3>5. checks /\ (\A b \in blocks : b.size % 4 = 0) => stack_limit = heap_end
      BY DEF HeapInv, BlocksInv
    <3> QED BY <3>1, <3>2, <3>3, <3>4, <3>5 DEF Profile!BlocksAreSound
  <2>2. Profile!CallsAreCounted
    <3>1. ASSUME NEW a \in Arcs
          PROVE  /\ Profile!Counted(a) \in Int /\ recorded[a] \in Nat /\ missed \in Nat
                 /\ Profile!Counted(a) <= recorded[a]
                 /\ recorded[a] - Profile!Counted(a) <= missed
      <4>1. Profile!Counted(a) = Weighed(fns, a) BY CountedWeighs
      <4>2. Weighed(fns, a) \in Int BY WeighedIsInt DEF GraphInv, WalkInv
      <4>3. Stale \in Nat
        <5>1. CASE mcountPc["program"] = "store"
          <6>1. /\ fn["program"] \in 1 .. Len(fns)
                /\ arc["program"] \in 1 .. Len(fns[fn["program"]].arcs)
                /\ count["program"] \in Nat /\ count["program"] <= Counts("program")
            BY <5>1 DEF GraphInv, WalkInv, McountInv, Profile!Contexts
          <6>2. fns \in Seq(Functions) BY DEF GraphInv, WalkInv
          <6>3. Counts("program") \in Nat BY <6>1, <6>2, GraphParts DEF Counts
          <6> QED BY <5>1, <6>1, <6>3 DEF Stale
        <5> QED BY <5>1 DEF Stale
      <4>4. /\ recorded[a] \in Nat /\ missed \in Nat /\ Weighed(fns, a) <= recorded[a]
            /\ recorded[a] - Weighed(fns, a)
               + (IF a = calling["program"] THEN Stale ELSE 0) <= missed
        BY DEF GraphInv, AccountInv
      <4> QED BY <4>1, <4>2, <4>3, <4>4
    <3> QED BY <3>1 DEF Profile!CallsAreCounted
  <2>3. Profile!TicksEndUnlessTwice
    BY ProfileAssumption
    DEF TwiceInv, Profile!TicksEndUnlessTwice, Profile!PCSAMPLE_BYTES_PER_BUCKET
  <2> QED BY <2>1, <2>2, <2>3 DEF Profile!ProfileIsSound
<1> QED BY <1>1, <1>2, <1>3, HeapStep, GraphStep, TwiceStep, PTL DEF HalSpec
=============================================================================

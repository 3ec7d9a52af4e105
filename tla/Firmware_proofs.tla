--------------------------- MODULE Firmware_proofs ---------------------------
(***************************************************************************)
(* Proofs about the firmware, for any switches, any tick rate, any width   *)
(* of a word and any room on the console.                                  *)
(***************************************************************************)
EXTENDS Firmware, TLAPS

\* A count whose words were loaded without a carry in between is the count that the clock had
\* when the low one was loaded; a single word loaded without one agrees with the clock.
ReadingInv ==
  /\ now.low # -1 => now.low = reading.at % Word
  /\ ~reading.torn =>
       /\ now.low # -1 /\ now.high # -1 => now.high = reading.at \div Word
       /\ now.low # -1 /\ now.high = -1 => nticks \div Word = reading.at \div Word
       /\ now.low = -1 /\ now.high # -1 => now.high = nticks \div Word

\* So is the count that blink last changed by.
ToggledInv == ~toggled.torn => last_toggle = toggled.at

IInv == TypeOK /\ ReadingInv /\ ToggledInv

-----------------------------------------------------------------------------
(* Counts and their words *)

LEMMA Divided ==
  ASSUME NEW n \in Nat, NEW d \in Nat \ {0}
  PROVE  n \div d \in Nat /\ n % d \in 0 .. (d - 1) /\ n = d * (n \div d) + (n % d)
<1>1. n \div d \in Nat OBVIOUS
<1>2. n % d \in 0 .. (d - 1) OBVIOUS
<1>3. n = d * (n \div d) + (n % d) OBVIOUS
<1> QED BY <1>1, <1>2, <1>3

LEMMA Multiplied ==
  ASSUME NEW d \in Nat \ {0}, NEW q \in Nat, NEW p \in Nat, q < p
  PROVE  d * q + d <= d * p
<1>1. PICK e \in Nat : p = q + 1 + e
  <2>1. p - q - 1 \in Nat /\ p = q + 1 + (p - q - 1) OBVIOUS
  <2> QED BY <2>1
<1>2. d * p = d * q + d + d * e BY <1>1
<1>3. d * e >= 0 OBVIOUS
<1> QED BY <1>2, <1>3

\* The words of a count are words, and make it up.
LEMMA WordsOfCount ==
  ASSUME NEW c \in Counts
  PROVE  /\ c \div Word \in 0 .. (Word - 1) /\ c % Word \in 0 .. (Word - 1)
         /\ c = (c \div Word) * Word + (c % Word)
<1>1. Word \in Nat \ {0} /\ c \in Nat /\ c < Word * Word
  BY FirmwareAssumption DEF Counts
<1>2. /\ c \div Word \in Nat /\ c % Word \in 0 .. (Word - 1)
      /\ c = Word * (c \div Word) + (c % Word) BY <1>1, Divided
<1>3. c \div Word < Word
  <2> SUFFICES ASSUME Word <= c \div Word PROVE FALSE BY <1>1, <1>2
  <2>1. Word * Word <= Word * (c \div Word)
    <3>1. CASE Word = c \div Word BY <3>1, <1>1
    <3>2. CASE Word < c \div Word BY <3>2, <1>1, <1>2, Multiplied
    <3> QED BY <3>1, <3>2, <1>1, <1>2
  <2> DEFINE q == c \div Word
  <2> HIDE DEF q
  <2> QED BY <2>1, <1>1, <1>2 DEF q
<1> DEFINE q == c \div Word
<1> HIDE DEF q
<1>4. Word * q = q * Word BY <1>1, <1>2 DEF q
<1> QED BY <1>1, <1>2, <1>3, <1>4 DEF q

\* Words make up a count.
LEMMA CountOfWords ==
  ASSUME NEW high \in 0 .. (Word - 1), NEW low \in 0 .. (Word - 1)
  PROVE  high * Word + low \in Counts
<1>1. Word \in Nat \ {0} BY FirmwareAssumption
<1>2. Word * high + Word <= Word * Word BY <1>1, Multiplied
<1>3. Word * high = high * Word /\ Word * high \in Nat BY <1>1
<1>4. Word * Word \in Nat BY <1>1
<1> QED BY <1>1, <1>2, <1>3, <1>4 DEF Counts

\* The next count has the same high word, unless its low one is zero.
LEMMA NextCount ==
  ASSUME NEW c \in Counts
  PROVE  LET next == (c + 1) % (Word * Word)
         IN  next \in Counts /\ ((c + 1) % Word # 0 => next \div Word = c \div Word)
<1> DEFINE next == (c + 1) % (Word * Word)
<1>1. Word \in Nat \ {0} /\ Word * Word \in Nat \ {0} /\ c \in Nat /\ c + 1 <= Word * Word
  BY FirmwareAssumption DEF Counts
<1>2. next \in Counts
  <2>1. c + 1 \in Nat BY <1>1
  <2> DEFINE W == Word * Word
  <2>2. W \in Nat \ {0} BY <1>1
  <2> HIDE DEF W
  <2>3. (c + 1) % W \in 0 .. (W - 1) BY <2>1, <2>2, Divided
  <2> QED BY <2>3 DEF W, Counts
<1>3. ASSUME (c + 1) % Word # 0 PROVE next \div Word = c \div Word
  <2>1. /\ c \div Word \in Nat /\ c % Word \in 0 .. (Word - 1)
        /\ c = Word * (c \div Word) + (c % Word) BY <1>1, Divided
  <2>2. /\ (c + 1) \div Word \in Nat /\ (c + 1) % Word \in 0 .. (Word - 1)
        /\ c + 1 = Word * ((c + 1) \div Word) + ((c + 1) % Word)
    <3> DEFINE n == c + 1
    <3>1. n \in Nat BY <1>1
    <3> HIDE DEF n
    <3>2. n \div Word \in Nat /\ n % Word \in 0 .. (Word - 1) /\ n = Word * (n \div Word) + (n % Word)
      BY <3>1, <1>1, Divided
    <3> QED BY <3>2 DEF n
  <2> DEFINE q == c \div Word
             p == (c + 1) \div Word
             r == c % Word
             t == (c + 1) % Word
  <2>3. q \in Nat /\ p \in Nat /\ r \in 0 .. (Word - 1) /\ t \in 1 .. (Word - 1)
        /\ c = Word * q + r /\ c + 1 = Word * p + t
    BY <2>1, <2>2, <1>3
  <2> HIDE DEF q, p, r, t
  <2>4. ~(q < p)
    <3> SUFFICES ASSUME q < p PROVE FALSE OBVIOUS
    <3>1. Word * q + Word <= Word * p BY <1>1, <2>3, Multiplied
    <3>2. Word * q \in Nat /\ Word * p \in Nat BY <1>1, <2>3
    <3> QED BY <3>1, <3>2, <2>3, <1>1
  <2>5. ~(p < q)
    <3> SUFFICES ASSUME p < q PROVE FALSE OBVIOUS
    <3>1. Word * p + Word <= Word * q BY <1>1, <2>3, Multiplied
    <3>2. Word * q \in Nat /\ Word * p \in Nat BY <1>1, <2>3
    <3> QED BY <3>1, <3>2, <2>3, <1>1
  <2>6. p = q BY <2>3, <2>4, <2>5
  <2>7. c + 1 # Word * Word
    <3> SUFFICES ASSUME c + 1 = Word * Word PROVE FALSE OBVIOUS
    <3>1. CASE p < Word
      <4>1. Word * p + Word <= Word * Word BY <1>1, <2>3, <3>1, Multiplied
      <4>2. Word * p \in Nat BY <1>1, <2>3
      <4> QED BY <4>1, <4>2, <2>3, <1>1
    <3>2. CASE p = Word BY <3>2, <2>3, <1>1
    <3>3. CASE Word < p
      <4>1. Word * Word + Word <= Word * p BY <1>1, <2>3, <3>3, Multiplied
      <4>2. Word * p \in Nat BY <1>1, <2>3
      <4> QED BY <4>1, <4>2, <2>3, <1>1
    <3> QED BY <3>1, <3>2, <3>3, <2>3, <1>1
  <2>8. next = c + 1
    <3> DEFINE W == Word * Word
    <3>1. W \in Nat \ {0} /\ c + 1 \in Nat /\ c + 1 < W BY <1>1, <2>7
    <3> HIDE DEF W
    <3>2. (c + 1) % W = c + 1 BY <3>1
    <3> QED BY <3>2 DEF W
  <2> QED BY <2>6, <2>8 DEF p, q
<1> QED BY <1>2, <1>3

\* What main() makes of the words it has loaded.
LEMMA NowIsCount ==
  ASSUME TypeOK, ReadingInv, Loaded
  PROVE  Now \in Counts /\ (~reading.torn => Now = reading.at)
<1>1. now.low \in 0 .. (Word - 1) /\ now.high \in 0 .. (Word - 1)
  BY FirmwareAssumption DEF TypeOK, Loaded
<1>2. Now \in Counts BY <1>1, CountOfWords DEF Now
<1>3. ASSUME ~reading.torn PROVE Now = reading.at
  <2>1. now.low = reading.at % Word /\ now.high = reading.at \div Word
    BY <1>3 DEF ReadingInv, Loaded
  <2> QED BY <2>1, WordsOfCount DEF Now, TypeOK
<1> QED BY <1>2, <1>3

-----------------------------------------------------------------------------
(* The invariant *)

LEMMA ZeroIsCount == 0 \in Counts
<1>1. Word * Word \in Nat \ {0} BY FirmwareAssumption
<1> QED BY <1>1 DEF Counts

LEMMA InitInv == Init => IInv
BY FirmwareAssumption, ZeroIsCount
   DEF Init, IInv, TypeOK, ReadingInv, ToggledInv, Labels, NotRead, Unknown

LEMMA StartInv ==
  ASSUME IInv, UartInit \/ TimerInit \/ FirstDipsw \/ FirstKeys
  PROVE  IInv'
<1> USE FirmwareAssumption DEF IInv, TypeOK, ReadingInv, ToggledInv, Labels, Step,
                               inputs, system, known, latest, clock, light
<1>1. CASE UartInit BY <1>1 DEF UartInit
<1>2. CASE TimerInit BY <1>2 DEF TimerInit
<1>3. CASE FirstDipsw BY <1>3 DEF FirstDipsw
<1>4. CASE FirstKeys BY <1>4 DEF FirstKeys
<1> QED BY <1>1, <1>2, <1>3, <1>4

LEMMA PrintfInv ==
  ASSUME IInv, NEW from \in Labels, NEW to \in Labels, Printf(from, to)
  PROVE  IInv'
BY FirmwareAssumption
   DEF Printf, Step, IInv, TypeOK, ReadingInv, ToggledInv,
       inputs, system, known, latest, clock, light

LEMMA LoadInv ==
  ASSUME IInv, LoadLow \/ LoadHigh
  PROVE  IInv'
<1>1. nticks \div Word \in 0 .. (Word - 1) /\ nticks % Word \in 0 .. (Word - 1)
  BY WordsOfCount DEF IInv, TypeOK
<1> USE <1>1, FirmwareAssumption DEF IInv, TypeOK, inputs, system, known, latest, clock, light
<1>2. CASE LoadLow BY <1>2 DEF LoadLow, ReadingInv, ToggledInv
<1>3. CASE LoadHigh BY <1>3 DEF LoadHigh, ReadingInv, ToggledInv
<1> QED BY <1>2, <1>3

LEMMA TakenInv ==
  ASSUME IInv, FirstNticks \/ Toggle
  PROVE  IInv'
<1>1. Loaded BY DEF FirstNticks, Toggle
<1>2. Now \in Counts /\ (~reading.torn => Now = reading.at) BY <1>1, NowIsCount DEF IInv
<1> USE <1>2, ZeroIsCount, FirmwareAssumption
    DEF IInv, TypeOK, ReadingInv, ToggledInv, Labels, Step, NotRead, Unknown,
        inputs, system, known, latest, light
<1>3. CASE FirstNticks BY <1>3 DEF FirstNticks
<1>4. CASE Toggle BY <1>4 DEF Toggle
<1> QED BY <1>3, <1>4

LEMMA LoopInv ==
  ASSUME IInv, ReadDipsw \/ ReadKeys \/ Compare \/ WriteLed \/ Wake
  PROVE  IInv'
<1> USE FirmwareAssumption DEF IInv, TypeOK, ReadingInv, ToggledInv, Labels, Step,
                               inputs, system, known, latest, clock, light
<1>1. CASE ReadDipsw BY <1>1 DEF ReadDipsw
<1>2. CASE ReadKeys BY <1>2 DEF ReadKeys
<1>3. CASE Compare BY <1>3 DEF Compare
<1>4. CASE WriteLed BY <1>4 DEF WriteLed, Light
<1>5. CASE Wake BY <1>5 DEF Wake
<1> QED BY <1>1, <1>2, <1>3, <1>4, <1>5

LEMMA TickInv ==
  ASSUME IInv, Tick
  PROVE  IInv'
<1>1. nticks \in Counts BY DEF IInv, TypeOK
<1>2. nticks' \in Counts /\ ((nticks + 1) % Word # 0 => nticks' \div Word = nticks \div Word)
  BY <1>1, NextCount DEF Tick
<1>3. TypeOK' BY <1>2 DEF IInv, TypeOK, Tick, inputs, system, known, latest, light
<1>4. ReadingInv'
  <2>1. reading'.at = reading.at /\ now' = now BY DEF IInv, TypeOK, Tick
  <2>2. ~reading'.torn =>
          ~reading.torn /\ ~((nticks + 1) % Word = 0 /\ (now.low = -1) # (now.high = -1))
    BY DEF IInv, TypeOK, Tick
  <2> QED BY <2>1, <2>2, <1>2 DEF IInv, ReadingInv
<1>5. ToggledInv' BY DEF IInv, ToggledInv, Tick
<1> QED BY <1>3, <1>4, <1>5 DEF IInv

LEMMA EnvironmentInv ==
  ASSUME IInv, HostReads \/ User
  PROVE  IInv'
<1> USE FirmwareAssumption DEF IInv, TypeOK, ReadingInv, ToggledInv,
                               inputs, system, known, latest, clock, light
<1>1. CASE HostReads BY <1>1 DEF HostReads
<1>2. CASE User BY <1>2 DEF User, SetSwitches, SetButtons
<1> QED BY <1>1, <1>2

LEMMA Inductive ==
  ASSUME IInv, [Next]_vars
  PROVE  IInv'
<1>1. CASE UNCHANGED vars
  BY <1>1 DEF vars, IInv, TypeOK, ReadingInv, ToggledInv,
              inputs, system, known, latest, clock, light
<1>2. CASE Processor
  <2>1. CASE \/ Printf("banner", "first_report") \/ Printf("first_report", "dipsw")
             \/ Printf("report", "nticks")
    BY <2>1, PrintfInv DEF Labels
  <2> QED BY <1>2, <2>1, StartInv, LoadInv, TakenInv, LoopInv DEF Processor
<1>3. CASE Tick \/ HostReads \/ User BY <1>3, TickInv, EnvironmentInv
<1> QED BY <1>1, <1>2, <1>3 DEF Next

\* Every variable keeps its type: the bits of the LED stay bits, the console's room is not
\* exceeded, and counts stay counts, whichever words main() has put together.
THEOREM TypeCorrect == Spec => []TypeOK
<1>1. IInv => TypeOK BY DEF IInv
<1> QED BY InitInv, Inductive, <1>1, PTL DEF Spec

\* blink changes after half a period of ticks and not before, for any width of a word and any
\* order of the two loads, but for readings that a carry tears.
THEOREM InTime == Spec => BlinksInTime
<1> DEFINE Intact == ~toggled.torn /\ ~reading.torn
<1>1. ASSUME IInv, Toggle, Intact
      PROVE  blink' # blink <=> Ticks(toggled.at, reading.at) >= HalfPeriod
  <2>1. Loaded BY <1>1 DEF Toggle
  <2>2. Now = reading.at /\ last_toggle = toggled.at
    BY <1>1, <2>1, NowIsCount DEF IInv, ToggledInv
  <2>3. blink \in {0, 1} BY <1>1 DEF IInv, TypeOK
  <2>4. CASE Ticks(last_toggle, Now) >= HalfPeriod
    BY <1>1, <2>2, <2>3, <2>4 DEF Toggle
  <2>5. CASE ~(Ticks(last_toggle, Now) >= HalfPeriod)
    BY <1>1, <2>2, <2>5 DEF Toggle
  <2> QED BY <2>4, <2>5
<1>2. IInv /\ [Next]_vars =>
        [Toggle /\ ~toggled.torn /\ ~reading.torn =>
           (blink' # blink <=> Ticks(toggled.at, reading.at) >= HalfPeriod)]_vars
  BY <1>1
<1> QED BY InitInv, Inductive, <1>2, PTL DEF Spec, BlinksInTime
=============================================================================

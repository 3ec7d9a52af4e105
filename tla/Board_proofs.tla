---------------------------- MODULE Board_proofs ----------------------------
(***************************************************************************)
(* Proofs about the board's logic, for any number of buttons and detectors,*)
(* any debouncing time and any length of a pulse.                          *)
(***************************************************************************)
EXTENDS Board, TLAPS

\* The synchroniser's stages are the last two samples, and each cycle the debouncer has
\* counted is a sample in which the button was pressed.
DebounceInv ==
  \A b \in Buttons :
    /\ key_meta[b] = samples[b][1] /\ key_sync[b] = samples[b][2]
    /\ \A k \in 1 .. counter[b] : samples[b][k + 2]

\* A detector that is armed, or captures, has seen its request low since its last pulse.
DetectInv == \A d \in Detectors : state[d] # "IDLE" => fresh[d]

\* The bit a pulse began with is at the place its age gives, until it is shifted out.
PulseInv ==
  \A d \in Detectors :
    /\ extend_pulse[d] # {} => age[d] >= 1
    /\ extend_pulse[d] # {} /\ age[d] < PULSE_EXT => age[d] - 1 \in extend_pulse[d]
    /\ extend_pulse[d] = {} => age[d] = 0

IInv == TypeOK /\ DebounceInv /\ DetectInv /\ PulseInv

-----------------------------------------------------------------------------

LEMMA InitInv == Init => IInv
<1> SUFFICES ASSUME Init PROVE IInv OBVIOUS
<1> USE BoardAssumption
<1>1. TypeOK
  <2>1. samples \in [Buttons -> [1 .. TIMEOUT + 2 -> BOOLEAN]] BY DEF Init
  <2>2. {KEY, key_meta, key_sync} \subseteq [Buttons -> BOOLEAN] BY DEF Init
  <2>3. counter \in [Buttons -> 0 .. TIMEOUT] BY DEF Init
  <2>4. state \in [Detectors -> {"IDLE", "ARM", "CAPT"}] /\ fresh \in [Detectors -> BOOLEAN]
    BY DEF Init
  <2>5. extend_pulse \in [Detectors -> SUBSET (0 .. PULSE_EXT - 1)] BY DEF Init
  <2>6. age \in [Detectors -> 0 .. PULSE_EXT] BY DEF Init
  <2>7. fpga_por_sr \in 0 .. 4 BY DEF Init
  <2>8. pll_locked \in BOOLEAN BY Zenon DEF Init
  <2>9. hps_reset_req \in [Detectors -> BOOLEAN] /\ hps_fpga_reset_n \in BOOLEAN BY DEF Init
  <2> QED BY <2>1, <2>2, <2>3, <2>4, <2>5, <2>6, <2>7, <2>8, <2>9, Zenon DEF TypeOK
<1>2. DebounceInv
  <2> SUFFICES ASSUME NEW b \in Buttons
               PROVE  /\ key_meta[b] = samples[b][1] /\ key_sync[b] = samples[b][2]
                      /\ \A k \in 1 .. counter[b] : samples[b][k + 2]
    BY DEF DebounceInv
  <2>1. key_meta[b] = FALSE /\ key_sync[b] = FALSE /\ counter[b] = 0 BY DEF Init
  <2>2. 1 \in 1 .. TIMEOUT + 2 /\ 2 \in 1 .. TIMEOUT + 2 OBVIOUS
  <2>3. samples[b][1] = FALSE /\ samples[b][2] = FALSE BY <2>2 DEF Init
  <2>4. \A k \in 1 .. counter[b] : FALSE BY <2>1
  <2>5. key_meta[b] = samples[b][1] /\ key_sync[b] = samples[b][2] BY <2>1, <2>3, Zenon
  <2> QED BY <2>4, <2>5, Zenon
<1>3. DetectInv BY DEF Init, DetectInv
<1>4. PulseInv BY DEF Init, PulseInv
<1> QED BY <1>1, <1>2, <1>3, <1>4 DEF IInv

-----------------------------------------------------------------------------
(* An edge of the clock *)

\* The counter goes on, stops at TIMEOUT, or is cleared: it never wraps.
LEMMA CountedValue ==
  ASSUME TypeOK, NEW b \in Buttons
  PROVE  /\ Counted(b) \in 0 .. TIMEOUT
         /\ \/ Counted(b) = 0
            \/ Counted(b) = counter[b] + 1 /\ key_sync[b]
            \/ Counted(b) = counter[b] /\ counter[b] = TIMEOUT /\ key_sync[b]
<1>1. counter[b] \in 0 .. TIMEOUT BY DEF TypeOK
<1>2. CASE ~fpga_reset_n \/ ~key_sync[b]
  BY <1>2, BoardAssumption DEF Counted
<1>3. CASE fpga_reset_n /\ key_sync[b] /\ counter[b] < TIMEOUT
  <2>1. counter[b] + 1 \in 0 .. Counters - 1 BY <1>1, <1>3, BoardAssumption
  <2>2. (counter[b] + 1) % Counters = counter[b] + 1 BY <2>1, BoardAssumption
  <2>3. Counted(b) = counter[b] + 1 BY <1>3, <2>2 DEF Counted
  <2> QED BY <1>1, <1>3, <2>3, BoardAssumption
<1>4. CASE fpga_reset_n /\ key_sync[b] /\ ~(counter[b] < TIMEOUT)
  BY <1>1, <1>4, BoardAssumption DEF Counted
<1> QED BY <1>2, <1>3, <1>4

LEMMA ClockTypes ==
  ASSUME TypeOK, Clock
  PROVE  TypeOK'
<1> USE BoardAssumption DEF TypeOK
<1>1. fpga_por_sr' \in 0 .. 4 BY DEF Clock, PowerOnReset
<1>2. {KEY', key_meta', key_sync'} \subseteq [Buttons -> BOOLEAN]
  BY DEF Clock, Synchronise
<1>3. counter' \in [Buttons -> 0 .. TIMEOUT]
  BY CountedValue DEF Clock, Debounce
<1>4. samples' \in [Buttons -> [1 .. TIMEOUT + 2 -> BOOLEAN]]
  <2>1. ASSUME NEW b \in Buttons, NEW k \in 1 .. TIMEOUT + 2
        PROVE  (IF k = 1 THEN KEY[b] ELSE samples[b][k - 1]) \in BOOLEAN
    <3>1. CASE k = 1 BY <3>1
    <3>2. CASE k # 1
      <4>1. k - 1 \in 1 .. TIMEOUT + 2 BY <3>2
      <4> QED BY <3>2, <4>1
    <3> QED BY <3>1, <3>2
  <2> QED BY <2>1 DEF Clock, Sample
<1>5. state' \in [Detectors -> {"IDLE", "ARM", "CAPT"}]
  BY DEF Clock, Detect, NextState
<1>6. extend_pulse' \in [Detectors -> SUBSET (0 .. PULSE_EXT - 1)]
  BY DEF Clock, Extend, Shifted
<1>7. fresh' \in [Detectors -> BOOLEAN]
  BY DEF Clock, Extend
<1>8. age' \in [Detectors -> 0 .. PULSE_EXT]
  BY DEF Clock, Extend
<1> QED BY <1>1, <1>2, <1>3, <1>4, <1>5, <1>6, <1>7, <1>8 DEF Clock, hps

\* Samples and stages move on together; a count grows by a sample that was pressed.
LEMMA ClockDebounce ==
  ASSUME TypeOK, DebounceInv, Clock
  PROVE  DebounceInv'
<1> SUFFICES ASSUME NEW b \in Buttons
             PROVE  /\ key_meta'[b] = samples'[b][1] /\ key_sync'[b] = samples'[b][2]
                    /\ \A k \in 1 .. counter'[b] : samples'[b][k + 2]
  BY DEF DebounceInv
<1>1. /\ key_meta' = KEY /\ key_sync' = key_meta
      /\ counter'[b] = Counted(b)
      /\ samples'[b] = [k \in 1 .. TIMEOUT + 2 |-> IF k = 1 THEN KEY[b] ELSE samples[b][k - 1]]
  BY DEF Clock, Synchronise, Debounce, Sample
<1>2. samples'[b][1] = KEY[b] /\ samples'[b][2] = samples[b][1]
  BY <1>1, BoardAssumption
<1>3. ASSUME NEW k \in 1 .. counter'[b] PROVE samples'[b][k + 2]
  <2>1. counter'[b] \in 0 .. TIMEOUT /\ counter[b] \in 0 .. TIMEOUT /\ k \in 1 .. TIMEOUT
    BY <1>1, <1>3, CountedValue, BoardAssumption DEF TypeOK
  <2>2. samples'[b][k + 2] = samples[b][k + 1]
    <3>1. k + 2 \in 1 .. TIMEOUT + 2 /\ k + 2 # 1 /\ (k + 2) - 1 = k + 1
      BY <2>1, BoardAssumption
    <3> QED BY <1>1, <3>1
  <2>3. key_sync[b] /\ k <= counter[b] + 1
    BY <1>1, <1>3, <2>1, CountedValue, BoardAssumption
  <2>4. CASE k = 1
    BY <2>2, <2>3, <2>4 DEF DebounceInv
  <2>5. CASE k # 1
    <3>1. k - 1 \in 1 .. counter[b] /\ (k - 1) + 2 = k + 1 BY <2>1, <2>3, <2>5
    <3>2. samples[b][(k - 1) + 2] BY <3>1 DEF DebounceInv
    <3> QED BY <2>2, <3>1, <3>2
  <2> QED BY <2>4, <2>5
<1> QED BY <1>1, <1>2, <1>3 DEF DebounceInv

LEMMA ClockDetect ==
  ASSUME TypeOK, DetectInv, Clock
  PROVE  DetectInv'
<1> SUFFICES ASSUME NEW d \in Detectors, state'[d] # "IDLE" PROVE fresh'[d]
  BY DEF DetectInv
<1>1. /\ state[d] \in {"IDLE", "ARM", "CAPT"}
      /\ state'[d] = NextState(d)
      /\ fresh'[d] = (~hps_reset_req[d] \/ (fresh[d] /\ ~(pulse_detect(d) /\ Qualified(d))))
  BY DEF Clock, Detect, Extend, TypeOK
<1>2. CASE ~hps_reset_req[d] BY <1>1, <1>2
<1>3. CASE hps_reset_req[d]
  <2>1. state[d] = "ARM" BY <1>1, <1>3 DEF NextState
  <2>2. fresh[d] /\ ~pulse_detect(d) BY <2>1 DEF DetectInv, pulse_detect
  <2> QED BY <1>1, <2>2
<1> QED BY <1>2, <1>3

\* A pulse that is younger than PULSE_EXT goes on: the bit it began with is shifted by
\* one, since a running pulse ignores the reset.
LEMMA PulseGoesOn ==
  ASSUME TypeOK, PulseInv, Clock, NEW d \in Detectors,
         extend_pulse[d] # {}, age[d] < PULSE_EXT
  PROVE  age[d] \in extend_pulse'[d]
<1>1. age[d] \in 1 .. PULSE_EXT - 1 /\ age[d] - 1 \in extend_pulse[d]
  BY BoardAssumption DEF PulseInv, TypeOK
<1>2. extend_pulse'[d] = Shifted(d) BY DEF Clock, Extend, Qualified, pulse_out
<1>3. age[d] \in Shifted(d) BY <1>1, BoardAssumption DEF Shifted
<1> QED BY <1>2, <1>3

LEMMA ClockPulse ==
  ASSUME TypeOK, PulseInv, Clock
  PROVE  PulseInv'
<1> SUFFICES ASSUME NEW d \in Detectors
             PROVE  /\ extend_pulse'[d] # {} => age'[d] >= 1
                    /\ extend_pulse'[d] # {} /\ age'[d] < PULSE_EXT
                         => age'[d] - 1 \in extend_pulse'[d]
                    /\ extend_pulse'[d] = {} => age'[d] = 0
  BY DEF PulseInv
<1>1. age[d] \in 0 .. PULSE_EXT BY DEF TypeOK
<1>2. age'[d] = IF extend_pulse'[d] = {} THEN 0
                ELSE IF age[d] < PULSE_EXT THEN age[d] + 1 ELSE PULSE_EXT
  BY DEF Clock, Extend
<1>3. CASE extend_pulse'[d] = {} BY <1>2, <1>3
<1>4. CASE extend_pulse'[d] # {} /\ extend_pulse[d] = {}
  <2>1. age'[d] = 1 BY <1>2, <1>4, BoardAssumption DEF PulseInv
  <2>2. extend_pulse'[d] \subseteq {0}
    BY <1>4 DEF Clock, Extend, Shifted
  <2> QED BY <1>4, <2>1, <2>2, BoardAssumption
<1>5. CASE extend_pulse'[d] # {} /\ extend_pulse[d] # {}
  <2>1. CASE age[d] < PULSE_EXT
    <3>1. age'[d] = age[d] + 1 BY <1>2, <1>5, <2>1
    <3>2. age[d] \in extend_pulse'[d] BY <1>5, <2>1, PulseGoesOn
    <3> QED BY <1>1, <1>5, <3>1, <3>2
  <2>2. CASE ~(age[d] < PULSE_EXT)
    BY <1>1, <1>2, <1>5, <2>2, BoardAssumption
  <2> QED BY <2>1, <2>2
<1> QED BY <1>3, <1>4, <1>5

-----------------------------------------------------------------------------

\* The other steps move inputs, which the invariant says nothing of but their types.
LEMMA InputsInv ==
  ASSUME IInv,
         \/ PllLocks \/ PllUnlocks \/ HpsReset \/ (\E b \in Buttons : MoveButton(b))
         \/ (\E d \in Detectors : Request(d)) \/ UNCHANGED vars
  PROVE  IInv'
<1> USE DEF IInv
<1>1. /\ UNCHANGED <<fpga_por_sr, key_meta, key_sync, counter, samples, pulses>>
      /\ UNCHANGED KEY \/ \E b \in Buttons : KEY' = [KEY EXCEPT ![b] = ~@]
      /\ UNCHANGED hps_reset_req
           \/ \E d \in Detectors : hps_reset_req' = [hps_reset_req EXCEPT ![d] = ~@]
      /\ pll_locked' \in BOOLEAN /\ hps_fpga_reset_n' \in BOOLEAN
  BY DEF TypeOK, PllLocks, PllUnlocks, HpsReset, MoveButton, Request, vars, reset, keys,
         pulses, hps
<1>2. KEY' \in [Buttons -> BOOLEAN] /\ hps_reset_req' \in [Detectors -> BOOLEAN]
  BY <1>1 DEF TypeOK
<1>3. TypeOK' BY <1>1, <1>2 DEF TypeOK, pulses
<1>4. DebounceInv' BY <1>1 DEF DebounceInv
<1>5. DetectInv' /\ PulseInv' BY <1>1 DEF DetectInv, PulseInv, pulses
<1> QED BY <1>3, <1>4, <1>5

LEMMA NextInv == IInv /\ [Next]_vars => IInv'
<1> SUFFICES ASSUME IInv, [Next]_vars PROVE IInv' OBVIOUS
<1>1. CASE Clock
  BY <1>1, ClockTypes, ClockDebounce, ClockDetect, ClockPulse DEF IInv
<1>2. CASE ~Clock BY <1>2, InputsInv DEF Next
<1> QED BY <1>1, <1>2

THEOREM Invariance == Spec => []IInv
<1> QED BY InitInv, NextInv, PTL DEF Spec

-----------------------------------------------------------------------------

\* Every register keeps to its width; the debouncer's counter never passes TIMEOUT.
THEOREM TypeCorrect == Spec => []TypeOK
<1>1. IInv => TypeOK BY DEF IInv
<1> QED BY <1>1, Invariance, PTL

\* A button shows as pressed only when it was held for the whole debouncing time.
THEOREM NoBounce == Spec => []DebouncedMeansHeld
<1>1. IInv => DebouncedMeansHeld
  <2> SUFFICES ASSUME IInv, NEW b \in Buttons, DebouncedPressed(b),
                      NEW k \in 3 .. TIMEOUT + 2
               PROVE  samples[b][k]
    BY DEF DebouncedMeansHeld
  <2>1. k - 2 \in 1 .. counter[b] /\ (k - 2) + 2 = k
    BY BoardAssumption DEF DebouncedPressed
  <2>2. samples[b][(k - 2) + 2] BY <2>1 DEF IInv, DebounceInv
  <2> QED BY <2>1, <2>2
<1> QED BY <1>1, Invariance, PTL

\* A detector begins no second pulse on a request it has answered.
THEOREM NoRepeatedReset == Spec => []OnePulsePerRequest
<1>1. IInv => OnePulsePerRequest
  BY DEF IInv, DetectInv, OnePulsePerRequest, pulse_detect
<1> QED BY <1>1, Invariance, PTL

\* No reset, not even the one it causes, cuts a pulse short.
THEOREM PulsesAreFull == Spec => FullPulse
<1>1. IInv /\ [Next]_vars =>
        [\A d \in Detectors : pulse_out(d) /\ ~pulse_out(d)' => age[d] = PULSE_EXT]_vars
  <2> SUFFICES ASSUME IInv, [Next]_vars, NEW d \in Detectors, pulse_out(d), ~pulse_out(d)'
               PROVE  age[d] = PULSE_EXT
    OBVIOUS
  <2>1. extend_pulse[d] # {} /\ extend_pulse'[d] = {} BY DEF pulse_out
  <2>2. age[d] \in 0 .. PULSE_EXT BY DEF IInv, TypeOK
  <2>3. CASE Clock
    BY <2>1, <2>2, <2>3, PulseGoesOn, BoardAssumption DEF IInv
  <2>4. CASE ~Clock
    BY <2>1, <2>4 DEF Next, PllLocks, PllUnlocks, HpsReset, MoveButton, Request, vars, pulses
  <2> QED BY <2>3, <2>4
<1> QED BY <1>1, Invariance, PTL DEF Spec, FullPulse

\* Every request gives one whole pulse, for any number of detectors and any length.
THEOREM PulsesSound == Spec => PulsesAreSound
BY NoRepeatedReset, PulsesAreFull, PTL DEF PulsesAreSound
=============================================================================

------------------------------- MODULE Board --------------------------------
(***************************************************************************)
(* The logic of the FPGA's top level around the two processor systems: the *)
(* power-on reset, the PLL and the reset of the Nios V system, the buttons'*)
(* synchronisers and debouncers, and the detectors that turn a request     *)
(* made over JTAG into a reset pulse for the HPS.                          *)
(*                                                                         *)
(* It is synchronous: one step is one rising edge of fpga_clk_50, in which *)
(* every register takes the value its inputs gave it. The buttons, the HPS,*)
(* the PLL and the JTAG sources change between edges, at any time. A pulse *)
(* resets the HPS, and the reset of the HPS resets the detectors, those of *)
(* other pulses too; it may also come from the HPS itself.                 *)
(*                                                                         *)
(* A definition named Mut... is the one after it with a plausible bug in.  *)
(***************************************************************************)
EXTENDS Integers

CONSTANTS
  Buttons,        \* KEY
  Detectors,      \* the pulse drivers of the HPS: cold, warm and debug
  TIMEOUT,        \* clock cycles a button is held before it counts as pressed
  Counters,       \* values of the debouncer's counter: 2 ^ TIMEOUT_WIDTH
  PULSE_EXT       \* clock cycles of a reset pulse

\* The counter can reach TIMEOUT. (Its source asks for ceil(log2(TIMEOUT)) bits, which
\* are one too few for a power of two; the board's 16 bits do hold 50000.)
ASSUME BoardAssumption ==
  /\ TIMEOUT \in Nat \ {0} /\ Counters \in Nat /\ TIMEOUT < Counters
  /\ PULSE_EXT \in Nat /\ PULSE_EXT > 1

VARIABLES
  fpga_por_sr,         \* ones shifted into the power-on reset register, at most four
  pll_locked,          \* niosv_pll_locked
  KEY, key_meta, key_sync, counter,  \* per button: a stage is TRUE when it is pressed
  hps_reset_req,       \* per detector: the level of its JTAG source
  hps_fpga_reset_n,    \* h2f_rst_n of the HPS
  state, extend_pulse, \* per detector: its state, and the bits set in its register
  samples,             \* history: the button's level at the last edges, latest first
  fresh,               \* history: the source was low at an edge since the last pulse
  age                  \* history: cycles the running pulse has lasted, at most PULSE_EXT

reset == <<fpga_por_sr, pll_locked>>
keys == <<KEY, key_meta, key_sync, counter, samples>>
pulses == <<state, extend_pulse, fresh, age>>
hps == <<hps_reset_req, hps_fpga_reset_n>>
vars == <<reset, keys, pulses, hps>>

Init ==
  /\ fpga_por_sr = 0 /\ pll_locked = FALSE
  /\ KEY \in [Buttons -> BOOLEAN]
  /\ key_meta = [b \in Buttons |-> FALSE] /\ key_sync = key_meta
  /\ counter = [b \in Buttons |-> 0]
  /\ samples = [b \in Buttons |-> [k \in 1 .. TIMEOUT + 2 |-> FALSE]]
  /\ hps_reset_req \in [Detectors -> BOOLEAN] /\ hps_fpga_reset_n \in BOOLEAN
  /\ state = [d \in Detectors |-> "IDLE"] /\ extend_pulse = [d \in Detectors |-> {}]
  /\ fresh = [d \in Detectors |-> FALSE] /\ age = [d \in Detectors |-> 0]

-----------------------------------------------------------------------------
(* Resets *)

fpga_reset_n == fpga_por_sr = 4

\* Active high: the PLL is held in reset by the power-on reset alone.
MutPllReset == ~(fpga_reset_n /\ pll_locked)
PllReset == ~fpga_reset_n

niosv_reset_n == fpga_reset_n /\ pll_locked

PowerOnReset == fpga_por_sr' = IF fpga_por_sr < 4 THEN fpga_por_sr + 1 ELSE 4

-----------------------------------------------------------------------------
(* Buttons *)

Synchronise == key_meta' = KEY /\ key_sync' = key_meta

\* A button that is not pressed resets its counter; one that is counts up to TIMEOUT.
MutCounted(b) ==
  IF key_sync[b] /\ counter[b] < TIMEOUT THEN counter[b] + 1 ELSE counter[b]
MutCountedOn(b) ==
  IF ~fpga_reset_n \/ ~key_sync[b] THEN 0 ELSE (counter[b] + 1) % Counters
MutCountedFar(b) ==
  IF ~fpga_reset_n \/ ~key_sync[b] THEN 0
  ELSE IF counter[b] <= TIMEOUT THEN counter[b] + 1 ELSE counter[b]
Counted(b) ==
  IF ~fpga_reset_n \/ ~key_sync[b] THEN 0
  ELSE IF counter[b] < TIMEOUT THEN (counter[b] + 1) % Counters ELSE counter[b]

Debounce == counter' = [b \in Buttons |-> Counted(b)]

\* data_out, active low on the board.
DebouncedPressed(b) == counter[b] = TIMEOUT

Sample ==
  samples' = [b \in Buttons |->
    [k \in 1 .. TIMEOUT + 2 |-> IF k = 1 THEN KEY[b] ELSE samples[b][k - 1]]]

-----------------------------------------------------------------------------
(* Reset pulses *)

pulse_out(d) == extend_pulse[d] # {}
pulse_detect(d) == state[d] = "CAPT"

\* A detector arms on a low level, captures on a high one, and arms again on a low one.
NextState(d) ==
  CASE state[d] = "IDLE" -> IF hps_reset_req[d] THEN "IDLE" ELSE "ARM"
    [] state[d] = "ARM" -> IF hps_reset_req[d] THEN "CAPT" ELSE "ARM"
    [] state[d] = "CAPT" -> IF hps_reset_req[d] THEN "IDLE" ELSE "ARM"

Detect ==
  state' = [d \in Detectors |-> IF hps_fpga_reset_n THEN NextState(d) ELSE "IDLE"]

\* reset_qual_n: the reset is ignored while the pulse lasts.
MutQualified(d) == hps_fpga_reset_n
Qualified(d) == hps_fpga_reset_n \/ pulse_out(d)

\* The register is shifted, and takes in what is detected. (Its reset is asynchronous,
\* but it can only come when the register is clear.)
Shifted(d) ==
  {i \in 0 .. PULSE_EXT - 1 : i - 1 \in extend_pulse[d] \/ (i = 0 /\ pulse_detect(d))}
Extend ==
  /\ extend_pulse' = [d \in Detectors |-> IF Qualified(d) THEN Shifted(d) ELSE {}]
  /\ age' = [d \in Detectors |->
       IF extend_pulse'[d] = {} THEN 0
       ELSE IF age[d] < PULSE_EXT THEN age[d] + 1 ELSE PULSE_EXT]
  /\ fresh' = [d \in Detectors |->
       ~hps_reset_req[d] \/ (fresh[d] /\ ~(pulse_detect(d) /\ Qualified(d)))]

-----------------------------------------------------------------------------

Clock ==
  /\ PowerOnReset /\ Synchronise /\ Debounce /\ Sample /\ Detect /\ Extend
  /\ UNCHANGED <<pll_locked, KEY, hps>>

\* The PLL locks when it is not in reset.
PllLocks ==
  /\ ~PllReset /\ pll_locked' = TRUE
  /\ UNCHANGED <<fpga_por_sr, keys, pulses, hps>>

\* The PLL may lose its lock, to a disturbed clock.
PllUnlocks ==
  /\ pll_locked /\ pll_locked' = FALSE
  /\ UNCHANGED <<fpga_por_sr, keys, pulses, hps>>

MoveButton(b) ==
  /\ KEY' = [KEY EXCEPT ![b] = ~@]
  /\ UNCHANGED <<reset, key_meta, key_sync, counter, samples, pulses, hps>>

\* The JTAG source hps_reset drives another level.
Request(d) ==
  /\ hps_reset_req' = [hps_reset_req EXCEPT ![d] = ~@]
  /\ UNCHANGED <<reset, keys, pulses, hps_fpga_reset_n>>

\* The HPS enters or leaves reset, for a pulse or for reasons of its own.
HpsReset ==
  /\ hps_fpga_reset_n' = ~hps_fpga_reset_n
  /\ UNCHANGED <<reset, keys, pulses, hps_reset_req>>

Next ==
  \/ Clock \/ PllLocks \/ PllUnlocks \/ HpsReset
  \/ \E b \in Buttons : MoveButton(b)
  \/ \E d \in Detectors : Request(d)

Spec == Init /\ [][Next]_vars

\* The clock runs, and a PLL that stays out of reset locks.
FairSpec == Spec /\ WF_vars(Clock) /\ WF_vars(PllLocks)

-----------------------------------------------------------------------------
(* Properties *)

\* Registers hold values of their widths, and the counter stops at TIMEOUT.
TypeOK ==
  /\ fpga_por_sr \in 0 .. 4 /\ pll_locked \in BOOLEAN
  /\ {KEY, key_meta, key_sync} \subseteq [Buttons -> BOOLEAN]
  /\ counter \in [Buttons -> 0 .. TIMEOUT]
  /\ samples \in [Buttons -> [1 .. TIMEOUT + 2 -> BOOLEAN]]
  /\ hps_reset_req \in [Detectors -> BOOLEAN] /\ hps_fpga_reset_n \in BOOLEAN
  /\ state \in [Detectors -> {"IDLE", "ARM", "CAPT"}]
  /\ extend_pulse \in [Detectors -> SUBSET (0 .. PULSE_EXT - 1)]
  /\ fresh \in [Detectors -> BOOLEAN] /\ age \in [Detectors -> 0 .. PULSE_EXT]

\* The debouncer shows a button as pressed only when it was pressed at TIMEOUT edges in
\* a row, up to the two edges the synchroniser takes: no bounce gets through.
DebouncedMeansHeld ==
  \A b \in Buttons : DebouncedPressed(b) => \A k \in 3 .. TIMEOUT + 2 : samples[b][k]

\* A button that is held is seen as pressed for as long, one that is let go as released.
ButtonIsSeen ==
  \A b \in Buttons :
    /\ <>[]KEY[b] => <>[]DebouncedPressed(b)
    /\ <>[]~KEY[b] => <>[]~DebouncedPressed(b)

\* A reset pulse lasts PULSE_EXT cycles, although the HPS, which it resets, resets the
\* detector in the middle of it.
FullPulse ==
  [][\A d \in Detectors : pulse_out(d) /\ ~pulse_out(d)' => age[d] = PULSE_EXT]_vars

\* A request that stays high gives one pulse: a detector that its own pulse has reset
\* does not take the same request for a new one. Resets do not repeat for ever.
OnePulsePerRequest == \A d \in Detectors : pulse_detect(d) => fresh[d]

\* A request is answered by one pulse of full length, which the HPS cannot miss.
PulsesAreSound == []OnePulsePerRequest /\ FullPulse

\* The Nios V system comes out of reset, at start-up and again whenever the PLL has lost
\* its lock, whatever the HPS is put through.
NiosStarts == []<>niosv_reset_n
=============================================================================

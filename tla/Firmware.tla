------------------------------ MODULE Firmware ------------------------------
(***************************************************************************)
(* The bring-up firmware, from alt_sys_init to main()'s loop: it blinks an *)
(* LED at a rate set by the DIP switches, lets two buttons override it,    *)
(* and reports changes of its inputs on the console.                       *)
(*                                                                         *)
(* The console is the JTAG UART driver as its own model shows it: a write  *)
(* waits while the ring is full, until the host takes bytes or, if the     *)
(* driver can time out, until it does. Of a report it matters only that it *)
(* takes room. The tick count has two machine words, which alt_nticks()    *)
(* loads one after the other, in the order the compiler chose, while ticks *)
(* come in between.                                                        *)
(*                                                                         *)
(* A definition named Mut... is the one after it with a plausible bug in.  *)
(***************************************************************************)
EXTENDS Integers

CONSTANTS
  TicksPerSecond,  \* ALT_CPU_TICKS_PER_SEC
  DipSwitches,     \* values of the DIP switches
  Room,            \* reports the transmit ring and the FIFO hold
  Host,            \* whether a host reads the console
  Word,            \* values of a machine word
  MaxElapsed       \* bound: ticks after the reading that blink last changed by

ASSUME FirmwareAssumption ==
  /\ TicksPerSecond \in Nat \ {0} /\ DipSwitches \subseteq 0 .. 15 /\ Room \in Nat \ {0}
  /\ Host \in BOOLEAN /\ Word \in Nat \ {0}
  /\ MaxElapsed \in Nat /\ MaxElapsed >= TicksPerSecond \div 10 /\ MaxElapsed < Word

VARIABLES
  switches, buttons,   \* the inputs; a button is in the set while it is pressed
  pc,                  \* where the processor is
  tickRate,            \* _alt_tick_rate
  timeout,             \* of the UART driver: "default", or "never" (INT_MAX)
  room,                \* reports that still fit
  dipsw, keys,         \* main()'s inputs as last reported ...
  newDipsw, newKeys,   \* ... and as last read
  nticks,              \* _alt_nticks
  now, last_toggle,    \* the words that main() has loaded of it, and its last_toggle
  reading, toggled,    \* history: of the count in now, and of that blink last changed by,
                       \* what the clock had when its low word was loaded, and whether
                       \* a tick carried into the high word between the loads
  blink, led           \* main()'s blink, and the LED's register

inputs == <<switches, buttons>>
system == <<tickRate, timeout>>
known == <<dipsw, keys>>
latest == <<newDipsw, newKeys>>
clock == <<nticks, now, last_toggle, reading, toggled>>
light == <<blink, led>>
vars == <<inputs, pc, system, room, known, latest, clock, light>>

Buttons == {"KEY0", "KEY1"}

Counts == 0 .. (Word * Word - 1)
NotRead == [low |-> -1, high |-> -1]
Unknown == [at |-> 0, torn |-> FALSE]

\* The difference of two counts, as unsigned integers have it.
Ticks(from, to) == (to - from) % (Word * Word)

Init ==
  /\ switches \in DipSwitches /\ buttons \in SUBSET Buttons
  /\ pc = "uart_init" /\ tickRate = 0 /\ timeout = "default" /\ room = Room
  /\ dipsw = 0 /\ keys = {} /\ newDipsw = 0 /\ newKeys = {}
  /\ nticks = 0 /\ now = NotRead /\ last_toggle = 0 /\ reading = Unknown /\ toggled = Unknown
  /\ blink = 0 /\ led = 0

Step(from, to) == pc = from /\ pc' = to

-----------------------------------------------------------------------------
(* Start-up *)

\* altera_avalon_jtag_uart_init: alt_alarm_start fails without a tick rate, and
\* without the alarm nothing can time out.
UartInit ==
  /\ Step("uart_init", "timer_init")
  /\ timeout' = IF tickRate = 0 THEN "never" ELSE timeout
  /\ UNCHANGED <<inputs, tickRate, room, known, latest, clock, light>>

\* INTEL_NIOSV_G_INIT: the tick rate is set and ticks come.
TimerInit ==
  /\ Step("timer_init", "first_dipsw") /\ tickRate' = TicksPerSecond
  /\ UNCHANGED <<inputs, timeout, room, known, latest, clock, light>>

-----------------------------------------------------------------------------
(* The environment *)

SetSwitches(s) ==
  /\ switches' = s
  /\ UNCHANGED <<buttons, pc, system, room, known, latest, clock, light>>

SetButtons(b) ==
  /\ buttons' = b
  /\ UNCHANGED <<switches, pc, system, room, known, latest, clock, light>>

\* The system tick, which may carry into the high word when main() has loaded one of the two.
Tick ==
  /\ tickRate > 0 /\ Ticks(toggled.at, nticks) < MaxElapsed
  /\ nticks' = (nticks + 1) % (Word * Word)
  /\ LET carries == (nticks + 1) % Word = 0 /\ (now.low = -1) # (now.high = -1)
     IN  reading' = [reading EXCEPT !.torn = @ \/ carries]
  /\ UNCHANGED <<inputs, pc, system, room, known, latest, now, last_toggle, toggled, light>>

HostReads ==
  /\ Host /\ room < Room /\ room' = room + 1
  /\ UNCHANGED <<inputs, pc, system, known, latest, clock, light>>

-----------------------------------------------------------------------------
(* main() *)

\* printf(): waits for room, or loses its output when the driver times out.
Printf(from, to) ==
  /\ Step(from, to)
  /\ room > 0 \/ (timeout # "never" /\ ~Host)
  /\ room' = IF room > 0 THEN room - 1 ELSE 0
  /\ UNCHANGED <<inputs, system, known, latest, clock, light>>

FirstDipsw ==
  /\ Step("first_dipsw", "first_keys") /\ dipsw' = switches
  /\ UNCHANGED <<inputs, system, room, keys, latest, clock, light>>

FirstKeys ==
  /\ Step("first_keys", "first_nticks") /\ keys' = buttons
  /\ UNCHANGED <<inputs, system, room, dipsw, latest, clock, light>>

\* alt_nticks(): a word is loaded.
LoadLow ==
  /\ pc \in {"first_nticks", "nticks"} /\ now.low = -1
  /\ now' = [now EXCEPT !.low = nticks % Word] /\ reading' = [reading EXCEPT !.at = nticks]
  /\ UNCHANGED <<inputs, pc, system, room, known, latest, nticks, last_toggle, toggled, light>>
LoadHigh ==
  /\ pc \in {"first_nticks", "nticks"} /\ now.high = -1
  /\ now' = [now EXCEPT !.high = nticks \div Word]
  /\ UNCHANGED <<inputs, pc, system, room, known, latest, nticks, last_toggle, reading, toggled,
                 light>>
Loaded == now.low # -1 /\ now.high # -1
Now == now.high * Word + now.low

MutFirstNticks ==
  /\ Step("first_nticks", "banner") /\ Loaded
  /\ last_toggle' = 0 /\ toggled' = reading /\ now' = NotRead /\ reading' = Unknown
  /\ UNCHANGED <<inputs, system, room, known, latest, nticks, light>>
FirstNticks ==
  /\ Step("first_nticks", "banner") /\ Loaded
  /\ last_toggle' = Now /\ toggled' = reading /\ now' = NotRead /\ reading' = Unknown
  /\ UNCHANGED <<inputs, system, room, known, latest, nticks, light>>

ReadDipsw ==
  /\ Step("dipsw", "keys") /\ newDipsw' = switches
  /\ UNCHANGED <<inputs, system, room, known, newKeys, clock, light>>

ReadKeys ==
  /\ Step("keys", "compare") /\ newKeys' = buttons
  /\ UNCHANGED <<inputs, system, room, known, newDipsw, clock, light>>

\* A change of either input is taken over and reported.
MutCompare ==
  /\ pc = "compare"
  /\ IF newDipsw # dipsw
     THEN pc' = "report" /\ dipsw' = newDipsw /\ keys' = newKeys
     ELSE pc' = "nticks" /\ UNCHANGED known
  /\ newDipsw' = 0 /\ newKeys' = {}
  /\ UNCHANGED <<inputs, system, room, clock, light>>
Compare ==
  /\ pc = "compare"
  /\ IF newDipsw # dipsw \/ newKeys # keys
     THEN pc' = "report" /\ dipsw' = newDipsw /\ keys' = newKeys
     ELSE pc' = "nticks" /\ UNCHANGED known
  /\ newDipsw' = 0 /\ newKeys' = {}
  /\ UNCHANGED <<inputs, system, room, clock, light>>

\* At least one tick, however many switches are on.
HalfPeriod ==
  LET n == (tickRate \div 10) \div (dipsw + 1) IN IF n = 0 THEN 1 ELSE n

MutToggle ==
  /\ Step("nticks", "led") /\ Loaded
  /\ IF Ticks(last_toggle, Now) >= HalfPeriod
     THEN blink' = 1 - blink /\ toggled' = reading ELSE UNCHANGED <<blink, toggled>>
  /\ last_toggle' = Now
  /\ now' = NotRead /\ reading' = Unknown
  /\ UNCHANGED <<inputs, system, room, known, latest, nticks, led>>
Toggle ==
  /\ Step("nticks", "led") /\ Loaded
  /\ IF Ticks(last_toggle, Now) >= HalfPeriod
     THEN blink' = 1 - blink /\ last_toggle' = Now /\ toggled' = reading
     ELSE UNCHANGED <<blink, last_toggle, toggled>>
  /\ now' = NotRead /\ reading' = Unknown
  /\ UNCHANGED <<inputs, system, room, known, latest, nticks, led>>

\* KEY0 goes before KEY1, and either before blinking.
MutLight == IF "KEY1" \in keys THEN 0 ELSE IF "KEY0" \in keys THEN 1 ELSE blink
Light == IF "KEY0" \in keys THEN 1 ELSE IF "KEY1" \in keys THEN 0 ELSE blink

WriteLed ==
  /\ Step("led", "sleep") /\ led' = Light
  /\ UNCHANGED <<inputs, system, room, known, latest, clock, blink>>

\* usleep(POLL_PERIOD_US) returns.
Wake ==
  /\ Step("sleep", "dipsw")
  /\ UNCHANGED <<inputs, system, room, known, latest, clock, light>>

-----------------------------------------------------------------------------
Processor ==
  \/ UartInit \/ TimerInit
  \/ FirstDipsw \/ FirstKeys \/ FirstNticks \/ Printf("banner", "first_report")
  \/ Printf("first_report", "dipsw")
  \/ ReadDipsw \/ ReadKeys \/ Compare \/ Printf("report", "nticks")
  \/ LoadLow \/ LoadHigh \/ Toggle \/ WriteLed \/ Wake
User == (\E s \in DipSwitches : SetSwitches(s)) \/ (\E b \in SUBSET Buttons : SetButtons(b))
Next == Processor \/ Tick \/ HostReads \/ User

Spec == Init /\ [][Next]_vars

\* The processor runs, ticks come, and a host that is there reads.
FairSpec == Spec /\ WF_vars(Processor) /\ WF_vars(Tick) /\ WF_vars(HostReads)

-----------------------------------------------------------------------------
(* Properties *)

Labels == {"uart_init", "timer_init", "first_dipsw", "first_keys", "first_nticks", "banner",
           "first_report", "dipsw", "keys", "compare", "report", "nticks", "led", "sleep"}

\* Every variable has its type; blink and led stay bits.
TypeOK ==
  /\ switches \in DipSwitches /\ buttons \subseteq Buttons /\ pc \in Labels
  /\ tickRate \in {0, TicksPerSecond} /\ timeout \in {"default", "never"}
  /\ room \in 0 .. Room
  /\ dipsw \in DipSwitches \cup {0} /\ keys \subseteq Buttons
  /\ newDipsw \in DipSwitches \cup {0} /\ newKeys \subseteq Buttons
  /\ nticks \in Counts /\ last_toggle \in Counts
  /\ now \in [low : -1 .. (Word - 1), high : -1 .. (Word - 1)]
  /\ reading \in [at : Counts, torn : BOOLEAN] /\ toggled \in [at : Counts, torn : BOOLEAN]
  /\ blink \in {0, 1} /\ led \in {0, 1}

\* The report on the console is the last word: once the inputs have settled, what was
\* reported last is what they are, though the loop samples the two at different times.
ReportsSettle ==
  \A s \in DipSwitches, b \in SUBSET Buttons :
    <>[](switches = s /\ buttons = b) => <>[](dipsw = s /\ keys = b /\ pc # "report")

\* Holding KEY0 forces the LED on, whatever else is pressed or switched; holding KEY1
\* alone forces it off.
KeysForceLed ==
  /\ <>[]("KEY0" \in buttons) => <>[](led = 1)
  /\ <>[](buttons = {"KEY1"}) => <>[](led = 0)

\* The blinking goes on for ever, whatever is switched, pressed and reported.
KeepsBlinking == []<>(blink = 0) /\ []<>(blink = 1)

\* blink changes exactly when half a period of ticks has come between the reading of the clock
\* that it last changed by and the present one. Only when a tick carried into the high word
\* between the two loads of one of the readings may it change at the wrong time.
BlinksInTime ==
  [][Toggle /\ ~toggled.torn /\ ~reading.torn =>
       (blink' # blink <=> Ticks(toggled.at, reading.at) >= HalfPeriod)]_vars
=============================================================================
